---------------------------- MODULE CorpusDrafts ----------------------------
(***************************************************************************)
(* The authored facts of a corpus, one YAML file each, and the admin       *)
(* operations that read one and write it back: a fold submits a draft, an  *)
(* approval certifies one, a resolution settles a conflict a fold flagged. *)
(* Each operation is a thread of the serving process; it keeps what it     *)
(* read until it writes, and nothing locks a file in between.  A resolved  *)
(* replacement writes two files, one after the other.                      *)
(***************************************************************************)
EXTENDS ProcessThreads

CONSTANTS
    Answers,  \* what a fact can say
    Seeded,   \* the facts an admin had certified before
    None      \* no asset, no resolution

ASSUME DraftsAssumption == Seeded \subseteq Facts /\ None \notin Facts

VARIABLES
    file,      \* each fact's file
    admin,     \* what each thread is doing to the files, and what it read
    proposed   \* history: <<fact, answer>> that was ever pending on file

drafts == <<file, admin, proposed>>
-----------------------------------------------------------------------------
Absent == [status |-> "absent", answer |-> None, conflict_with |-> None,
           resolution |-> None, excluded |-> FALSE]

Assets == [status : {"draft", "proposed", "certified"}, answer : Answers,
           conflict_with : Facts \cup {None},
           resolution : {None, "kept_existing", "replaced"}, excluded : BOOLEAN]

Free == [at |-> "free", fact |-> None, seen |-> Absent, known |-> {}]

AdminSteps == {"free", "decide", "certify", "declare", "keep", "approve",
               "replace", "supersede", "exclude"}

(* An authored fact is withheld until an admin certified it, and for good  *)
(* once one excluded it; retrieval and authorisation ask the same.         *)
withheld_as_uncertified(asset) == asset.status # "certified"

Visible(files) == {a \in Facts : ~files[a].excluded /\ ~withheld_as_uncertified(files[a])}

restamp_model_authored(answer, status, conflict) ==
    [status |-> status, answer |-> answer, conflict_with |-> conflict,
     resolution |-> None, excluded |-> FALSE]

Certified(asset) == [asset EXCEPT !.status = "certified"]

OnFile(a) == file[a] # Absent

Writes(a, asset) ==
    /\ file' = [file EXCEPT ![a] = asset]
    /\ proposed' = IF asset.status = "proposed" THEN proposed \cup {<<a, asset.answer>>}
                                               ELSE proposed

Goes(t, step) == admin' = [admin EXCEPT ![t] = step]
Ends(t)       == Goes(t, Free)
-----------------------------------------------------------------------------
(* A process starts over whatever folds and admins left on disk.           *)
DraftsInit ==
    /\ file \in {f \in [Facts -> Assets \cup {Absent}] :
                  \A a \in Facts :
                    IF a \in Seeded THEN f[a] \in {restamp_model_authored(v, "certified", None) : v \in Answers}
                    ELSE f[a] \in {Absent} \cup {restamp_model_authored(v, "proposed", c) :
                                                   v \in Answers, c \in Seeded \cup {None}}}
    /\ proposed = {<<a, file[a].answer>> : a \in {b \in Facts : file[b] # Absent}}
    /\ admin = [t \in Threads |-> Free]

(* A fold reads the certified facts its draft may duplicate or contradict, *)
(* then asks a model, which takes a while.                                 *)
FoldReads(t, a) ==
    /\ Goes(t, [Free EXCEPT !.at = "decide", !.fact = a,
                            !.known = {k \in Facts : file[k].status = "certified"}])
    /\ UNCHANGED <<file, proposed>>

(* A duplicate writes nothing; neither does a fold that failed, which its  *)
(* caller swallows.  A contradiction is flagged, anything else is plain.   *)
FoldSkips(t) ==
    /\ admin[t].at = "decide"
    /\ Ends(t) /\ UNCHANGED <<file, proposed>>

FoldSubmits(t) ==
    /\ admin[t].at = "decide"
    /\ \E answer \in Answers, status \in {"proposed", "draft"}, conflict \in admin[t].known \cup {None} :
         Writes(admin[t].fact, restamp_model_authored(answer, status, conflict))
    /\ Ends(t)

ApproveReads(t, a) ==
    /\ file[a].status = "proposed"
    /\ Goes(t, [Free EXCEPT !.at = "certify", !.fact = a, !.seen = file[a]])
    /\ UNCHANGED <<file, proposed>>

ApproveWrites_rereading_the_file(t) ==
    /\ admin[t].at = "certify"
    /\ Writes(admin[t].fact, Certified(file[admin[t].fact]))
    /\ Goes(t, [admin[t] EXCEPT !.at = "declare"])

ApproveWrites(t) ==
    /\ admin[t].at = "certify"
    /\ Writes(admin[t].fact, Certified(admin[t].seen))
    /\ Goes(t, [admin[t] EXCEPT !.at = "declare"])

(* A conflict candidate carries conflict_with and no resolution yet.       *)
ResolveReads(t, a, resolution) ==
    /\ file[a].conflict_with # None /\ file[a].resolution = None
    /\ Goes(t, [Free EXCEPT !.at = IF resolution = "keep_existing" THEN "keep" ELSE "approve",
                            !.fact = a, !.seen = file[a]])
    /\ UNCHANGED <<file, proposed>>

ResolveKeeps(t) ==
    /\ admin[t].at = "keep"
    /\ Writes(admin[t].fact, [admin[t].seen EXCEPT !.resolution = "kept_existing"])
    /\ Ends(t)

(* Replacing approves the candidate, which reads it again and refuses one  *)
(* that is not pending any more.                                           *)
ResolveApproves(t) ==
    /\ admin[t].at = "approve"
    /\ IF file[admin[t].fact].status = "proposed"
         THEN Goes(t, [admin[t] EXCEPT !.at = "replace", !.seen = file[admin[t].fact],
                                       !.known = {admin[t].seen.conflict_with}])
         ELSE Ends(t)
    /\ UNCHANGED <<file, proposed>>

ResolveReplaces(t) ==
    /\ admin[t].at = "replace"
    /\ Writes(admin[t].fact, [Certified(admin[t].seen) EXCEPT !.resolution = "replaced"])
    /\ Goes(t, [admin[t] EXCEPT !.at = "supersede"])

SupersedeReads(t) ==
    /\ admin[t].at = "supersede"
    /\ \E existing \in admin[t].known :
         IF OnFile(existing)
           THEN Goes(t, [Free EXCEPT !.at = "exclude", !.fact = existing, !.seen = file[existing]])
           ELSE Ends(t)
    /\ UNCHANGED <<file, proposed>>

SupersedeExcludes(t) ==
    /\ admin[t].at = "exclude"
    /\ Writes(admin[t].fact, [admin[t].seen EXCEPT !.excluded = TRUE])
    /\ Ends(t)

(* A write that raises ends the route with what it had written before.     *)
WriteFails(t) ==
    /\ admin[t].at \in {"certify", "keep", "replace", "exclude"}
    /\ Ends(t) /\ UNCHANGED <<file, proposed>>
-----------------------------------------------------------------------------
DraftsTypeOK ==
    /\ file \in [Facts -> Assets \cup {Absent}]
    /\ admin \in [Threads -> [at : AdminSteps, fact : Facts \cup {None},
                              seen : Assets \cup {Absent}, known : SUBSET Facts]]
    /\ proposed \subseteq Facts \X Answers

(* approve_draft certifies what an admin could have read on the drafts     *)
(* queue: whatever another thread folds into the same file meanwhile, no   *)
(* answer is certified that was never pending, an unwarranted one least.   *)
OnlyPendingIsCertified ==
    \A a \in Facts : file[a].status = "certified" => <<a, file[a].answer>> \in proposed
=============================================================================
