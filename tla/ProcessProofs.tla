------------------------------ MODULE ProcessProofs ------------------------------
(***************************************************************************)
(* What holds of the state one serving process keeps, for any threads: its *)
(* corpus drafts, session cache and overrides (ServingProcess), the vector *)
(* cache of its index (VectorSpace), and its shared connection and token   *)
(* (Backends).  The three share no state; each has an invariant of its     *)
(* own.                                                                    *)
(***************************************************************************)
EXTENDS ServingProcess, VectorSpace, Backends, TLAPS

-----------------------------------------------------------------------------
(* ServingProcess, for any facts, answers and switches.  Each of its three *)
(* parts has an invariant of its own, which the steps of the other two     *)
(* leave alone.                                                            *)

-----------------------------------------------------------------------------
(* What an admin thread holds was on file, and was pending if it is more   *)
(* than a draft.                                                           *)
Holding == {"certify", "keep", "approve", "replace", "exclude"}

WasPending(a, asset, pending) ==
    asset.status \in {"proposed", "certified"} => <<a, asset.answer>> \in pending

Sound(held, pending) ==
    /\ held.at # "free" => held.fact \in Facts
    /\ held.at \in Holding => held.seen \in Assets /\ WasPending(held.fact, held.seen, pending)
    /\ held.at \in {"certify", "replace"} => held.seen.status = "proposed"
    /\ held.at = "approve" => held.seen.conflict_with \in Facts

FilesWerePending == \A a \in Facts : file[a] # Absent => WasPending(a, file[a], proposed)

ThreadsHoldWhatWasOnFile == \A t \in Threads : Sound(admin[t], proposed)

DraftsInv == DraftsTypeOK /\ FilesWerePending /\ ThreadsHoldWhatWasOnFile

-----------------------------------------------------------------------------
(* Until two of them overlap, the one thread that touches the overrides    *)
(* carries them unchanged up to its write, and settles what it wrote.      *)
Carries(t) ==
    LET at == switching[t].at
        new == Settling(t)
    IN /\ at \in {"load", "cache", "copy", "open"} => OVERRIDE_PATH = settled
       /\ at = "cache" => switching[t].values = settled
       /\ at \in {"copy", "open", "fill"} => override_cache = settled
       /\ at \in {"open", "fill", "keep"} => switching[t].values = new
       /\ at = "keep" => OVERRIDE_PATH = new

Untorn ==
    /\ \A t, u \in Touching : t = u
    /\ \A t \in Touching : Carries(t)
    /\ SwitchesAreInForce

(* A thread that writes has a knob to switch, and a cache to copy.         *)
SwitchesAKnob ==
    \A t \in Threads :
        /\ switching[t].at \in {"copy", "open", "fill", "keep"} => switching[t].knob \in TOGGLEABLE
        /\ switching[t].at = "copy" => override_cache \subseteq TOGGLEABLE

OverridesInv == OverridesTypeOK /\ SwitchesAKnob /\ (~torn => Untorn)

-----------------------------------------------------------------------------
(* Until an approval lands while a session is being built, a session of    *)
(* the current generation, or one about to be, serves all that is owed.    *)
Served(t) == turn[t].at \in {"install", "clear", "fill", "accepted", "read"}

OwedIsVisible ==
    /\ owed \subseteq Visible(file)
    /\ \A t \in Threads : promised[t] \subseteq Visible(file)

SessionServesTheOwed ==
    /\ session_generation = corpus_generation => owed \subseteq session
    /\ \A t \in Threads : turn[t].at = "install" => owed \subseteq turn[t].session
    /\ \A t \in Threads : Served(t) => promised[t] \subseteq turn[t].session

HistoryTyped == owed \subseteq Facts /\ promised \in [Threads -> SUBSET Facts] /\ raced \in BOOLEAN

CacheInv ==
    /\ CacheTypeOK /\ HistoryTyped /\ OwedIsVisible
    /\ ~raced => SessionServesTheOwed

Bounded == jobs \in 0 .. MaxJobs /\ crashes \in 0 .. MaxCrashes

ServingInv == DraftsInv /\ OverridesInv /\ CacheInv /\ Bounded

-----------------------------------------------------------------------------
(* What was pending stays so.                                              *)
LEMMA SoundGrows ==
    ASSUME NEW held, NEW pending, NEW more, pending \subseteq more, Sound(held, pending)
    PROVE  Sound(held, more)
BY DEF Sound, WasPending

(* A thread that goes on with something sound leaves the others as they    *)
(* were.                                                                   *)
LEMMA GoesKeeps ==
    ASSUME DraftsInv, NEW t \in Threads, NEW next,
           next \in [at : AdminSteps, fact : Facts \cup {None}, seen : Assets \cup {Absent},
                     known : SUBSET Facts],
           Goes(t, next), proposed \subseteq proposed', Sound(next, proposed')
    PROVE  /\ admin' \in [Threads -> [at : AdminSteps, fact : Facts \cup {None},
                                      seen : Assets \cup {Absent}, known : SUBSET Facts]]
           /\ ThreadsHoldWhatWasOnFile'
<1>1. ASSUME NEW u \in Threads PROVE Sound(admin'[u], proposed')
    BY SoundGrows, <1>1 DEF DraftsInv, DraftsTypeOK, Goes, ThreadsHoldWhatWasOnFile
<1> QED BY <1>1 DEF DraftsInv, DraftsTypeOK, Goes, ThreadsHoldWhatWasOnFile

(* A write that certifies only what was pending keeps the files so.        *)
LEMMA WritesKeep ==
    ASSUME DraftsInv, NEW a \in Facts, NEW asset \in Assets, Writes(a, asset),
           asset.status = "certified" => <<a, asset.answer>> \in proposed
    PROVE  /\ file' \in [Facts -> Assets \cup {Absent}] /\ proposed' \subseteq Facts \X Answers
           /\ proposed \subseteq proposed' /\ FilesWerePending'
           /\ WasPending(a, asset, proposed')
<1>1. asset.answer \in Answers
    BY DEF Assets
<1>2. proposed \subseteq proposed' /\ proposed' \subseteq Facts \X Answers
    BY <1>1 DEF Writes, DraftsInv, DraftsTypeOK
<1>3. WasPending(a, asset, proposed')
    BY <1>2 DEF Writes, WasPending
<1>4. file' \in [Facts -> Assets \cup {Absent}]
    BY DEF Writes, DraftsInv, DraftsTypeOK
<1>5. ASSUME NEW b \in Facts, file'[b] # Absent PROVE WasPending(b, file'[b], proposed')
    BY <1>2, <1>3, <1>5 DEF Writes, DraftsInv, DraftsTypeOK, FilesWerePending, WasPending
<1> QED BY <1>2, <1>3, <1>4, <1>5 DEF FilesWerePending

(* A free thread holds nothing.                                            *)
LEMMA FreeIsSound ==
    /\ Free \in [at : AdminSteps, fact : Facts \cup {None}, seen : Assets \cup {Absent},
                  known : SUBSET Facts]
    /\ \A pending : Sound(Free, pending)
BY DEF Free, AdminSteps, Sound, Holding

(* No step of a fold, an approval or a resolution certifies what was not   *)
(* pending, however they interleave.                                       *)
LEMMA AdminKeeps ==
    ASSUME DraftsInv, NEW t \in Threads,
           \/ \E a \in Facts : \/ FoldReads(t, a) \/ ApproveReads(t, a)
                              \/ \E r \in {"keep_existing", "replace"} : ResolveReads(t, a, r)
           \/ FoldSkips(t) \/ FoldSubmits(t) \/ ApproveWrites(t)
           \/ ResolveKeeps(t) \/ ResolveApproves(t) \/ ResolveReplaces(t)
           \/ SupersedeReads(t) \/ SupersedeExcludes(t) \/ WriteFails(t)
           \/ Ends(t) /\ UNCHANGED <<file, proposed>>
    PROVE  DraftsInv'
<1> DEFINE Steps == [at : AdminSteps, fact : Facts \cup {None}, seen : Assets \cup {Absent},
                     known : SUBSET Facts]
<1>0. admin[t] \in Steps /\ Sound(admin[t], proposed) /\ file \in [Facts -> Assets \cup {Absent}]
    BY DEF DraftsInv, DraftsTypeOK, ThreadsHoldWhatWasOnFile
<1>9. Absent.status = "absent" /\ Absent.conflict_with = None
    BY DEF Absent
<1>a. ASSUME NEW next \in Steps, Goes(t, next), UNCHANGED <<file, proposed>>, Sound(next, proposed)
      PROVE  DraftsInv'
    BY <1>a, GoesKeeps DEF DraftsInv, DraftsTypeOK, FilesWerePending, WasPending
<1>b. ASSUME NEW a \in Facts, NEW asset \in Assets, Writes(a, asset), NEW next \in Steps,
             asset.status = "certified" => <<a, asset.answer>> \in proposed,
             Goes(t, next), Sound(next, proposed')
      PROVE  DraftsInv'
    BY <1>b, GoesKeeps, WritesKeep DEF DraftsInv, DraftsTypeOK
<1>c. ASSUME Ends(t), UNCHANGED <<file, proposed>> PROVE DraftsInv'
    BY <1>a, <1>c, FreeIsSound DEF Ends
<1>1. ASSUME NEW a \in Facts, FoldReads(t, a) PROVE DraftsInv'
  <2> DEFINE next == [Free EXCEPT !.at = "decide", !.fact = a,
                            !.known = {k \in Facts : file[k].status = "certified"}]
  <2>1. next \in Steps /\ Sound(next, proposed)
      BY DEF Free, AdminSteps, Sound, Holding
  <2> QED BY <1>1, <1>a, <2>1 DEF FoldReads
<1>2. ASSUME NEW a \in Facts, ApproveReads(t, a) PROVE DraftsInv'
  <2> DEFINE next == [Free EXCEPT !.at = "certify", !.fact = a, !.seen = file[a]]
  <2>1. file[a] # Absent /\ file[a] \in Assets
      BY <1>0, <1>2, <1>9 DEF ApproveReads
  <2>2. WasPending(a, file[a], proposed)
      BY <2>1 DEF DraftsInv, FilesWerePending
  <2>3. next \in Steps /\ Sound(next, proposed)
      BY <1>2, <2>1, <2>2 DEF Free, AdminSteps, Sound, ApproveReads
  <2> QED BY <1>2, <1>a, <2>3 DEF ApproveReads
<1>3. ASSUME NEW a \in Facts, NEW r \in {"keep_existing", "replace"}, ResolveReads(t, a, r)
      PROVE  DraftsInv'
  <2> DEFINE next == [Free EXCEPT !.at = IF r = "keep_existing" THEN "keep" ELSE "approve",
                            !.fact = a, !.seen = file[a]]
  <2>1. file[a] # Absent /\ file[a] \in Assets
      BY <1>0, <1>3, <1>9 DEF ResolveReads
  <2>2. WasPending(a, file[a], proposed)
      BY <2>1 DEF DraftsInv, FilesWerePending
  <2>3. file[a].conflict_with \in Facts
      BY <1>3, <2>1 DEF ResolveReads, Assets
  <2>4. next \in Steps /\ Sound(next, proposed)
      BY <2>1, <2>2, <2>3 DEF Free, AdminSteps, Sound, Holding
  <2> QED BY <1>3, <1>a, <2>4 DEF ResolveReads
<1>4. CASE FoldSkips(t)
    BY <1>4, <1>c DEF FoldSkips
<1>5. CASE FoldSubmits(t)
  <2>1. PICK answer \in Answers, status \in {"proposed", "draft"},
             conflict \in admin[t].known \cup {None} :
                Writes(admin[t].fact, restamp_model_authored(answer, status, conflict))
      BY <1>5 DEF FoldSubmits
  <2>2. restamp_model_authored(answer, status, conflict) \in Assets
      BY <1>0 DEF restamp_model_authored, Assets
  <2>3. restamp_model_authored(answer, status, conflict).status # "certified"
      BY DEF restamp_model_authored
  <2>4. admin[t].fact \in Facts
      BY <1>0, <1>5 DEF FoldSubmits, Sound
  <2> QED BY <1>5, <1>b, <2>1, <2>2, <2>3, <2>4, FreeIsSound DEF FoldSubmits, Ends
<1>6. CASE ApproveWrites(t)
  <2> DEFINE asset == Certified(admin[t].seen)
             next == [admin[t] EXCEPT !.at = "declare"]
  <2>1. admin[t].fact \in Facts /\ admin[t].seen \in Assets
        /\ <<admin[t].fact, admin[t].seen.answer>> \in proposed
      BY <1>0, <1>6 DEF ApproveWrites, Sound, Holding, WasPending
  <2>2. asset \in Assets /\ asset.answer = admin[t].seen.answer
      BY <2>1 DEF Certified, Assets
  <2>3. next \in Steps /\ \A pending : Sound(next, pending)
      BY <1>0, <2>1 DEF AdminSteps, Sound, Holding
  <2> QED BY <1>6, <1>b, <2>1, <2>2, <2>3 DEF ApproveWrites
<1>7. CASE ResolveKeeps(t)
  <2> DEFINE asset == [admin[t].seen EXCEPT !.resolution = "kept_existing"]
  <2>1. admin[t].fact \in Facts /\ admin[t].seen \in Assets
        /\ WasPending(admin[t].fact, admin[t].seen, proposed)
      BY <1>0, <1>7 DEF ResolveKeeps, Sound, Holding
  <2>2. asset \in Assets /\ asset.answer = admin[t].seen.answer
        /\ asset.status = admin[t].seen.status
      BY <2>1 DEF Assets
  <2> QED BY <1>7, <1>b, <2>1, <2>2, FreeIsSound DEF ResolveKeeps, Ends, WasPending
<1>8. CASE ResolveApproves(t)
  <2> DEFINE next == [admin[t] EXCEPT !.at = "replace", !.seen = file[admin[t].fact],
                                       !.known = {admin[t].seen.conflict_with}]
  <2>1. admin[t].fact \in Facts /\ admin[t].seen.conflict_with \in Facts
      BY <1>0, <1>8 DEF ResolveApproves, Sound
  <2>2. CASE file[admin[t].fact].status = "proposed"
    <3>1. file[admin[t].fact] # Absent /\ file[admin[t].fact] \in Assets
        BY <1>0, <2>1, <2>2, <1>9
    <3>2. WasPending(admin[t].fact, file[admin[t].fact], proposed)
        BY <2>1, <3>1 DEF DraftsInv, FilesWerePending
    <3>3. next \in Steps /\ Sound(next, proposed)
        BY <1>0, <2>1, <2>2, <3>1, <3>2 DEF AdminSteps, Sound
    <3> QED BY <1>8, <1>a, <2>2, <3>3 DEF ResolveApproves
  <2>3. CASE file[admin[t].fact].status # "proposed"
      BY <1>8, <1>c, <2>3 DEF ResolveApproves
  <2> QED BY <2>2, <2>3
<1>10. CASE ResolveReplaces(t)
  <2> DEFINE asset == [Certified(admin[t].seen) EXCEPT !.resolution = "replaced"]
             next == [admin[t] EXCEPT !.at = "supersede"]
  <2>1. admin[t].fact \in Facts /\ admin[t].seen \in Assets
        /\ <<admin[t].fact, admin[t].seen.answer>> \in proposed
      BY <1>0, <1>10 DEF ResolveReplaces, Sound, Holding, WasPending
  <2>2. asset \in Assets /\ asset.answer = admin[t].seen.answer
      BY <2>1 DEF Certified, Assets
  <2>3. next \in Steps /\ \A pending : Sound(next, pending)
      BY <1>0, <2>1 DEF AdminSteps, Sound, Holding
  <2> QED BY <1>10, <1>b, <2>1, <2>2, <2>3 DEF ResolveReplaces
<1>11. CASE SupersedeReads(t)
  <2>1. PICK existing \in admin[t].known :
         IF OnFile(existing)
           THEN Goes(t, [Free EXCEPT !.at = "exclude", !.fact = existing, !.seen = file[existing]])
           ELSE Ends(t)
      BY <1>11 DEF SupersedeReads
  <2> DEFINE next == [Free EXCEPT !.at = "exclude", !.fact = existing, !.seen = file[existing]]
  <2>2. existing \in Facts
      BY <1>0
  <2>3. CASE OnFile(existing)
    <3>1. file[existing] \in Assets /\ WasPending(existing, file[existing], proposed)
        BY <1>0, <2>2, <2>3 DEF OnFile, DraftsInv, FilesWerePending
    <3>2. next \in Steps /\ Sound(next, proposed)
        BY <2>2, <3>1 DEF Free, AdminSteps, Sound, Holding
    <3> QED BY <1>11, <1>a, <2>1, <2>3, <3>2 DEF SupersedeReads
  <2>4. CASE ~OnFile(existing)
      BY <1>11, <1>c, <2>1, <2>4 DEF SupersedeReads
  <2> QED BY <2>3, <2>4
<1>12. CASE SupersedeExcludes(t)
  <2> DEFINE asset == [admin[t].seen EXCEPT !.excluded = TRUE]
  <2>1. admin[t].fact \in Facts /\ admin[t].seen \in Assets
        /\ WasPending(admin[t].fact, admin[t].seen, proposed)
      BY <1>0, <1>12 DEF SupersedeExcludes, Sound, Holding
  <2>2. asset \in Assets /\ asset.answer = admin[t].seen.answer
        /\ asset.status = admin[t].seen.status
      BY <2>1 DEF Assets
  <2> QED BY <1>12, <1>b, <2>1, <2>2, FreeIsSound DEF SupersedeExcludes, Ends, WasPending
<1>13. CASE WriteFails(t)
    BY <1>13, <1>c DEF WriteFails
<1> QED
    BY <1>1, <1>2, <1>3, <1>4, <1>5, <1>6, <1>7, <1>8, <1>10, <1>11, <1>12, <1>13, <1>c

-----------------------------------------------------------------------------
SwitchStates == [at : SwitchSteps, knob : TOGGLEABLE \cup {NoCache}, values : SUBSET TOGGLEABLE]

(* While nothing is torn, a thread that touches the overrides is alone.    *)
LEMMA OneTouches ==
    ASSUME OverridesInv, ~torn, NEW t \in Threads, switching[t].at # "rest"
    PROVE  Touching = {t} /\ Carries(t)
BY DEF OverridesInv, Untorn, Touching

(* Its next step is in order if it carries on, or leaves with what is      *)
(* settled in force.                                                       *)
LEMMA StepKeeps ==
    ASSUME OverridesInv, NEW t \in Threads, NEW next \in SwitchStates,
           switching' = [switching EXCEPT ![t] = next],
           next.at \in {"copy", "open", "fill", "keep"} => next.knob \in TOGGLEABLE,
           next.at = "copy" => override_cache' \subseteq TOGGLEABLE,
           ~torn => Touching \subseteq {t},
           OVERRIDE_PATH' \subseteq TOGGLEABLE, settled' \subseteq TOGGLEABLE,
           override_cache' = override_cache \/ override_cache' \subseteq TOGGLEABLE,
           torn' = torn,
           ~torn /\ next.at # "rest" => Carries(t)',
           ~torn /\ next.at = "rest" =>
               OVERRIDE_PATH' = settled' /\ override_cache' \in {NoCache, settled'}
    PROVE  OverridesInv'
<1>1. switching \in [Threads -> SwitchStates] /\ torn \in BOOLEAN
    BY DEF OverridesInv, OverridesTypeOK, SwitchStates
<1>2. OverridesTypeOK'
    BY <1>1 DEF OverridesInv, OverridesTypeOK, SwitchStates
<1>3. SwitchesAKnob'
    BY <1>1 DEF OverridesInv, SwitchesAKnob
<1>4. ASSUME ~torn PROVE Untorn'
  <2>1. switching'[t] = next /\ \A u \in Threads : u # t => switching'[u].at = "rest"
      BY <1>1, <1>4 DEF Touching
  <2>2. CASE next.at = "rest"
      BY <1>4, <2>1, <2>2 DEF Untorn, Touching, SwitchesAreInForce
  <2>3. CASE next.at # "rest"
    <3>1. Touching' = {t}
        BY <2>1, <2>3 DEF Touching
    <3> QED BY <1>4, <2>3, <3>1 DEF Untorn, SwitchesAreInForce
  <2> QED BY <2>2, <2>3
<1> QED BY <1>2, <1>3, <1>4 DEF OverridesInv

(* A switch that nobody overlaps writes to file and cache what it settles. *)
LEMMA SwitchKeeps ==
    ASSUME OverridesInv, NEW t \in Threads,
           \/ LoadsOverrides(t) \/ CachesOverrides(t) \/ CopiesOverrides(t)
           \/ OpensOverrides(t) \/ FillsOverrides(t) \/ KeepsOverrides(t)
    PROVE  OverridesInv'
<1>1. /\ switching \in [Threads -> SwitchStates]
      /\ OVERRIDE_PATH \subseteq TOGGLEABLE /\ settled \subseteq TOGGLEABLE
      /\ override_cache \in (SUBSET TOGGLEABLE) \cup {NoCache}
    BY DEF OverridesInv, OverridesTypeOK, SwitchStates
<1>2. switching[t].at # "rest"
    BY DEF LoadsOverrides, CachesOverrides, CopiesOverrides, OpensOverrides, FillsOverrides,
           KeepsOverrides
<1>3. ~torn => Touching = {t} /\ Carries(t)
    BY <1>2, OneTouches
<1>4. CASE LoadsOverrides(t)
  <2> DEFINE next == [switching[t] EXCEPT !.at = "cache", !.values = OVERRIDE_PATH]
  <2>1. next \in SwitchStates
      BY <1>1, <1>4 DEF LoadsOverrides, SwitchStates, SwitchSteps, Resting, Settling, Switched, OverridesInv, SwitchesAKnob
  <2>2. /\ next.at \in {"copy", "open", "fill", "keep"} => next.knob \in TOGGLEABLE
        /\ next.at = "copy" => override_cache' \subseteq TOGGLEABLE
      BY <1>1, <1>4 DEF LoadsOverrides, SwitchStates, Resting, OverridesInv, SwitchesAKnob
  <2>3. OVERRIDE_PATH' \subseteq TOGGLEABLE /\ settled' \subseteq TOGGLEABLE
      BY <1>1, <1>4 DEF LoadsOverrides, SwitchStates, Settling, Switched, OverridesInv, SwitchesAKnob
  <2>4. override_cache' = override_cache \/ override_cache' \subseteq TOGGLEABLE
      BY <1>1, <1>4 DEF LoadsOverrides, SwitchStates
  <2>5. ~torn /\ next.at # "rest" => Carries(t)'
      BY <1>1, <1>3, <1>4 DEF LoadsOverrides, SwitchGoes, Carries, Settling, Resting
  <2>6. ~torn /\ next.at = "rest" => OVERRIDE_PATH' = settled' /\ override_cache' = settled'
      BY <1>1, <1>3, <1>4 DEF LoadsOverrides, SwitchGoes, Carries, Settling, Resting
  <2>7. switching' = [switching EXCEPT ![t] = next] /\ torn' = torn
      BY <1>4 DEF LoadsOverrides, SwitchGoes
  <2> HIDE DEF next
  <2> QED BY <1>3, <2>1, <2>2, <2>3, <2>4, <2>5, <2>6, <2>7, StepKeeps
<1>5. CASE CachesOverrides(t)
  <2> DEFINE next == IF switching[t].knob = NoCache THEN Resting
                     ELSE [switching[t] EXCEPT !.at = "copy"]
  <2>1. next \in SwitchStates
      BY <1>1, <1>5 DEF CachesOverrides, SwitchStates, SwitchSteps, Resting, Settling, Switched, OverridesInv, SwitchesAKnob
  <2>2. /\ next.at \in {"copy", "open", "fill", "keep"} => next.knob \in TOGGLEABLE
        /\ next.at = "copy" => override_cache' \subseteq TOGGLEABLE
      BY <1>1, <1>5 DEF CachesOverrides, SwitchStates, Resting, OverridesInv, SwitchesAKnob
  <2>3. OVERRIDE_PATH' \subseteq TOGGLEABLE /\ settled' \subseteq TOGGLEABLE
      BY <1>1, <1>5 DEF CachesOverrides, SwitchStates, Settling, Switched, OverridesInv, SwitchesAKnob
  <2>4. override_cache' = override_cache \/ override_cache' \subseteq TOGGLEABLE
      BY <1>1, <1>5 DEF CachesOverrides, SwitchStates
  <2>5. ~torn /\ next.at # "rest" => Carries(t)'
      BY <1>1, <1>3, <1>5 DEF CachesOverrides, SwitchGoes, Carries, Settling, Resting
  <2>6. ~torn /\ next.at = "rest" => OVERRIDE_PATH' = settled' /\ override_cache' = settled'
      BY <1>1, <1>3, <1>5 DEF CachesOverrides, SwitchGoes, Carries, Settling, Resting
  <2>7. switching' = [switching EXCEPT ![t] = next] /\ torn' = torn
      BY <1>5 DEF CachesOverrides, SwitchGoes
  <2> HIDE DEF next
  <2> QED BY <1>3, <2>1, <2>2, <2>3, <2>4, <2>5, <2>6, <2>7, StepKeeps
<1>6. CASE CopiesOverrides(t)
  <2>0. PICK on \in BOOLEAN : SwitchGoes(t, [switching[t] EXCEPT !.at = "open",
                !.values = Switched(override_cache, switching[t].knob, on)])
      BY <1>6 DEF CopiesOverrides
  <2> DEFINE next == [switching[t] EXCEPT !.at = "open",
                        !.values = Switched(override_cache, switching[t].knob, on)]
  <2>1. next \in SwitchStates
      BY <1>1, <1>6 DEF CopiesOverrides, SwitchStates, SwitchSteps, Resting, Settling, Switched, OverridesInv, SwitchesAKnob
  <2>2. /\ next.at \in {"copy", "open", "fill", "keep"} => next.knob \in TOGGLEABLE
        /\ next.at = "copy" => override_cache' \subseteq TOGGLEABLE
      BY <1>1, <1>6 DEF CopiesOverrides, SwitchStates, Resting, OverridesInv, SwitchesAKnob
  <2>3. OVERRIDE_PATH' \subseteq TOGGLEABLE /\ settled' \subseteq TOGGLEABLE
      BY <1>1, <1>6 DEF CopiesOverrides, SwitchStates, Settling, Switched, OverridesInv, SwitchesAKnob
  <2>4. override_cache' = override_cache \/ override_cache' \subseteq TOGGLEABLE
      BY <1>1, <1>6 DEF CopiesOverrides, SwitchStates
  <2>5. ~torn /\ next.at # "rest" => Carries(t)'
    <3>1. /\ switching'[t].values = Switched(override_cache, switching[t].knob, on)
          /\ switching'[t].knob = switching[t].knob /\ switching'[t].at = "open"
      BY <1>1, <2>0 DEF SwitchGoes, SwitchStates
    <3> QED BY <1>1, <1>3, <1>6, <3>1 DEF CopiesOverrides, Carries, Settling, Switched
  <2>6. ~torn /\ next.at = "rest" => OVERRIDE_PATH' = settled' /\ override_cache' = settled'
      BY <1>1, <1>3, <1>6 DEF CopiesOverrides, SwitchGoes, Carries, Settling, Resting
  <2>7. switching' = [switching EXCEPT ![t] = next] /\ torn' = torn
      BY <1>6, <2>0 DEF CopiesOverrides, SwitchGoes
  <2> HIDE DEF next
  <2> QED BY <1>3, <2>1, <2>2, <2>3, <2>4, <2>5, <2>6, <2>7, StepKeeps
<1>7. CASE OpensOverrides(t)
  <2> DEFINE next == [switching[t] EXCEPT !.at = "fill"]
  <2>1. next \in SwitchStates
      BY <1>1, <1>7 DEF OpensOverrides, SwitchStates, SwitchSteps, Resting, Settling, Switched, OverridesInv, SwitchesAKnob
  <2>2. /\ next.at \in {"copy", "open", "fill", "keep"} => next.knob \in TOGGLEABLE
        /\ next.at = "copy" => override_cache' \subseteq TOGGLEABLE
      BY <1>1, <1>7 DEF OpensOverrides, SwitchStates, Resting, OverridesInv, SwitchesAKnob
  <2>3. OVERRIDE_PATH' \subseteq TOGGLEABLE /\ settled' \subseteq TOGGLEABLE
      BY <1>1, <1>7 DEF OpensOverrides, SwitchStates, Settling, Switched, OverridesInv, SwitchesAKnob
  <2>4. override_cache' = override_cache \/ override_cache' \subseteq TOGGLEABLE
      BY <1>1, <1>7 DEF OpensOverrides, SwitchStates
  <2>5. ~torn /\ next.at # "rest" => Carries(t)'
      BY <1>1, <1>3, <1>7 DEF OpensOverrides, SwitchGoes, Carries, Settling, Resting
  <2>6. ~torn /\ next.at = "rest" => OVERRIDE_PATH' = settled' /\ override_cache' = settled'
      BY <1>1, <1>3, <1>7 DEF OpensOverrides, SwitchGoes, Carries, Settling, Resting
  <2>7. switching' = [switching EXCEPT ![t] = next] /\ torn' = torn
      BY <1>7 DEF OpensOverrides, SwitchGoes
  <2> HIDE DEF next
  <2> QED BY <1>3, <2>1, <2>2, <2>3, <2>4, <2>5, <2>6, <2>7, StepKeeps
<1>8. CASE FillsOverrides(t)
  <2> DEFINE next == [switching[t] EXCEPT !.at = "keep"]
  <2>1. next \in SwitchStates
      BY <1>1, <1>8 DEF FillsOverrides, SwitchStates, SwitchSteps, Resting, Settling, Switched, OverridesInv, SwitchesAKnob
  <2>2. /\ next.at \in {"copy", "open", "fill", "keep"} => next.knob \in TOGGLEABLE
        /\ next.at = "copy" => override_cache' \subseteq TOGGLEABLE
      BY <1>1, <1>8 DEF FillsOverrides, SwitchStates, Resting, OverridesInv, SwitchesAKnob
  <2>3. OVERRIDE_PATH' \subseteq TOGGLEABLE /\ settled' \subseteq TOGGLEABLE
      BY <1>1, <1>8 DEF FillsOverrides, SwitchStates, Settling, Switched, OverridesInv, SwitchesAKnob
  <2>4. override_cache' = override_cache \/ override_cache' \subseteq TOGGLEABLE
      BY <1>1, <1>8 DEF FillsOverrides, SwitchStates
  <2>5. ~torn /\ next.at # "rest" => Carries(t)'
      BY <1>1, <1>3, <1>8 DEF FillsOverrides, SwitchGoes, Carries, Settling, Resting
  <2>6. ~torn /\ next.at = "rest" => OVERRIDE_PATH' = settled' /\ override_cache' = settled'
      BY <1>1, <1>3, <1>8 DEF FillsOverrides, SwitchGoes, Carries, Settling, Resting
  <2>7. switching' = [switching EXCEPT ![t] = next] /\ torn' = torn
      BY <1>8 DEF FillsOverrides, SwitchGoes
  <2> HIDE DEF next
  <2> QED BY <1>3, <2>1, <2>2, <2>3, <2>4, <2>5, <2>6, <2>7, StepKeeps
<1>9. CASE KeepsOverrides(t)
  <2> DEFINE next == Resting
  <2>1. next \in SwitchStates
      BY <1>1, <1>9 DEF KeepsOverrides, SwitchStates, SwitchSteps, Resting, Settling, Switched, OverridesInv, SwitchesAKnob
  <2>2. /\ next.at \in {"copy", "open", "fill", "keep"} => next.knob \in TOGGLEABLE
        /\ next.at = "copy" => override_cache' \subseteq TOGGLEABLE
      BY <1>1, <1>9 DEF KeepsOverrides, SwitchStates, Resting, OverridesInv, SwitchesAKnob
  <2>3. OVERRIDE_PATH' \subseteq TOGGLEABLE /\ settled' \subseteq TOGGLEABLE
      BY <1>1, <1>9 DEF KeepsOverrides, SwitchStates, Settling, Switched, OverridesInv, SwitchesAKnob
  <2>4. override_cache' = override_cache \/ override_cache' \subseteq TOGGLEABLE
      BY <1>1, <1>9 DEF KeepsOverrides, SwitchStates
  <2>5. ~torn /\ next.at # "rest" => Carries(t)'
      BY <1>1, <1>3, <1>9 DEF KeepsOverrides, SwitchGoes, Carries, Settling, Resting
  <2>6. ~torn /\ next.at = "rest" => OVERRIDE_PATH' = settled' /\ override_cache' = settled'
      BY <1>1, <1>3, <1>9 DEF KeepsOverrides, SwitchGoes, Carries, Settling, Resting
  <2>7. switching' = [switching EXCEPT ![t] = next] /\ torn' = torn
      BY <1>9 DEF KeepsOverrides, SwitchGoes
  <2> HIDE DEF next
  <2> QED BY <1>3, <2>1, <2>2, <2>3, <2>4, <2>5, <2>6, <2>7, StepKeeps
<1> QED BY <1>4, <1>5, <1>6, <1>7, <1>8, <1>9

(* A reader or a switch that begins while another is under way counts as   *)
(* an overlap; one that begins alone finds what is settled.                *)
LEMMA BeginsKeeps ==
    ASSUME OverridesInv, NEW t \in Threads, NEW knob \in TOGGLEABLE \cup {NoCache},
           overrides(t, knob)
    PROVE  OverridesInv'
<1> DEFINE next == [Resting EXCEPT !.knob = knob,
                        !.at = CASE override_cache = NoCache -> "load"
                                 [] override_cache # NoCache /\ knob = NoCache -> "rest"
                                 [] OTHER -> "copy"]
<1>1. /\ switching \in [Threads -> SwitchStates]
      /\ OVERRIDE_PATH \subseteq TOGGLEABLE /\ settled \subseteq TOGGLEABLE
      /\ override_cache \in (SUBSET TOGGLEABLE) \cup {NoCache} /\ torn \in BOOLEAN
    BY DEF OverridesInv, OverridesTypeOK, SwitchStates
<1>2. switching' = [switching EXCEPT ![t] = next]
      /\ UNCHANGED <<OVERRIDE_PATH, override_cache, settled>>
    BY DEF overrides, SwitchGoes
<1>3. next \in SwitchStates /\ next.knob = knob
      /\ next.at \in {"load", "rest", "copy"}
      /\ (next.at = "copy" => knob # NoCache /\ override_cache # NoCache)
      /\ (next.at = "rest" => override_cache # NoCache)
    BY DEF Resting, SwitchStates, SwitchSteps
<1>a. override_cache # NoCache => override_cache \subseteq TOGGLEABLE
    BY <1>1
<1>b. knob # NoCache => knob \in TOGGLEABLE
    OBVIOUS
<1>c. next.at = "copy" => next.knob \in TOGGLEABLE
    <2> HIDE DEF next
    <2> QED BY <1>3, <1>b
<1>d. next.at = "copy" => override_cache' \subseteq TOGGLEABLE
    <2>1. override_cache' = override_cache
        BY <1>2
    <2> HIDE DEF next
    <2> QED BY <2>1, <1>3, <1>a
<1>4. CASE Touching = {}
  <2>1. torn' = torn
      BY <1>1, <1>4 DEF overrides
  <2>2. ~torn => OVERRIDE_PATH = settled /\ override_cache \in {NoCache, settled}
      BY <1>4 DEF OverridesInv, Untorn, SwitchesAreInForce
  <2>3. ~torn /\ next.at # "rest" => Carries(t)'
    <3> HIDE DEF next
    <3> QED BY <1>1, <1>2, <1>3, <2>2 DEF Carries
  <2>4. /\ next.at \in {"copy", "open", "fill", "keep"} => next.knob \in TOGGLEABLE
        /\ next.at = "copy" => override_cache' \subseteq TOGGLEABLE
    <3> HIDE DEF next
    <3> QED BY <1>3, <1>c, <1>d
  <2>5. ~torn => Touching \subseteq {t}
      BY <1>4
  <2>6. OVERRIDE_PATH' \subseteq TOGGLEABLE /\ settled' \subseteq TOGGLEABLE
        /\ override_cache' = override_cache
      BY <1>1, <1>2
  <2>7. ~torn /\ next.at = "rest" =>
            OVERRIDE_PATH' = settled' /\ override_cache' \in {NoCache, settled'}
      BY <1>2, <2>2
  <2> HIDE DEF next
  <2> QED BY <1>2, <1>3, <2>1, <2>3, <2>4, <2>5, <2>6, <2>7, StepKeeps
<1>5. CASE Touching # {}
  <2>1. torn' = TRUE
      BY <1>5 DEF overrides
  <2> HIDE DEF next
  <2>2. OverridesTypeOK'
      BY <1>1, <1>2, <1>3, <2>1 DEF OverridesTypeOK, SwitchStates
  <2>3. SwitchesAKnob'
    BY <1>1, <1>2, <1>3, <1>c, <1>d DEF OverridesInv, SwitchesAKnob
  <2> QED BY <2>1, <2>2, <2>3 DEF OverridesInv
<1> QED BY <1>4, <1>5

(* The next process finds the file as the last switch settled it, unless   *)
(* one was cut.                                                            *)
LEMMA OverridesRestartKeeps ==
    ASSUME OverridesInv, OverridesRestart PROVE OverridesInv'
<1>1. torn \in BOOLEAN /\ switching \in [Threads -> SwitchStates]
    BY DEF OverridesInv, OverridesTypeOK, SwitchStates
<1>2. torn' \in BOOLEAN /\ (~torn' => ~torn /\ Touching = {})
    BY <1>1 DEF OverridesRestart
<1>3. \A t \in Threads : switching'[t] = Resting /\ switching'[t].at = "rest"
    BY DEF OverridesRestart, Resting
<1>4. OverridesTypeOK'
  <2>1. Resting \in SwitchStates
      BY DEF Resting, SwitchStates, SwitchSteps
  <2>2. switching' \in [Threads -> SwitchStates]
      BY <2>1 DEF OverridesRestart
  <2>3. OVERRIDE_PATH' \subseteq TOGGLEABLE /\ settled' \subseteq TOGGLEABLE
      BY DEF OverridesRestart, OverridesInv, OverridesTypeOK
  <2>4. override_cache' = NoCache
      BY DEF OverridesRestart
  <2> QED BY <1>2, <2>2, <2>3, <2>4 DEF OverridesTypeOK, SwitchStates
<1>5. SwitchesAKnob'
    BY <1>3 DEF SwitchesAKnob
<1>6. ASSUME ~torn' PROVE Untorn'
    BY <1>2, <1>3, <1>6 DEF OverridesRestart, OverridesInv, Untorn, SwitchesAreInForce, Touching
<1> QED BY <1>4, <1>5, <1>6 DEF OverridesInv

-----------------------------------------------------------------------------
(* What is owed shrinks with what is visible.                              *)
LEMMA RemembersKeeps ==
    ASSUME CacheInv, NEW newly, NEW beginning, newly \subseteq Facts, Remembers(newly, beginning)
    PROVE  /\ owed' \subseteq Facts /\ promised' \in [Threads -> SUBSET Facts] /\ OwedIsVisible'
           /\ \A t \in Threads : promised'[t] \subseteq (IF t \in beginning THEN owed ELSE promised[t])
<1>1. owed \subseteq Facts /\ promised \in [Threads -> SUBSET Facts]
    BY DEF CacheInv, HistoryTyped
<1>2. owed' = (owed \cup newly) \cap Visible(file')
    BY DEF Remembers
<1>3. promised' = [t \in Threads |->
          (IF t \in beginning THEN owed ELSE promised[t]) \cap Visible(file')]
    BY DEF Remembers
<1>4. owed' \subseteq Facts /\ owed' \subseteq Visible(file')
    BY <1>1, <1>2
<1>5. \A t \in Threads : /\ promised'[t] \subseteq Visible(file')
                          /\ promised'[t] \subseteq (IF t \in beginning THEN owed ELSE promised[t])
    BY <1>3
<1>6. promised' \in [Threads -> SUBSET Facts]
    BY <1>1, <1>3
<1> QED BY <1>4, <1>5, <1>6 DEF OwedIsVisible, Visible

(* Steps that leave the cache alone.                                       *)
LEMMA CacheStays ==
    ASSUME CacheInv, UNCHANGED <<cache, raced>>, Remembers({}, {})
    PROVE  CacheInv'
<1>1. /\ owed' \subseteq Facts /\ promised' \in [Threads -> SUBSET Facts] /\ OwedIsVisible'
      /\ \A t \in Threads : promised'[t] \subseteq promised[t]
    BY RemembersKeeps
<1>2. owed' \subseteq owed
    BY DEF Remembers
<1>3. CacheTypeOK' /\ HistoryTyped'
    BY <1>1 DEF CacheInv, CacheTypeOK, HistoryTyped, cache
<1>4. ASSUME ~raced PROVE SessionServesTheOwed'
    BY <1>1, <1>2, <1>4 DEF CacheInv, SessionServesTheOwed, Served, cache
<1> QED BY <1>1, <1>3, <1>4 DEF CacheInv, cache

TurnStates == [at : TurnSteps, session : (SUBSET Facts) \cup {NoSession},
               read : (SUBSET Facts) \cup {NoSession}]

(* A turn moves on: what it was promised is in the session it goes on      *)
(* with, and a session it installs holds all that is owed.                 *)
LEMMA TurnKeeps ==
    ASSUME CacheInv, NEW t \in Threads, NEW next \in TurnStates, NEW beginning,
           turn' = [turn EXCEPT ![t] = next], beginning \subseteq {t},
           Remembers({}, beginning), raced' = raced,
           UNCHANGED <<corpus_generation, file>>,
           session' \in (SUBSET Facts) \cup {NoSession}, trusted' \in (SUBSET Facts) \cup {NoSession},
           session_generation' \in Int, session_generation' <= corpus_generation,
           ~raced /\ session_generation' = corpus_generation => owed \subseteq session',
           ~raced /\ next.at = "install" => owed \subseteq next.session,
           ~raced /\ next.at \in {"install", "clear", "fill", "accepted", "read"} =>
               (IF t \in beginning THEN owed ELSE promised[t]) \subseteq next.session
    PROVE  CacheInv'
<1>1. /\ owed' \subseteq Facts /\ promised' \in [Threads -> SUBSET Facts] /\ OwedIsVisible'
      /\ \A u \in Threads : promised'[u] \subseteq (IF u \in beginning THEN owed ELSE promised[u])
    BY RemembersKeeps
<1>2. owed' \subseteq owed
    BY DEF Remembers
<1>3. turn \in [Threads -> TurnStates] /\ corpus_generation \in Nat
    BY DEF CacheInv, CacheTypeOK, TurnStates
<1>4. CacheTypeOK'
    BY <1>3 DEF CacheTypeOK, TurnStates
<1>5. HistoryTyped'
    BY <1>1 DEF CacheInv, HistoryTyped
<1>6. ASSUME ~raced PROVE SessionServesTheOwed'
  <2>1. session_generation' = corpus_generation' => owed' \subseteq session'
      BY <1>2, <1>6
  <2>2. ASSUME NEW u \in Threads, turn'[u].at = "install" PROVE owed' \subseteq turn'[u].session
      BY <1>2, <1>3, <1>6, <2>2 DEF CacheInv, SessionServesTheOwed
  <2>3. ASSUME NEW u \in Threads, Served(u)' PROVE promised'[u] \subseteq turn'[u].session
    <3>1. CASE u = t
        BY <1>1, <1>3, <1>6, <2>3, <3>1 DEF Served
    <3>2. CASE u # t
        BY <1>1, <1>3, <1>6, <2>3, <3>2 DEF CacheInv, SessionServesTheOwed, Served
    <3> QED BY <3>1, <3>2
  <2> QED BY <2>1, <2>2, <2>3 DEF SessionServesTheOwed
<1> QED BY <1>1, <1>4, <1>5, <1>6 DEF CacheInv

(* A turn that begins takes a current session, or goes to build one.       *)
LEMMA StartsTurnKeeps ==
    ASSUME CacheInv, NEW t \in Threads, StartsTurn(t)
    PROVE  CacheInv'
<1> DEFINE next == IF Current THEN Accepts(session) ELSE [NoTurn EXCEPT !.at = "load"]
<1>1. session \in (SUBSET Facts) \cup {NoSession} /\ trusted \in (SUBSET Facts) \cup {NoSession}
      /\ session_generation \in Int /\ session_generation <= corpus_generation
    BY DEF CacheInv, CacheTypeOK
<1>2. next \in TurnStates
    BY <1>1 DEF TurnStates, Accepts, NoTurn, TurnSteps
<1>3. turn' = [turn EXCEPT ![t] = next] /\ Remembers({}, {t}) /\ raced' = raced
      /\ UNCHANGED <<session, session_generation, corpus_generation, trusted, file>>
    BY DEF StartsTurn, session_from_environment, TurnGoes, drafts
<1>4. ~raced /\ session_generation = corpus_generation => owed \subseteq session
    BY DEF CacheInv, SessionServesTheOwed
<1>5. next.at # "install"
    BY DEF Accepts, NoTurn
<1>6. ~raced /\ next.at \in {"install", "clear", "fill", "accepted", "read"} => owed \subseteq next.session
    BY <1>4 DEF Accepts, NoTurn, Current
<1> HIDE DEF next
<1> QED BY <1>1, <1>2, <1>3, <1>4, <1>5, <1>6, TurnKeeps

(* Building, installing and reading keep it: a session is built from what  *)
(* is visible now, and what is owed is visible.                            *)
LEMMA ServesKeeps ==
    ASSUME CacheInv, NEW t \in Threads, Serves(t)
    PROVE  CacheInv'
<1>1. /\ session \in (SUBSET Facts) \cup {NoSession} /\ trusted \in (SUBSET Facts) \cup {NoSession}
      /\ session_generation \in Int /\ session_generation <= corpus_generation
      /\ corpus_generation \in Nat
      /\ turn[t] \in TurnStates
    BY DEF CacheInv, CacheTypeOK, TurnStates
<1>2. Remembers({}, {}) /\ raced' = raced /\ UNCHANGED file
    BY DEF Serves, drafts
<1>3. ~raced => /\ session_generation = corpus_generation => owed \subseteq session
                /\ turn[t].at = "install" => owed \subseteq turn[t].session
                /\ Served(t) => promised[t] \subseteq turn[t].session
    BY DEF CacheInv, SessionServesTheOwed
<1>4. CASE LoadsCorpus(t, Visible(file))
  <2> DEFINE next == [turn[t] EXCEPT !.at = "install", !.session = Visible(file)]
  <2>1. next \in TurnStates
      BY <1>1 DEF TurnStates, TurnSteps, Visible
  <2>2. owed \subseteq next.session /\ promised[t] \subseteq next.session
      BY <1>1 DEF CacheInv, OwedIsVisible, TurnStates
  <2>3. turn' = [turn EXCEPT ![t] = next]
        /\ UNCHANGED <<session, session_generation, corpus_generation, trusted>>
      BY <1>4 DEF LoadsCorpus, TurnGoes
  <2> HIDE DEF next
  <2> QED BY <1>1, <1>2, <1>3, <2>1, <2>2, <2>3, TurnKeeps
<1>5. CASE BuildFails(t) \/ TurnEnds(t)
  <2>1. NoTurn \in TurnStates /\ NoTurn.at = "none"
      BY DEF NoTurn, TurnStates, TurnSteps
  <2>2. turn' = [turn EXCEPT ![t] = NoTurn]
        /\ UNCHANGED <<session, session_generation, corpus_generation, trusted>>
      BY <1>5 DEF BuildFails, TurnEnds, TurnGoes
  <2> QED BY <1>1, <1>2, <1>3, <2>1, <2>2, TurnKeeps
<1>6. CASE Installs(t)
  <2> DEFINE next == [turn[t] EXCEPT !.at = "clear"]
  <2>1. next \in TurnStates /\ next.session = turn[t].session /\ next.at = "clear"
      BY <1>1 DEF TurnStates, TurnSteps
  <2>2. turn' = [turn EXCEPT ![t] = next] /\ turn[t].at = "install"
        /\ session' = turn[t].session /\ session_generation' = corpus_generation
        /\ UNCHANGED <<corpus_generation, trusted>>
      BY <1>6 DEF Installs, TurnGoes
  <2>3. session' \in (SUBSET Facts) \cup {NoSession} /\ Served(t)
        /\ session_generation' \in Int /\ session_generation' <= corpus_generation
      BY <1>1, <2>2 DEF TurnStates, Served
  <2> HIDE DEF next
  <2> QED BY <1>1, <1>2, <1>3, <2>1, <2>2, <2>3, TurnKeeps
<1>7. CASE TrustClears(t)
  <2> DEFINE next == [turn[t] EXCEPT !.at = "fill"]
  <2>1. next \in TurnStates /\ next.session = turn[t].session /\ next.at = "fill"
      BY <1>1 DEF TurnStates, TurnSteps
  <2>2. turn' = [turn EXCEPT ![t] = next] /\ Served(t) /\ trusted' = NoSession
        /\ UNCHANGED <<session, session_generation, corpus_generation>>
      BY <1>7 DEF TrustClears, TurnGoes, Served
  <2> HIDE DEF next
  <2> QED BY <1>1, <1>2, <1>3, <2>1, <2>2, TurnKeeps
<1>8. CASE TrustFills(t)
  <2> DEFINE next == Accepts(turn[t].session)
  <2>1. next \in TurnStates /\ next.session = turn[t].session /\ next.at = "accepted"
      BY <1>1 DEF TurnStates, TurnSteps, Accepts, NoTurn
  <2>2. turn' = [turn EXCEPT ![t] = next] /\ Served(t) /\ trusted' = turn[t].session
        /\ UNCHANGED <<session, session_generation, corpus_generation>>
      BY <1>8 DEF TrustFills, TurnGoes, Served
  <2>3. trusted' \in (SUBSET Facts) \cup {NoSession}
      BY <1>1, <2>2 DEF TurnStates
  <2> HIDE DEF next
  <2> QED BY <1>1, <1>2, <1>3, <2>1, <2>2, <2>3, TurnKeeps
<1>9. CASE NodeReads(t)
  <2> DEFINE next == [turn[t] EXCEPT !.at = "read", !.read = trusted]
  <2>1. next \in TurnStates /\ next.session = turn[t].session /\ next.at = "read"
      BY <1>1 DEF TurnStates, TurnSteps
  <2>2. turn' = [turn EXCEPT ![t] = next] /\ Served(t)
        /\ UNCHANGED <<session, session_generation, corpus_generation, trusted>>
      BY <1>9 DEF NodeReads, TurnGoes, Served
  <2> HIDE DEF next
  <2> QED BY <1>1, <1>2, <1>3, <2>1, <2>2, TurnKeeps
<1> QED BY <1>4, <1>5, <1>6, <1>7, <1>8, <1>9 DEF Serves

(* An approval makes every session older than the corpus; one that a turn  *)
(* is still building is what raced records.                                *)
LEMMA DeclaresKeeps ==
    ASSUME CacheInv, NEW t \in Threads, Declares(t), admin[t].fact \in Facts
    PROVE  CacheInv'
<1>1. corpus_generation' = corpus_generation + 1 /\ UNCHANGED <<session, session_generation, trusted, turn>>
      /\ Remembers({admin[t].fact}, {})
    BY DEF Declares, corpus_changed
<1>2. raced' \in BOOLEAN /\ (~raced' => ~raced /\ \A u \in Threads : ~Building(u))
    BY DEF Declares, CacheInv, HistoryTyped
<1>3. /\ owed' \subseteq Facts /\ promised' \in [Threads -> SUBSET Facts] /\ OwedIsVisible'
      /\ \A u \in Threads : promised'[u] \subseteq promised[u]
    BY <1>1, RemembersKeeps
<1>4. CacheTypeOK' /\ session_generation' # corpus_generation'
    BY <1>1 DEF CacheInv, CacheTypeOK
<1>5. HistoryTyped'
    BY <1>2, <1>3 DEF HistoryTyped
<1>6. ASSUME ~raced' PROVE SessionServesTheOwed'
    BY <1>1, <1>2, <1>3, <1>4, <1>6 DEF CacheInv, SessionServesTheOwed, Served, Building
<1> QED BY <1>3, <1>4, <1>5, <1>6 DEF CacheInv

(* The next process has no session, no thread and nothing half done.       *)
LEMMA CrashKeeps ==
    ASSUME ServingInv, Crash
    PROVE  ServingInv'
<1>1. DraftsInv'
  <2>1. ASSUME NEW t \in Threads PROVE Sound(admin'[t], proposed')
      BY FreeIsSound DEF Crash
  <2> QED BY <2>1, FreeIsSound DEF Crash, ServingInv, DraftsInv, DraftsTypeOK, FilesWerePending,
             WasPending, ThreadsHoldWhatWasOnFile
<1>2. OverridesInv'
    BY OverridesRestartKeeps DEF ServingInv, Crash
<1>3. CacheInv'
  <2>1. owed' \subseteq Facts /\ promised' \in [Threads -> SUBSET Facts] /\ OwedIsVisible'
      BY RemembersKeeps DEF ServingInv, Crash
  <2>2. raced' = FALSE /\ session_generation' = -1 /\ corpus_generation' = 0
        /\ session' = NoSession /\ trusted' = NoSession
        /\ turn' = [t \in Threads |-> NoTurn]
      BY DEF Crash, CacheRestarts
  <2>3. NoTurn \in TurnStates /\ NoTurn.at = "none"
      BY DEF NoTurn, TurnStates, TurnSteps
  <2>4. CacheTypeOK'
      BY <2>2, <2>3 DEF CacheTypeOK, TurnStates
  <2>5. SessionServesTheOwed'
      BY <2>2, <2>3 DEF SessionServesTheOwed, Served
  <2> QED BY <2>1, <2>2, <2>4, <2>5 DEF CacheInv, HistoryTyped
<1>4. Bounded'
    BY BoundsAssumption DEF Crash, ServingInv, Bounded
<1> QED BY <1>1, <1>2, <1>3, <1>4 DEF ServingInv

(* A process that starts over files that folds and admins left.            *)
LEMMA InitHolds == Init => ServingInv
<1> SUFFICES ASSUME Init PROVE ServingInv
    OBVIOUS
<1>1. DraftsInv
  <2>0. ASSUME NEW v \in Answers, NEW status \in {"proposed", "certified"}, NEW c \in Seeded \cup {None}
        PROVE  restamp_model_authored(v, status, c) \in Assets
      BY DraftsAssumption DEF restamp_model_authored, Assets
  <2>1. file \in [Facts -> Assets \cup {Absent}]
      BY <2>0 DEF Init, DraftsInit
  <2>2. ASSUME NEW a \in Facts, file[a] # Absent PROVE file[a].answer \in Answers
      BY <2>1, <2>2 DEF Assets
  <2>3. proposed \subseteq Facts \X Answers
      BY <2>2 DEF Init, DraftsInit
  <2>4. FilesWerePending
      BY DEF Init, DraftsInit, FilesWerePending, WasPending
  <2> QED BY <2>1, <2>3, <2>4, FreeIsSound DEF Init, DraftsInit, DraftsInv, DraftsTypeOK,
             ThreadsHoldWhatWasOnFile
<1>2. OverridesInv
  <2>1. Resting \in SwitchStates /\ Resting.at = "rest"
      BY DEF Resting, SwitchStates, SwitchSteps
  <2>2. torn = FALSE /\ switching = [t \in Threads |-> Resting]
        /\ OVERRIDE_PATH \subseteq TOGGLEABLE /\ settled = OVERRIDE_PATH /\ override_cache = NoCache
      BY DEF Init, OverridesInit
  <2> QED BY <2>1, <2>2 DEF OverridesInv, OverridesTypeOK, SwitchStates, SwitchesAKnob,
             Untorn, Touching, SwitchesAreInForce
<1>3. CacheInv
  <2>1. NoTurn \in TurnStates /\ NoTurn.at = "none"
      BY DEF NoTurn, TurnStates, TurnSteps
  <2>2. raced = FALSE /\ owed = {} /\ promised = [t \in Threads |-> {}]
        /\ session = Visible(file) /\ trusted = Visible(file)
        /\ session_generation = 0 /\ corpus_generation = 0 /\ turn = [t \in Threads |-> NoTurn]
      BY DEF Init, CacheInit
  <2>3. Visible(file) \subseteq Facts
      BY DEF Visible
  <2>4. CacheTypeOK
      BY <2>1, <2>2, <2>3 DEF CacheTypeOK, TurnStates
  <2>5. HistoryTyped /\ OwedIsVisible
      BY <2>2 DEF HistoryTyped, OwedIsVisible
  <2>6. SessionServesTheOwed
      BY <2>1, <2>2 DEF SessionServesTheOwed, Served
  <2> QED BY <2>4, <2>5, <2>6 DEF CacheInv
<1>4. Bounded
    BY BoundsAssumption DEF Init, Bounded
<1> QED BY <1>1, <1>2, <1>3, <1>4 DEF ServingInv

-----------------------------------------------------------------------------
(***************************************************************************)
(* The inductive invariant of the serving process: what a thread holds was *)
(* pending on file, one switch at a time carries what is settled, and a    *)
(* current session serves what is owed.                                    *)
(***************************************************************************)
THEOREM ServingInvariance == Spec => []ServingInv
<1>1. Init => ServingInv
    BY InitHolds
<1>2. ServingInv /\ [Next]_vars => ServingInv'
  <2> SUFFICES ASSUME ServingInv, [Next]_vars PROVE ServingInv'
      OBVIOUS
  <2>a. UNCHANGED drafts => DraftsInv'
      BY DEF ServingInv, DraftsInv, DraftsTypeOK, FilesWerePending, ThreadsHoldWhatWasOnFile, drafts
  <2>b. UNCHANGED overrides_vars => OverridesInv'
      BY DEF ServingInv, OverridesInv, OverridesTypeOK, SwitchesAKnob, Untorn, Carries, Settling, Touching,
             SwitchesAreInForce, overrides_vars
  <2>c. UNCHANGED <<cache, owed, promised, raced, file>> => CacheInv'
      BY DEF ServingInv, CacheInv, CacheTypeOK, HistoryTyped, OwedIsVisible, SessionServesTheOwed,
             Served, cache
  <2>d. ASSUME NEW t \in Threads, Starts(t), UNCHANGED crashes PROVE Bounded'
      BY <2>d, BoundsAssumption DEF Starts, ServingInv, Bounded
  <2>e. UNCHANGED <<jobs, crashes>> => Bounded'
      BY DEF ServingInv, Bounded
  <2>1. ASSUME NEW t \in Threads, StartsAdmin(t) PROVE ServingInv'
      BY <2>1, <2>b, <2>d, AdminKeeps, CacheStays DEF StartsAdmin, ServingInv
  <2>2. ASSUME NEW t \in Threads, Administers(t) PROVE ServingInv'
      BY <2>2, <2>b, <2>e, AdminKeeps, CacheStays DEF Administers, ServingInv
  <2>3. ASSUME NEW t \in Threads, Declares(t) PROVE ServingInv'
    <3>1. admin[t].fact \in Facts
        BY <2>3 DEF Declares, ServingInv, DraftsInv, ThreadsHoldWhatWasOnFile, Sound
    <3>2. DraftsInv'
        BY <2>3, AdminKeeps DEF Declares, ServingInv
    <3> QED BY <2>3, <3>1, <3>2, <2>b, <2>e, DeclaresKeeps DEF Declares, ServingInv
  <2>4. ASSUME NEW t \in Threads, StartsTurn(t) PROVE ServingInv'
      BY <2>4, <2>a, <2>b, <2>d, StartsTurnKeeps DEF StartsTurn, ServingInv
  <2>5. ASSUME NEW t \in Threads, Serves(t) PROVE ServingInv'
      BY <2>5, <2>a, <2>b, <2>e, ServesKeeps DEF Serves, ServingInv
  <2>6. ASSUME NEW t \in Threads, StartsSwitch(t) PROVE ServingInv'
      BY <2>6, <2>a, <2>c, <2>d, BeginsKeeps DEF StartsSwitch, ServingInv, drafts
  <2>7. ASSUME NEW t \in Threads, Switches(t) PROVE ServingInv'
      BY <2>7, <2>a, <2>c, <2>e, SwitchKeeps DEF Switches, ServingInv, drafts
  <2>8. CASE Crash
      BY <2>8, CrashKeeps
  <2>9. CASE UNCHANGED vars
      BY <2>9, <2>a, <2>b, <2>c, <2>e DEF vars, drafts, ServingInv
  <2> QED BY <2>1, <2>2, <2>3, <2>4, <2>5, <2>6, <2>7, <2>8, <2>9 DEF Next
<1> QED BY <1>1, <1>2, PTL DEF Spec

(***************************************************************************)
(* Every value of the process's state stays in its type, for any number of *)
(* threads, facts, routes and crashes.                                     *)
(***************************************************************************)
THEOREM ServingTypeCorrect == Spec => []TypeOK
<1>1. ServingInv => TypeOK
    BY DEF ServingInv, DraftsInv, OverridesInv, CacheInv, HistoryTyped, Bounded, TypeOK
<1> QED BY <1>1, ServingInvariance, PTL

(***************************************************************************)
(* However folds, approvals and resolutions interleave and whatever write  *)
(* of theirs fails, no answer is certified that was never pending.         *)
(***************************************************************************)
THEOREM CertifiedWasPending == Spec => []OnlyPendingIsCertified
<1>1. ServingInv => OnlyPendingIsCertified
    BY DEF ServingInv, DraftsInv, FilesWerePending, WasPending, Absent, OnlyPendingIsCertified
<1> QED BY <1>1, ServingInvariance, PTL

(***************************************************************************)
(* A switch whose route returned is in force in the file and in the cache, *)
(* unless two of them overlapped or one was cut.                           *)
(***************************************************************************)
THEOREM SwitchesHold == Spec => []SwitchesAreInForce
<1>1. ServingInv => SwitchesAreInForce
    BY DEF ServingInv, OverridesInv, Untorn, SwitchesAreInForce
<1> QED BY <1>1, ServingInvariance, PTL

(***************************************************************************)
(* A turn that began after an approve route returned is answered over a    *)
(* session that serves the approved fact, unless the approval landed while *)
(* a session was being built.                                              *)
(***************************************************************************)
THEOREM ApprovalsAreServed == Spec => []ApprovalReachesTheNextTurn
<1>1. ServingInv => ApprovalReachesTheNextTurn
    BY DEF ServingInv, CacheInv, SessionServesTheOwed, Served, ApprovalReachesTheNextTurn
<1> QED BY <1>1, ServingInvariance, PTL

-----------------------------------------------------------------------------
(* VectorSpace, for any corpus, any number of rows and any models behind   *)
(* the gateway.                                                            *)

OneSpace == \A j, k \in DOMAIN store : store[j].in = store[k].in

Compared == verified \/ opened = "empty"

(* Until the gateway moves under a process that has compared or made the   *)
(* store, the store holds one space, and from the comparison on it is the  *)
(* gateway's: three probes then speak for every row.                       *)
VectorInv ==
    /\ VectorTypeOK
    /\ \A k \in DOMAIN store : store[k].of = k
    /\ ~up => opened = "no" /\ ~verified /\ step = "idle" /\ index = Nothing
    /\ step \in {"embed", "load"} => Compared
    /\ step # "idle" => opened # "no" /\ entries \in [Indexed -> Texts]
    /\ step \in {"check", "embed"} => {entries[a] : a \in Indexed} \ absent \subseteq DOMAIN store
    /\ step = "load" => {entries[a] : a \in Indexed} \subseteq DOMAIN store
    /\ index # Nothing => Compared
    /\ \A a \in DOMAIN index : index[a].vector.of = index[a].summary
    /\ ~moved => /\ OneSpace
                 /\ Compared => Agree(DOMAIN store)
                 /\ \A a \in DOMAIN index : index[a].vector.in = gateway

(* A non-empty set of rows has a first one.                                *)
LEMMA ProbesAreRows ==
    ASSUME VectorAssumption, NEW S \in SUBSET Texts, S # {}
    PROVE  First(S) \in S
BY DEF VectorAssumption, First

(* Adding rows keeps what the store says of itself.                        *)
LEMMA AddedRows ==
    ASSUME VectorAssumption, VectorTypeOK, NEW T \in SUBSET (Texts \cup {CanaryKey}),
           \A k \in DOMAIN store : store[k].of = k
    PROVE  /\ DOMAIN Added(T) = DOMAIN store \cup T
           /\ \A k \in DOMAIN Added(T) : Added(T)[k] \in Vectors /\ Added(T)[k].of = k
           /\ Agree(DOMAIN store) => \A k \in DOMAIN Added(T) : Added(T)[k].in = gateway
<1>1. \A k \in Texts \cup {CanaryKey} : /\ Embed(k) \in Vectors /\ Embed(k).of = k /\ Embed(k).in = gateway
  BY DEF Embed, Vectors, VectorTypeOK
<1>2. DOMAIN Added(T) = DOMAIN store \cup T
  BY DEF Added
<1>3. \A k \in DOMAIN store \cup T : Added(T)[k] = IF k \in T THEN Embed(k) ELSE store[k]
  BY DEF Added
<1>. QED
  BY <1>1, <1>2, <1>3 DEF VectorTypeOK, Agree

(* The store is one space, and a row of it agrees with the gateway: then   *)
(* all of them do.                                                         *)
LEMMA OneSpeaksForAll ==
    ASSUME VectorAssumption, OneSpace, NEW t \in DOMAIN store, store[t].in = gateway
    PROVE  Agree(DOMAIN store)
BY DEF OneSpace, Agree

LEMMA VectorInitHolds == VectorInit => VectorInv
BY DEF VectorInit, VectorInv, VectorTypeOK, Nothing, Compared, OneSpace, Agree

LEMMA CheckColdKeeps == VectorAssumption /\ VectorInv /\ CheckCold => VectorInv'
<1> SUFFICES ASSUME VectorAssumption, VectorInv, CheckCold PROVE VectorInv'
  OBVIOUS
<1> USE DEF CheckCold
<1>1. CASE step' = "embed"
  BY <1>1 DEF VectorInv, VectorTypeOK, Passes, Refuses, BuildEnds, Compared, OneSpace, Agree, Vectors
<1>2. CASE step' = "idle"
  BY <1>2 DEF VectorInv, VectorTypeOK, Passes, Refuses, BuildEnds, Compared, OneSpace, Agree, Vectors
<1>. QED
  BY <1>1, <1>2 DEF Passes, Refuses, BuildEnds

LEMMA CheckMintKeeps == VectorAssumption /\ VectorInv /\ CheckMint => VectorInv'
<1> SUFFICES ASSUME VectorAssumption, VectorInv, CheckMint PROVE VectorInv'
  OBVIOUS
<1>1. CASE ~Agree(Probes)
  BY <1>1 DEF CheckMint, VectorInv, VectorTypeOK, Refuses, BuildEnds, Compared, OneSpace, Agree, Vectors
<1>2. CASE Agree(Probes)
  <2>1. /\ Passes /\ store' = Added({CanaryKey}) /\ verified' = TRUE
        /\ step = "check" /\ opened = "rows" /\ CanaryKey \notin DOMAIN store
    BY <1>2 DEF CheckMint
  <2>2. ~moved => Agree(DOMAIN store)
    <3>1. CASE DOMAIN store = {}
      BY <3>1 DEF Agree
    <3>2. CASE DOMAIN store # {}
      <4>1. DOMAIN store \ {CanaryKey} = DOMAIN store /\ DOMAIN store \in SUBSET Texts
        BY <2>1 DEF VectorInv, VectorTypeOK
      <4>2. First(DOMAIN store) \in Probes /\ First(DOMAIN store) \in DOMAIN store
        BY <3>2, <4>1, ProbesAreRows DEF Probes
      <4>3. store[First(DOMAIN store)].in = gateway
        BY <1>2, <4>2 DEF Agree
      <4>. QED
        BY <4>2, <4>3, OneSpeaksForAll DEF VectorInv
    <3>. QED
      BY <3>1, <3>2
  <2>3. /\ DOMAIN store' = DOMAIN store \cup {CanaryKey}
        /\ \A k \in DOMAIN store' : store'[k] \in Vectors /\ store'[k].of = k
        /\ ~moved => \A k \in DOMAIN store' : store'[k].in = gateway
    BY <2>1, <2>2, AddedRows DEF VectorInv
  <2>4. up /\ up' = up
    BY <2>1 DEF Passes, VectorInv
  <2>5. VectorTypeOK'
    BY <2>1, <2>3 DEF Passes, VectorInv, VectorTypeOK
  <2>6. (~moved => OneSpace /\ (Compared => Agree(DOMAIN store))
                   /\ \A a \in DOMAIN index : index[a].vector.in = gateway)'
    BY <2>1, <2>3 DEF Passes, VectorInv, OneSpace, Agree
  <2>7. ({entries[a] : a \in Indexed} \ absent \subseteq DOMAIN store)'
    BY <2>1, <2>3 DEF Passes, VectorInv
  <2>8. (step # "idle" => opened # "no" /\ entries \in [Indexed -> Texts])'
    BY <2>1 DEF Passes, VectorInv
  <2>9. index' = index /\ moved' = moved /\ step' = "embed" /\ verified'
    BY <2>1 DEF Passes
  <2>10. Compared'
    BY <2>9 DEF Compared
  <2>11. \A a \in DOMAIN index : index[a].vector.of = index[a].summary
    BY DEF VectorInv
  <2>. QED
    BY <2>3, <2>4, <2>5, <2>6, <2>7, <2>8, <2>9, <2>10, <2>11 DEF VectorInv
<1>. QED
  BY <1>1, <1>2

LEMMA CheckCanaryKeeps == VectorAssumption /\ VectorInv /\ CheckCanary => VectorInv'
<1> SUFFICES ASSUME VectorAssumption, VectorInv, CheckCanary PROVE VectorInv'
  OBVIOUS
<1>1. CASE ~Agree({CanaryKey})
  BY <1>1 DEF CheckCanary, VectorInv, VectorTypeOK, Refuses, BuildEnds, Compared, OneSpace, Agree, Vectors
<1>2. CASE Agree({CanaryKey})
  <2>1. ~moved => Agree(DOMAIN store)
    BY <1>2, OneSpeaksForAll DEF CheckCanary, VectorInv, Agree
  <2>2. up /\ up' = up
    BY <1>2 DEF CheckCanary, Passes, VectorInv
  <2>3. VectorTypeOK'
    BY <1>2 DEF CheckCanary, Passes, VectorInv, VectorTypeOK
  <2>4. (~moved => OneSpace /\ (Compared => Agree(DOMAIN store))
                   /\ \A a \in DOMAIN index : index[a].vector.in = gateway)'
    BY <1>2, <2>1 DEF CheckCanary, Passes, VectorInv, OneSpace, Agree
  <2>. QED
    BY <1>2, <2>2, <2>3, <2>4 DEF CheckCanary, Passes, VectorInv, Compared
<1>. QED
  BY <1>1, <1>2

LEMMA EmbedMissesKeeps == VectorAssumption /\ VectorInv /\ EmbedMisses => VectorInv'
<1> SUFFICES ASSUME VectorAssumption, VectorInv, EmbedMisses PROVE VectorInv'
  OBVIOUS
<1>1. absent \in SUBSET (Texts \cup {CanaryKey})
  BY DEF VectorInv, VectorTypeOK
<1>2. /\ DOMAIN store' = DOMAIN store \cup absent
      /\ \A k \in DOMAIN store' : store'[k] \in Vectors /\ store'[k].of = k
      /\ Agree(DOMAIN store) => \A k \in DOMAIN store' : store'[k].in = gateway
  BY <1>1, AddedRows DEF VectorInv, EmbedMisses
<1>3. \A a \in Indexed : entries[a] \in DOMAIN store'
  BY <1>2 DEF VectorInv, EmbedMisses
<1>. QED
  BY <1>2, <1>3 DEF EmbedMisses, VectorInv, VectorTypeOK, Compared, OneSpace, Agree

LEMMA LoadKeeps == VectorAssumption /\ VectorInv /\ Load => VectorInv'
<1> SUFFICES ASSUME VectorAssumption, VectorInv, Load PROVE VectorInv'
  OBVIOUS
<1>1. /\ DOMAIN index' = Indexed
      /\ \A a \in Indexed : /\ index'[a].summary = entries[a] /\ index'[a].vector = store[entries[a]]
                           /\ index'[a] \in [summary : Texts, vector : Vectors]
                           /\ entries[a] \in DOMAIN store
  BY DEF Load, VectorInv, VectorTypeOK
<1>2. index' \in [Indexed -> [summary : Texts, vector : Vectors]]
  BY <1>1 DEF Load
<1>3. Compared
  BY DEF Load, VectorInv
<1>. QED
  BY <1>1, <1>2, <1>3 DEF Load, BuildEnds, VectorInv, VectorTypeOK, Compared, OneSpace, Agree

LEMMA OthersKeep ==
    VectorAssumption /\ VectorInv /\ (Repoint \/ Curate \/ Start \/ Stop \/ DeleteStore \/ build_index
                                 \/ CheckMemo \/ EmbedRaises \/ UNCHANGED vectorVars) => VectorInv'
<1> SUFFICES ASSUME VectorAssumption, VectorInv,
                    Repoint \/ Curate \/ Start \/ Stop \/ DeleteStore \/ build_index
                    \/ CheckMemo \/ EmbedRaises \/ UNCHANGED vectorVars
             PROVE  VectorInv'
  OBVIOUS
<1>1. CASE Repoint
  <2>1. gateway' \in Spaces /\ UNCHANGED <<corpus, store, up, opened, verified, step, entries, absent, index>>
    BY <1>1 DEF Repoint, process
  <2>2. moved' \in BOOLEAN /\ (~moved' => ~moved /\ ~Compared)
    BY <1>1 DEF Repoint, Compared, VectorInv, VectorTypeOK
  <2>3. VectorTypeOK'
    BY <2>1, <2>2 DEF VectorInv, VectorTypeOK
  <2>4. ~moved' => DOMAIN index = {}
    BY <2>2 DEF VectorInv, Nothing
  <2>. QED
    BY <2>1, <2>2, <2>3, <2>4 DEF VectorInv, Compared, OneSpace
<1> USE DEF VectorInv, VectorTypeOK, Compared, OneSpace, Agree
<1>2. CASE Curate
  BY <1>2 DEF Curate, process
<1>3. CASE Start
  <2>1. UNCHANGED <<gateway, corpus, store, moved, opened, verified, step, entries, absent, index>>
    BY <1>3 DEF Start
  <2>. QED
    BY <1>3, <2>1, SMTT(30) DEF Start
<1>4. CASE Stop
  BY <1>4 DEF Stop, Fresh, Nothing
<1>5. CASE DeleteStore
  BY <1>5 DEF DeleteStore, process, Nothing
<1>6. CASE build_index
  BY <1>6 DEF build_index
<1>7. CASE CheckMemo
  BY <1>7 DEF CheckMemo, Passes
<1>8. CASE EmbedRaises
  BY <1>8 DEF EmbedRaises, BuildEnds
<1>9. CASE UNCHANGED vectorVars
  BY <1>9 DEF vectorVars, process
<1>. QED
  BY <1>1, <1>2, <1>3, <1>4, <1>5, <1>6, <1>7, <1>8, <1>9

(* The strengthened invariant holds of every state the cache can reach.    *)
THEOREM VectorInvariance == VectorSpec => []VectorInv
<1>1. VectorAssumption /\ VectorInv /\ [VectorNext]_vectorVars => VectorInv'
  BY CheckColdKeeps, CheckMintKeeps, CheckCanaryKeeps, EmbedMissesKeeps, LoadKeeps, OthersKeep
     DEF VectorNext, Build
<1>. QED
  BY <1>1, VectorAssumption, VectorInitHolds, PTL DEF VectorSpec

(* build_index: whatever was rewritten, failed or restarted, an index      *)
(* embeds the summaries it was built from in the space the questions are   *)
(* embedded in, unless the gateway moved under a process past its check.   *)
THEOREM ServedInOneSpace == VectorSpec => []IndexIsInTheEmbeddersSpace
<1>1. VectorInv => IndexIsInTheEmbeddersSpace
  BY DEF VectorInv, IndexIsInTheEmbeddersSpace
<1>. QED
  BY <1>1, VectorInvariance, PTL

-----------------------------------------------------------------------------
(* Backends, for any bounds.                                               *)

Errors == ConnectionErrors \cup StatementErrors

CallTyped ==
    call \in [Threads -> [at : {"idle", "dialling", "executing", "failed"} \cup Verdicts,
                          handle : Nat, error : {"none"} \cup Errors]]

\* Handles are numbered in the order they are dialled, and nothing is said of one before.
HandlesAreOpened ==
    /\ dialled \in Nat /\ _conn \in 0 .. dialled
    /\ dead \subseteq 1 .. dialled /\ reported \subseteq 0 .. dialled
    /\ \A t \in Threads : call[t].handle \in 0 .. dialled

FailuresHaveACause == \A t \in Threads : At(t, "failed") => call[t].error \in Errors

CacheIsUnreported == _conn = 0 \/ _conn \notin reported

ConnectorInv ==
    /\ CallTyped /\ HandlesAreOpened /\ FailuresHaveACause
    /\ CacheIsUnreported /\ BlipIsNotAQueryError

RequestTyped ==
    request \in [Threads -> [at : {"none", "waiting", "holding", "refused", "forcing"},
                             token : Nat, first : Nat]]

TokensAreMinted ==
    /\ _token \in Nat /\ fresh \in BOOLEAN /\ refused \in Nat
    /\ minted \in Nat /\ expiries \in Nat
    /\ \A t \in Threads : request[t].token <= _token /\ request[t].first <= _token

\* A request that carries no refused token is on its first attempt.
AttemptsAreOrdered ==
    \A t \in Threads : In(t, "waiting") => request[t].first = 0

\* Every mint but a forced one spends an expiry, or the first one.
MintsSpendExpiries ==
    /\ minted <= 1 + expiries
    /\ ~fresh => minted <= expiries

TokenInv ==
    /\ RequestTyped /\ TokensAreMinted /\ AttemptsAreOrdered
    /\ MintsSpendExpiries /\ RetryCarriesANewerToken

-----------------------------------------------------------------------------
(* The initial state: nothing is open and nothing was minted. *)
LEMMA BackendsInitHolds == BackendsInit => ConnectorInv /\ TokenInv
<1> SUFFICES ASSUME BackendsInit PROVE ConnectorInv /\ TokenInv
    OBVIOUS
<1>1. ConnectorInv
    BY DEF BackendsInit, ConnectorInit, NoCall, ConnectorInv, CallTyped, HandlesAreOpened,
           FailuresHaveACause, CacheIsUnreported, BlipIsNotAQueryError, At
<1>2. RequestTyped /\ AttemptsAreOrdered /\ RetryCarriesANewerToken
    BY DEF BackendsInit, TokenInit, NoRequest, RequestTyped, AttemptsAreOrdered,
           RetryCarriesANewerToken, In
<1>3. fresh \in BOOLEAN
    BY DEF BackendsInit, TokenInit
<1>4. TokensAreMinted /\ MintsSpendExpiries
    BY <1>3 DEF BackendsInit, TokenInit, NoRequest, TokensAreMinted, MintsSpendExpiries
<1> QED BY <1>1, <1>2, <1>4 DEF TokenInv

-----------------------------------------------------------------------------
(* A statement that ends in its rows or in an exception leaves the handles alone. *)
LEMMA MovingKeeps ==
    ASSUME ConnectorInv, UNCHANGED <<_conn, dialled, dead, reported>>, NEW t \in Threads,
           \/ \E error \in Errors : Moves(t, "failed", call[t].handle, error)
           \/ Moves(t, "idle", 0, "none")
    PROVE  ConnectorInv'
<1>1. CASE \E error \in Errors : Moves(t, "failed", call[t].handle, error)
  <2>1. PICK error \in Errors : Moves(t, "failed", call[t].handle, error)
      BY <1>1
  <2> QED
      BY <2>1 DEF ConnectorInv, CallTyped, HandlesAreOpened, FailuresHaveACause,
                  CacheIsUnreported, BlipIsNotAQueryError, At, Moves, Errors,
                  ConnectionErrors, StatementErrors, Verdicts
<1>2. CASE Moves(t, "idle", 0, "none")
    BY <1>2 DEF ConnectorInv, CallTyped, HandlesAreOpened, FailuresHaveACause,
                CacheIsUnreported, BlipIsNotAQueryError, At, Moves, Errors,
                ConnectionErrors, StatementErrors, Verdicts
<1> QED BY <1>1, <1>2

(* So does the statement that runs, whatever became of its handle. *)
LEMMA ExecutesKeeps ==
    ASSUME ConnectorInv, NEW t \in Threads, Executes(t)
    PROVE  ConnectorInv'
<1>1. \/ \E error \in Errors : Moves(t, "failed", call[t].handle, error)
      \/ Moves(t, "idle", 0, "none")
    BY DEF Executes, Errors
<1> QED BY <1>1, MovingKeeps DEF Executes

(* One step of a statement's execute() keeps what is true of the handles,  *)
(* whatever the other threads are doing with the same cache.               *)
LEMMA ConnectorStepKeeps ==
    ASSUME ConnectorInv, NEW t \in Threads, ConnectorStep(t)
    PROVE  ConnectorInv'
<1>1. CASE Connects(t)
    BY <1>1 DEF Connects, ConnectorInv, CallTyped, HandlesAreOpened, FailuresHaveACause,
                CacheIsUnreported, BlipIsNotAQueryError, At, Moves, Errors,
                ConnectionErrors, StatementErrors, Verdicts
<1>2. CASE Dials(t)
  <2>1. CASE dialled' = dialled + 1 /\ _conn' = dialled + 1
              /\ Moves(t, "executing", dialled + 1, "none") /\ UNCHANGED <<dead, reported>>
    BY <2>1 DEF ConnectorInv, CallTyped, HandlesAreOpened, FailuresHaveACause,
                CacheIsUnreported, BlipIsNotAQueryError, At, Moves, Errors,
                ConnectionErrors, StatementErrors, Verdicts
  <2>2. CASE _discard /\ Moves(t, "ConnectionError", 0, "class08")
              /\ UNCHANGED <<dialled, reported>>
    BY <2>2 DEF _discard, ConnectorInv, CallTyped, HandlesAreOpened, FailuresHaveACause,
                CacheIsUnreported, BlipIsNotAQueryError, At, Moves, Errors,
                ConnectionErrors, StatementErrors, Verdicts
  <2> QED BY <1>2, <2>1, <2>2 DEF Dials
<1>3. CASE Executes(t)
    BY <1>3, ExecutesKeeps
<1>4. CASE _raise_classified(t)
  <2>1. CASE /\ call[t].error = "class42"
             /\ Moves(t, "QueryError", call[t].handle, call[t].error)
             /\ UNCHANGED <<_conn, dead, reported, dialled>>
    BY <2>1 DEF ConnectorInv, CallTyped, HandlesAreOpened, FailuresHaveACause,
                CacheIsUnreported, BlipIsNotAQueryError, At, Moves, Errors,
                ConnectionErrors, StatementErrors, Verdicts
  <2>2. CASE /\ At(t, "failed") /\ _discard
             /\ reported' = reported \cup {call[t].handle}
             /\ Moves(t, "ConnectionError", call[t].handle, call[t].error)
             /\ UNCHANGED dialled
    <3>1. CallTyped' /\ FailuresHaveACause' /\ BlipIsNotAQueryError'
      BY <2>2 DEF ConnectorInv, CallTyped, FailuresHaveACause, BlipIsNotAQueryError,
                  HandlesAreOpened, At, Moves, Errors, ConnectionErrors, StatementErrors, Verdicts
    <3>2. HandlesAreOpened' /\ CacheIsUnreported'
      <4>1. dead' \subseteq 1 .. dialled
        BY <2>2 DEF ConnectorInv, HandlesAreOpened, _discard
      <4>2. reported' \subseteq 0 .. dialled
        BY <2>2 DEF ConnectorInv, HandlesAreOpened
      <4>3. \A s \in Threads : call'[s].handle \in 0 .. dialled
        BY <2>2 DEF ConnectorInv, CallTyped, HandlesAreOpened, Moves
      <4> QED
        BY <2>2, <4>1, <4>2, <4>3 DEF ConnectorInv, HandlesAreOpened, CacheIsUnreported, _discard
    <3> QED BY <3>1, <3>2 DEF ConnectorInv
  <2>3. CASE /\ At(t, "failed") /\ call[t].error \notin {"class42", "class08"}
             /\ ~_connection_is_unusable(call[t].error)
             /\ Moves(t, "QueryError", call[t].handle, call[t].error)
             /\ UNCHANGED <<_conn, dead, reported, dialled>>
    BY <2>3 DEF _connection_is_unusable, ConnectorInv, CallTyped, HandlesAreOpened, FailuresHaveACause,
                CacheIsUnreported, BlipIsNotAQueryError, At, Moves, Errors,
                ConnectionErrors, StatementErrors, Verdicts
  <2> QED BY <1>4, <2>1, <2>2, <2>3 DEF _raise_classified
<1>5. CASE Returns(t)
    BY <1>5 DEF Returns, NoCall, ConnectorInv, CallTyped, HandlesAreOpened, FailuresHaveACause,
                CacheIsUnreported, BlipIsNotAQueryError, At, Moves, Errors,
                ConnectionErrors, StatementErrors, Verdicts
<1> QED BY <1>1, <1>2, <1>3, <1>4, <1>5 DEF ConnectorStep

(* A restart of the server kills handles and changes nothing else. *)
LEMMA BlipKeeps == ConnectorInv /\ Blip => ConnectorInv'
BY DEF ConnectorInv, CallTyped, HandlesAreOpened, FailuresHaveACause,
       CacheIsUnreported, BlipIsNotAQueryError, At, Blip

-----------------------------------------------------------------------------
(* One step of a model call keeps what is true of the tokens, whoever      *)
(* holds the lock.                                                         *)
LEMMA TokenStepKeeps ==
    ASSUME TokenInv, NEW t \in Threads, TokenStep(t)
    PROVE  TokenInv'
<1> USE DEF TokenInv, RequestTyped, TokensAreMinted, AttemptsAreOrdered,
            MintsSpendExpiries, RetryCarriesANewerToken, In, NoRequest
<1>1. CASE Asks(t)
    BY <1>1 DEF Asks
<1>2. CASE AsksAgain(t)
    BY <1>2 DEF AsksAgain, Becomes
<1>3. CASE Locks(t)
    BY <1>3 DEF Locks
<1>4. CASE Mints(t)
    BY <1>4 DEF Mints, StillFresh, Becomes
<1>5. CASE Sends(t)
    BY <1>5 DEF Sends
<1> QED BY <1>1, <1>2, <1>3, <1>4, <1>5 DEF TokenStep

(* Neither does the clock, nor a proxy that drops what it issued. *)
LEMMA ClockKeeps ==
    ASSUME TokenInv, Expires \/ Revokes
    PROVE  TokenInv'
<1>1. UNCHANGED <<_token, request, minted>> /\ refused' \in Nat
    BY DEF Expires, Revokes, TokenInv, TokensAreMinted
<1>2. fresh' \in BOOLEAN
    BY DEF Expires, Revokes, TokenInv, TokensAreMinted
<1>3. expiries' \in Nat /\ MintsSpendExpiries'
  <2>1. CASE Expires
      BY <2>1, <1>1 DEF Expires, TokenInv, TokensAreMinted, MintsSpendExpiries
  <2>2. CASE Revokes
      BY <2>2, <1>1 DEF Revokes, TokenInv, TokensAreMinted, MintsSpendExpiries
  <2> QED BY <2>1, <2>2
<1> QED BY <1>1, <1>2, <1>3 DEF TokenInv, RequestTyped, TokensAreMinted,
           AttemptsAreOrdered, RetryCarriesANewerToken, In

-----------------------------------------------------------------------------
(***************************************************************************)
(* The inductive invariant of the two clients: handles and tokens are      *)
(* numbered as they are made, a failure has a cause, the cache holds       *)
(* nothing a ConnectionError was raised about, and every unforced mint     *)
(* spends an expiry.                                                       *)
(***************************************************************************)
THEOREM BackendsInvariance == BackendsSpec => [](ConnectorInv /\ TokenInv)
<1>1. BackendsInit => ConnectorInv /\ TokenInv
    BY BackendsInitHolds
<1>2. ConnectorInv /\ TokenInv /\ [BackendsNext]_backendVars => (ConnectorInv /\ TokenInv)'
  <2> SUFFICES ASSUME ConnectorInv, TokenInv, [BackendsNext]_backendVars
               PROVE  (ConnectorInv /\ TokenInv)'
      OBVIOUS
  <2>0. UNCHANGED connectorVars => ConnectorInv'
      BY DEF connectorVars, ConnectorInv, CallTyped, HandlesAreOpened, FailuresHaveACause,
             CacheIsUnreported, BlipIsNotAQueryError, At
  <2>9. UNCHANGED tokenVars => TokenInv'
      BY DEF tokenVars, TokenInv, RequestTyped, TokensAreMinted, AttemptsAreOrdered,
             MintsSpendExpiries, RetryCarriesANewerToken, In
  <2>1. ASSUME NEW t \in Threads, Statement(t) PROVE (ConnectorInv /\ TokenInv)'
      BY <2>1, <2>9, ConnectorStepKeeps DEF Statement
  <2>2. ASSUME NEW t \in Threads, ModelCall(t) PROVE (ConnectorInv /\ TokenInv)'
      BY <2>2, <2>0, TokenStepKeeps DEF ModelCall
  <2>3. CASE World
      BY <2>3, <2>0, <2>9, BlipKeeps, ClockKeeps DEF World
  <2>4. CASE UNCHANGED backendVars
      BY <2>4, <2>0, <2>9 DEF backendVars
  <2> QED BY <2>1, <2>2, <2>3, <2>4 DEF BackendsNext
<1> QED BY <1>1, <1>2, PTL DEF BackendsSpec

(***************************************************************************)
(* However threads share the cached connection, a failure of the           *)
(* connection is never reported as the statement's.                        *)
(***************************************************************************)
THEOREM BlipsAreClassified == BackendsSpec => []BlipIsNotAQueryError
<1>1. ConnectorInv /\ TokenInv => BlipIsNotAQueryError
    BY DEF ConnectorInv
<1> QED BY <1>1, BackendsInvariance, PTL

(***************************************************************************)
(* After a ConnectionError the cache never again holds a dead handle the   *)
(* error was about: the next call reconnects.                              *)
(***************************************************************************)
THEOREM NextCallReconnects == BackendsSpec => []ReportedHandleIsGone
<1>1. ConnectorInv /\ TokenInv => ReportedHandleIsGone
    BY DEF ConnectorInv, HandlesAreOpened, CacheIsUnreported, ReportedHandleIsGone
<1> QED BY <1>1, BackendsInvariance, PTL

(***************************************************************************)
(* A request that was refused goes out again with a token minted after the *)
(* refused one, however many threads refresh around it.                    *)
(***************************************************************************)
THEOREM RetriesAreNewer == BackendsSpec => []RetryCarriesANewerToken
<1>1. ConnectorInv /\ TokenInv => RetryCarriesANewerToken
    BY DEF TokenInv
<1> QED BY <1>1, BackendsInvariance, PTL

(***************************************************************************)
(* Threads that find the same expired token mint once between them.        *)
(***************************************************************************)
THEOREM ExpiryMintsOnce == BackendsSpec => []OneMintPerExpiry
<1>1. ConnectorInv /\ TokenInv => OneMintPerExpiry
    BY DEF TokenInv, TokensAreMinted, MintsSpendExpiries, OneMintPerExpiry
<1> QED BY <1>1, BackendsInvariance, PTL
=============================================================================
