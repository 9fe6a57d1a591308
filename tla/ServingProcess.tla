--------------------------- MODULE ServingProcess ---------------------------
(***************************************************************************)
(* One serving process: worker threads that fold drafts, approve them,     *)
(* settle conflicts, flip switches and run turns, over the corpus files    *)
(* (CorpusDrafts), the cached session and trusted constants (SessionCache) *)
(* and the runtime overrides (RuntimeOverrides).  The process may end at   *)
(* any point and start again over the files.                               *)
(***************************************************************************)
EXTENDS CorpusDrafts, SessionCache, RuntimeOverrides

CONSTANTS MaxJobs,    \* bound: routes and turns started
          MaxCrashes  \* bound: ends of the process

ASSUME BoundsAssumption == MaxJobs \in Nat /\ MaxCrashes \in Nat

VARIABLES
    jobs, crashes,
    owed,      \* history: visible facts whose approve route has returned
    promised,  \* history: what was owed when each thread's turn began
    raced      \* history: an approval landed while a session was being built

vars == <<drafts, cache, overrides_vars, jobs, crashes, owed, promised, raced>>
-----------------------------------------------------------------------------
Idle(t) == admin[t] = Free /\ turn[t] = NoTurn /\ switching[t] = Resting

Starts(t) == Idle(t) /\ jobs < MaxJobs /\ jobs' = jobs + 1

(* What was owed and is withheld again is owed no longer.                  *)
Remembers(newly, beginning) ==
    /\ owed' = (owed \cup newly) \cap Visible(file')
    /\ promised' = [t \in Threads |-> (IF t \in beginning THEN owed ELSE promised[t]) \cap Visible(file')]

Init ==
    /\ DraftsInit /\ CacheInit(Visible(file)) /\ OverridesInit
    /\ jobs = 0 /\ crashes = 0
    /\ owed = {} /\ promised = [t \in Threads |-> {}] /\ raced = FALSE

StartsAdmin(t) ==
    /\ Starts(t)
    /\ \E a \in Facts : \/ FoldReads(t, a)
                        \/ ApproveReads(t, a)
                        \/ \E r \in {"keep_existing", "replace"} : ResolveReads(t, a, r)
    /\ UNCHANGED <<cache, overrides_vars, crashes, raced>>
    /\ Remembers({}, {})

Administers(t) ==
    /\ \/ FoldSkips(t) \/ FoldSubmits(t) \/ ApproveWrites(t)
       \/ ResolveKeeps(t) \/ ResolveApproves(t) \/ ResolveReplaces(t)
       \/ SupersedeReads(t) \/ SupersedeExcludes(t) \/ WriteFails(t)
    /\ UNCHANGED <<cache, overrides_vars, jobs, crashes, raced>>
    /\ Remembers({}, {})

Declares_nothing(t) ==
    /\ admin[t].at = "declare" /\ Ends(t)
    /\ raced' = (raced \/ \E u \in Threads : Building(u))
    /\ UNCHANGED <<cache, file, proposed, overrides_vars, jobs, crashes>>
    /\ Remembers({admin[t].fact}, {})

(* approve_draft_route declares the corpus moved once the file is written. *)
Declares(t) ==
    /\ admin[t].at = "declare" /\ Ends(t)
    /\ corpus_changed
    /\ raced' = (raced \/ \E u \in Threads : Building(u))
    /\ UNCHANGED <<file, proposed, overrides_vars, jobs, crashes>>
    /\ Remembers({admin[t].fact}, {})

StartsTurn(t) ==
    /\ Starts(t)
    /\ session_from_environment(t)
    /\ UNCHANGED <<drafts, overrides_vars, crashes, raced>>
    /\ Remembers({}, {t})

Serves(t) ==
    /\ \/ LoadsCorpus(t, Visible(file)) \/ BuildFails(t) \/ Installs(t)
       \/ TrustClears(t) \/ TrustFills(t) \/ NodeReads(t) \/ TurnEnds(t)
    /\ UNCHANGED <<drafts, overrides_vars, jobs, crashes, raced>>
    /\ Remembers({}, {})

StartsSwitch(t) ==
    /\ Starts(t)
    /\ \E knob \in TOGGLEABLE \cup {NoCache} : overrides(t, knob)
    /\ UNCHANGED <<drafts, cache, crashes, owed, promised, raced>>

Switches(t) ==
    /\ \/ LoadsOverrides(t) \/ CachesOverrides(t) \/ CopiesOverrides(t)
       \/ OpensOverrides(t) \/ FillsOverrides(t) \/ KeepsOverrides(t)
    /\ UNCHANGED <<drafts, cache, jobs, crashes, owed, promised, raced>>

(* The process ends; the next one reads corpus and switches from disk.     *)
Crash ==
    /\ crashes < MaxCrashes /\ crashes' = crashes + 1
    /\ admin' = [t \in Threads |-> Free] /\ UNCHANGED <<file, proposed>>
    /\ CacheRestarts /\ OverridesRestart
    /\ UNCHANGED jobs
    /\ raced' = FALSE
    /\ Remembers({}, {})

Next ==
    \/ \E t \in Threads : \/ StartsAdmin(t) \/ Administers(t) \/ Declares(t)
                          \/ StartsTurn(t) \/ Serves(t)
                          \/ StartsSwitch(t) \/ Switches(t)
    \/ Crash

Spec == Init /\ [][Next]_vars
-----------------------------------------------------------------------------
TypeOK ==
    /\ DraftsTypeOK /\ CacheTypeOK /\ OverridesTypeOK
    /\ jobs \in 0..MaxJobs /\ crashes \in 0..MaxCrashes
    /\ owed \subseteq Facts /\ promised \in [Threads -> SUBSET Facts] /\ raced \in BOOLEAN

(* "The reader's next question is served over the corpus this approval     *)
(* produced, with no restart": a turn that began after an approve route    *)
(* returned is given a session that serves the approved fact, unless the   *)
(* approval landed while another turn was rebuilding the session.          *)
ApprovalReachesTheNextTurn ==
    ~raced => \A t \in Threads :
        turn[t].at \in {"accepted", "read"} => promised[t] \subseteq turn[t].session

(* _install: "the two halves must never name different corpora" -- the     *)
(* session a turn's digest was stamped from, and the trusted constants its *)
(* retrieval nodes read.                                                   *)
AnswersOverTheCorpusItRecords ==
    \A t \in Threads : turn[t].at = "read" => turn[t].read = turn[t].session
=============================================================================
