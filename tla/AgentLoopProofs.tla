-------------------------- MODULE AgentLoopProofs --------------------------
(***************************************************************************)
(* What AgentLoop guarantees for every cap, every number of calls, every   *)
(* set of identities and every recursion limit.                            *)
(***************************************************************************)
EXTENDS AgentLoop, SequenceTheorems, FiniteSetTheorems, TLAPS

(* An AI message extends the conversation's calls by its own.              *)
LEMMA Proposals ==
    ASSUME tool \in Seq(Tools), NEW n \in Nat, NEW calls \in [1 .. n -> Tools]
    PROVE  /\ tool \o calls \in Seq(Tools)
           /\ Len(tool \o calls) = Len(tool) + n
           /\ DOMAIN (tool \o calls) = 1 .. (Len(tool) + n)
           /\ \A c \in DOMAIN tool : (tool \o calls)[c] = tool[c]
<1>1. calls \in Seq(Tools) /\ Len(calls) = n
  <2>1. calls \in Seq(Tools)
    BY SeqDef
  <2>2. Len(calls) \in Nat /\ DOMAIN calls = 1 .. Len(calls)
    BY <2>1, LenProperties
  <2>3. QED
    BY <2>1, <2>2
<1>2. tool \o calls \in Seq(Tools) /\ Len(tool \o calls) = Len(tool) + n
  BY <1>1, ConcatProperties
<1>3. QED
  BY <1>1, <1>2, ConcatProperties, LenProperties

USE DEF loopVars, msgVars, writes, channels, nodeVars, world

(* Every variable keeps its type.                                          *)
LEMMA TypeStep == TypeOK /\ [Next]_vars => TypeOK'
<1> SUFFICES ASSUME TypeOK, [Next]_vars PROVE TypeOK'
  OBVIOUS
<1> USE CapAssumption, RecursionAssumption, BoundAssumption, CallerAssumption
<1>1. CASE CallModel
  BY <1>1 DEF CallModel, TypeOK
<1>2. CASE ModelReplies
  <2>1. PICK n \in 0 .. MaxParallel :
          /\ Len(tool) + n <= MaxCalls
          /\ \E calls \in [1 .. n -> Tools] : tool' = tool \o calls
    BY <1>2 DEF ModelReplies
  <2>2. tool' \in Seq(Tools) /\ Len(tool') <= MaxCalls
    BY <2>1, Proposals DEF TypeOK
  <2>3. QED
    BY <1>2, <2>2 DEF ModelReplies, TypeOK
<1>3. CASE ModelRaises
  BY <1>3 DEF ModelRaises, Die, TypeOK
<1>4. CASE AfterModel
  <2>1. DOMAIN tool = 1 .. Len(tool) /\ DOMAIN tool \subseteq CallIds
    BY LenProperties DEF TypeOK, CallIds
  <2>2. {cap_attempt} \in SUBSET Rows /\ CAP_LEDGER_KEY \in Keys
    BY DEF cap_attempt, Row, Rows, Paths, Reasons, Keys
  <2>3. PICK allowed \in SUBSET {c \in Pending : tool[c] = "run_query"} :
          /\ counted' = counted \cup allowed
          /\ blocked' \subseteq blocked \cup Pending
          /\ pc' \in {"done", "dispatch"}
          /\ replied' \subseteq replied \cup Pending
          /\ ledger' = ledger \/ ledger' = [ledger EXCEPT ![CAP_LEDGER_KEY] = {cap_attempt}]
    BY <1>4 DEF AfterModel
  <2>4. ledger' \in [Keys -> SUBSET Rows]
    BY <2>2, <2>3 DEF TypeOK
  <2>5. Pending \subseteq CallIds
    BY <2>1 DEF Pending
  <2>6. steps' = steps + 1 /\ UNCHANGED <<late, pauses, failure, tool, task, writes,
                                          clarified, result_table, nodeVars, world>>
    BY <1>4 DEF AfterModel
  <2>7. QED
    BY <2>3, <2>4, <2>5, <2>6 DEF TypeOK
<1>5. CASE Dispatch
  BY <1>5 DEF Dispatch, TypeOK
<1>6. ASSUME NEW c \in CallIds, TaskStep(c) PROVE TypeOK'
  <2> USE DEF Runs, To, FinishesWith
  <2>1. PathOf(c) \in Paths /\ \A p \in Paths, r \in Reasons : Row(p, r) \in Rows
    BY DEF PathOf, Paths, Row, Rows
  <2>2. CASE NoEffect(c)
    BY <2>2 DEF NoEffect, TypeOK
  <2>3. CASE RunQueryStarts(c)
    <3>1. {cap_attempt} \in SUBSET Rows
      BY DEF cap_attempt, Row, Rows, Paths, Reasons
    <3>2. CASE admit(ledger, c)
      BY <2>3, <3>2 DEF RunQueryStarts, TypeOK
    <3>3. CASE ~admit(ledger, c)
      BY <2>3, <3>1, <3>3 DEF RunQueryStarts, TypeOK
    <3>4. QED
      BY <3>2, <3>3
  <2>4. CASE SampleStarts(c)
    BY <2>4 DEF SampleStarts, TypeOK
  <2>5. CASE SampleOutOfScope(c)
    BY <2>5 DEF SampleOutOfScope, TypeOK
  <2>6. CASE CheckerRaises(c)
    BY <2>1, <2>6 DEF CheckerRaises, TypeOK, pipeline_error_attempt, Reasons
  <2>7. CASE StatementRefused(c)
    BY <2>1, <2>7 DEF StatementRefused, TypeOK, Reasons
  <2>8. CASE StatementSent(c)
    BY <2>8 DEF StatementSent, TypeOK
  <2>9. CASE StatementReturns(c)
    BY <2>1, <2>9 DEF StatementReturns, TypeOK, Reasons
  <2>10. CASE AskRefused(c)
    BY <2>10 DEF AskRefused, TypeOK
  <2>11. CASE AskOpens(c)
    <3>1. PICK q \in Wordings(c) : words' = [words EXCEPT ![c] = q]
      BY <2>11 DEF AskOpens
    <3>2. q \in 0 .. MaxCalls
      BY <3>1 DEF Wordings, TypeOK, CallIds
    <3>3. words' \in [CallIds -> 0 .. MaxCalls]
      BY <3>1, <3>2 DEF TypeOK
    <3>4. QED
      BY <2>11, <3>3 DEF AskOpens, TypeOK
  <2>12. CASE AskLogs(c)
    BY <2>12 DEF AskLogs, TypeOK
  <2>13. CASE AskAnswered(c)
    BY <2>13 DEF AskAnswered, Closes, TypeOK
  <2>14. CASE AskRejected(c)
    BY <2>14 DEF AskRejected, Die, TypeOK
  <2>15. CASE HomeworkWriteFails(c)
    BY <2>15 DEF HomeworkWriteFails, Die, TypeOK
  <2>16. CASE OrphanSends(c)
    BY <2>16 DEF OrphanSends, TypeOK
  <2>18. CASE CheckerMisused(c)
    BY <2>18 DEF CheckerMisused, Die, TypeOK
  <2>17. QED
    BY <1>6, <2>18, <2>2, <2>3, <2>4, <2>5, <2>6, <2>7, <2>8, <2>9, <2>10, <2>11, <2>12,
       <2>13, <2>14, <2>15, <2>16 DEF TaskStep
<1>7. CASE CommitTools
  <2>1. PendingLedger \in [Keys -> SUBSET Rows] /\ PendingReplies \in [CallIds -> SUBSET Answers]
    BY DEF TypeOK, PendingLedger, PendingReplies, Keys, cap_attempt, Row, Rows, Paths, Reasons
  <2>2. DOMAIN tool \subseteq CallIds
    BY LenProperties DEF TypeOK, CallIds
  <2>3. ledger' \in [Keys -> SUBSET Rows] /\ clarified' \in [CallIds -> SUBSET Answers]
    BY <1>7, <2>1 DEF CommitTools, merge_by_call, TypeOK
  <2>4. result_table' \subseteq CallIds
    BY <1>7 DEF CommitTools, Newest, TypeOK
  <2>5. /\ replied' = DOMAIN tool /\ pc' = "model" /\ steps' = steps + 1
        /\ UNCHANGED <<late, pauses, failure, tool, blocked, counted, task, writes,
                       nodeVars, world>>
    BY <1>7 DEF CommitTools
  <2>6. QED
    BY <2>2, <2>3, <2>4, <2>5 DEF TypeOK
<1>8. CASE Pause
  BY <1>8 DEF Pause, TypeOK
<1>9. ASSUME NEW caller \in Callers, NEW kind \in ReplyKinds, ResumeTurn(caller, kind)
      PROVE TypeOK'
  <2>1. [caller |-> caller, kind |-> kind] \in Answers
    BY DEF Answers
  <2>2. /\ pc' = "tools" /\ pauses' = pauses + 1 /\ steps' = 0 /\ late' = FALSE
        /\ resume' = {[caller |-> caller, kind |-> kind]} /\ inFlight' = {} /\ latch' = {}
        /\ UNCHANGED <<failure, msgVars, writes, channels, world>>
    BY <1>9 DEF ResumeTurn, NewExecution
  <2>3. task' = [c \in CallIds |-> IF task[c] = "paused" THEN "ready" ELSE task[c]]
    BY <1>9 DEF ResumeTurn
  <2>4. task' \in [CallIds -> {"none", "ready", "running", "sent", "asking", "paused",
                             "answering", "finished"}]
    <3>1. \A x \in CallIds : (IF task[x] = "paused" THEN "ready" ELSE task[x])
            \in {"none", "ready", "running", "sent", "asking", "paused", "answering", "finished"}
      BY DEF TypeOK
    <3>2. QED
      BY <2>3, <3>1
  <2>5. resume' \subseteq Answers
    BY <2>1, <2>2
  <2>6. pauses' \in Nat
    BY <2>2 DEF TypeOK
  <2>7. steps' \in Nat /\ late' \in BOOLEAN
    BY <2>2
  <2>8. inFlight' \subseteq CallIds /\ latch' \subseteq CallIds
    BY <2>2
  <2>9. QED
    BY <2>2, <2>4, <2>5, <2>6, <2>7, <2>8 DEF TypeOK
<1>10. CASE ClockExpires
  BY <1>10 DEF ClockExpires, TypeOK
<1>11. CASE SoftWall
  BY <1>11 DEF SoftWall, Die, TypeOK
<1>12. CASE HardWall
  BY <1>12 DEF HardWall, Die, TypeOK
<1>13. CASE RecursionWall
  BY <1>13 DEF RecursionWall, Die, TypeOK
<1>14. CASE UNCHANGED vars
  BY <1>14 DEF vars, TypeOK
<1>15. QED
  BY <1>1, <1>2, <1>3, <1>4, <1>5, <1>6, <1>7, <1>8, <1>9, <1>10, <1>11, <1>12, <1>13,
     <1>14 DEF Next, Rest

LEMMA TypeInit == Init => TypeOK
<1> SUFFICES ASSUME Init PROVE TypeOK
  OBVIOUS
<1>1. tool \in Seq(Tools) /\ Len(tool) <= MaxCalls
  BY BoundAssumption, EmptySeq DEF Init
<1>2. words \in [CallIds -> 0 .. MaxCalls]
  BY BoundAssumption DEF Init
<1>3. QED
  BY <1>1, <1>2 DEF Init, TypeOK, Absent

(* Type correctness: in particular no row of clarifications.jsonl is ever  *)
(* given the status "declined", which does not exist.                      *)
THEOREM TypeCorrect == Spec => []TypeOK
<1>1. QED
  BY TypeInit, TypeStep, PTL DEF Spec
-----------------------------------------------------------------------------
(* The domain of the calls is an initial segment of the call ids.          *)
LEMMA CallsAreIds == TypeOK => DOMAIN tool = 1 .. Len(tool) /\ DOMAIN tool \subseteq CallIds
BY LenProperties, BoundAssumption DEF TypeOK, CallIds

(* A model reply adds calls that have no task, and keeps the tools of the  *)
(* others.                                                                 *)
LEMMA RepliesOnlyAdd ==
    ASSUME TypeOK, ModelReplies
    PROVE  /\ DOMAIN tool \subseteq DOMAIN tool' /\ DOMAIN tool' \subseteq CallIds
           /\ \A c \in DOMAIN tool : tool'[c] = tool[c]
<1>1. PICK n \in 0 .. MaxParallel :
        /\ Len(tool) + n <= MaxCalls
        /\ \E calls \in [1 .. n -> Tools] : tool' = tool \o calls
  BY DEF ModelReplies
<1>2. n \in Nat /\ tool \in Seq(Tools) /\ Len(tool) \in Nat
  BY LenProperties, BoundAssumption DEF TypeOK
<1>3. QED
  BY <1>1, <1>2, Proposals, LenProperties, BoundAssumption DEF CallIds

LEMMA TasksStep == TypeOK /\ TasksFollowCalls /\ [Next]_vars => TasksFollowCalls'
<1> SUFFICES ASSUME TypeOK, TasksFollowCalls, [Next]_vars PROVE TasksFollowCalls'
  OBVIOUS
<1> USE CallsAreIds DEF TasksFollowCalls, Pending
<1>1. CASE CallModel
  BY <1>1 DEF CallModel, StepStarts
<1>2. CASE ModelReplies
  <2>1. /\ pc = "calling" /\ pc' = "after_model"
        /\ UNCHANGED <<failure, replied, task>>
    BY <1>2 DEF ModelReplies
  <2>2. QED
    BY <1>2, <2>1, RepliesOnlyAdd
<1>3. CASE ModelRaises
  BY <1>3 DEF ModelRaises, Die
<1>4. CASE AfterModel
  BY <1>4 DEF AfterModel, StepStarts
<1>5. CASE Dispatch
  BY <1>5 DEF Dispatch, StepStarts, TypeOK
<1>6. ASSUME NEW c \in CallIds, TaskStep(c) PROVE TasksFollowCalls'
  <2>1. CASE AskRejected(c) \/ HomeworkWriteFails(c)
    BY <2>1 DEF AskRejected, HomeworkWriteFails, Die, Runs
  <2>5. CASE CheckerMisused(c)
    BY <2>5 DEF CheckerMisused, Die, Runs, To, TypeOK
  <2>2. CASE OrphanSends(c)
    BY <2>2 DEF OrphanSends, To, TypeOK
  <2>3. ASSUME pc = "tools", UNCHANGED <<loopVars, msgVars>>, c \in DOMAIN tool,
               task[c] # "none", task[c] # "finished", NEW to, to # "none", To(c, to)
        PROVE  TasksFollowCalls'
    BY <2>3 DEF To, TypeOK
  <2>4. QED
    <3> USE DEF Runs, FinishesWith
    <3>1. CASE NoEffect(c) \/ SampleStarts(c) \/ SampleOutOfScope(c) \/ AskRefused(c)
      BY <2>3, <3>1 DEF NoEffect, SampleStarts, SampleOutOfScope, AskRefused
    <3>2. CASE RunQueryStarts(c)
      BY <2>3, <3>2 DEF RunQueryStarts
    <3>3. CASE CheckerRaises(c) \/ StatementRefused(c) \/ StatementSent(c) \/ StatementReturns(c)
      BY <2>3, <3>3 DEF CheckerRaises, StatementRefused, StatementSent, StatementReturns
    <3>4. CASE AskOpens(c) \/ AskLogs(c) \/ AskAnswered(c)
      BY <2>3, <3>4 DEF AskOpens, AskLogs, AskAnswered
    <3>5. QED
      BY <1>6, <2>1, <2>2, <2>5, <3>1, <3>2, <3>3, <3>4 DEF TaskStep
<1>7. CASE CommitTools
  BY <1>7 DEF CommitTools
<1>8. CASE Pause
  BY <1>8 DEF Pause
<1>9. ASSUME NEW caller \in Callers, NEW kind \in ReplyKinds, ResumeTurn(caller, kind)
      PROVE TasksFollowCalls'
  BY <1>9 DEF ResumeTurn, NewExecution, TypeOK
<1>10. CASE ClockExpires
  BY <1>10 DEF ClockExpires
<1>11. CASE SoftWall
  BY <1>11 DEF SoftWall, Die, BetweenFrames
<1>12. CASE HardWall
  BY <1>12 DEF HardWall, Die
<1>13. CASE RecursionWall
  BY <1>13 DEF RecursionWall, Die, BetweenFrames
<1>14. CASE UNCHANGED vars
  BY <1>14 DEF vars
<1>15. QED
  BY <1>1, <1>2, <1>3, <1>4, <1>5, <1>6, <1>7, <1>8, <1>9, <1>10, <1>11, <1>12, <1>13,
     <1>14 DEF Next, Rest

(* PathOf depends only on the call's own tool.                             *)
LEMMA RowsStep ==
    TypeOK /\ TasksFollowCalls /\ RowsFollowSends /\ [Next]_vars => RowsFollowSends'
<1> SUFFICES ASSUME TypeOK, TasksFollowCalls, RowsFollowSends, [Next]_vars
             PROVE  RowsFollowSends'
  OBVIOUS
<1> USE CallsAreIds DEF RowsFollowSends, PathOf
<1>0. ASSUME UNCHANGED <<tool, replied, task, pendingRow, ledger, sends>>
      PROVE  RowsFollowSends'
  BY <1>0 DEF Passed
<1>1. CASE CallModel
  BY <1>0, <1>1 DEF CallModel
<1>2. CASE ModelReplies
  BY <1>2, RepliesOnlyAdd DEF ModelReplies, Passed
<1>3. CASE ModelRaises
  BY <1>0, <1>3 DEF ModelRaises
<1>4. CASE AfterModel
  <2>0. /\ UNCHANGED <<tool, task, pendingRow, sends>>
        /\ replied \subseteq replied' /\ replied' \subseteq DOMAIN tool
        /\ ledger' = ledger \/ ledger' = [ledger EXCEPT ![CAP_LEDGER_KEY] = {cap_attempt}]
        /\ pc = "after_model"
    BY <1>4 DEF AfterModel, StepStarts, Pending, TasksFollowCalls
  <2>1. /\ UNCHANGED <<tool, task, pendingRow, sends>>
        /\ replied \subseteq replied' /\ replied' \subseteq DOMAIN tool
        /\ \A c \in CallIds : ledger'[c] = ledger[c]
        /\ pc = "after_model"
    <3>1. \A c \in CallIds : c \in Keys /\ c # CAP_LEDGER_KEY
      BY BoundAssumption DEF Keys, CallIds, CAP_LEDGER_KEY
    <3>2. QED
      BY <2>0, <3>1 DEF TypeOK
  <2>2. ASSUME NEW c \in CallIds, c \in replied' \ replied
        PROVE  Passed(ledger[c]) = Passed(pendingRow[c])
    <3>1. task[c] = "none"
      BY <2>1, <2>2 DEF TasksFollowCalls, Pending
    <3>2. QED
      BY <2>2, <3>1 DEF Passed
  <2>3. QED
    BY <2>1, <2>2 DEF Passed
<1>5. CASE Dispatch
  <2>1. UNCHANGED <<tool, replied, pendingRow, ledger, sends>> /\ pc = "dispatch"
    BY <1>5 DEF Dispatch, StepStarts
  <2>2. task' = [c \in CallIds |-> IF c \in Pending THEN "ready" ELSE task[c]]
    BY <1>5 DEF Dispatch
  <2>3. \A c \in Pending : task[c] = "none"
    BY <2>1 DEF TasksFollowCalls, Pending, TypeOK
  <2>4. QED
    BY <2>1, <2>2, <2>3 DEF Passed, Pending, TypeOK
<1>6. ASSUME NEW c \in CallIds, TaskStep(c) PROVE RowsFollowSends'
  <2> USE DEF Runs, To, FinishesWith
  <2>1. ASSUME UNCHANGED <<tool, replied, pendingRow, ledger, sends>>, NEW to,
               task' = [task EXCEPT ![c] = to], c \in DOMAIN tool,
               to # "sent", task[c] \notin {"sent", "finished"}
        PROVE  RowsFollowSends'
    BY <2>1 DEF Passed, TypeOK
  <2>2. ASSUME UNCHANGED <<tool, replied, ledger, sends>>, NEW rows \in SUBSET Rows,
               task[c] \in {"ready", "running"}, c \in DOMAIN tool, Passed(rows) = {},
               task' = [task EXCEPT ![c] = "finished"],
               pendingRow' = [pendingRow EXCEPT ![c] = rows]
        PROVE  RowsFollowSends'
    BY <2>2 DEF Passed, TypeOK, TasksFollowCalls
  <2>3. CASE NoEffect(c) \/ SampleStarts(c) \/ SampleOutOfScope(c) \/ AskRefused(c)
    BY <2>1, <2>3 DEF NoEffect, SampleStarts, SampleOutOfScope, AskRefused
  <2>11. CASE CheckerMisused(c)
    BY <2>1, <2>11 DEF CheckerMisused
  <2>4. CASE AskOpens(c) \/ AskLogs(c) \/ AskAnswered(c)
    BY <2>1, <2>4 DEF AskOpens, AskLogs, AskAnswered
  <2>5. CASE RunQueryStarts(c)
    <3>1. CASE admit(ledger, c)
      BY <2>1, <2>5, <3>1 DEF RunQueryStarts
    <3>2. CASE ~admit(ledger, c)
      <4>1. {cap_attempt} \in SUBSET Rows /\ Passed({cap_attempt}) = {}
        BY DEF cap_attempt, Row, Rows, Paths, Reasons, Passed
      <4>2. QED
        BY <2>2, <2>5, <3>2, <4>1 DEF RunQueryStarts
    <3>3. QED
      BY <3>1, <3>2
  <2>6. CASE CheckerRaises(c) \/ StatementRefused(c)
    <3> DEFINE error == {pipeline_error_attempt(PathOf(c))}
               layer == {Row(PathOf(c), "layer")}
    <3>1. error \in SUBSET Rows /\ layer \in SUBSET Rows
      BY DEF pipeline_error_attempt, Row, Rows, Paths, Reasons
    <3>2. Passed(error) = {} /\ Passed(layer) = {}
      BY DEF pipeline_error_attempt, Row, Passed
    <3>3. /\ UNCHANGED <<tool, replied, ledger, sends>>
          /\ task[c] = "running" /\ c \in DOMAIN tool
          /\ task' = [task EXCEPT ![c] = "finished"]
          /\ \/ pendingRow' = [pendingRow EXCEPT ![c] = error]
             \/ pendingRow' = [pendingRow EXCEPT ![c] = layer]
      BY <2>6 DEF CheckerRaises, StatementRefused
    <3> HIDE DEF error, layer
    <3>4. QED
      BY <2>2, <3>1, <3>2, <3>3
  <2>7. CASE StatementSent(c) \/ OrphanSends(c)
    <3>1. /\ UNCHANGED <<tool, replied, pendingRow, ledger>>
          /\ task[c] = "running" /\ c \in DOMAIN tool
          /\ task' = [task EXCEPT ![c] = "sent"]
          /\ sends' = [sends EXCEPT ![c] = @ + 1]
      BY <2>7 DEF StatementSent, OrphanSends
    <3>2. QED
      BY <3>1 DEF Passed, TypeOK
  <2>8. CASE StatementReturns(c)
    <3> DEFINE passed == {Row(PathOf(c), "passed")}
    <3>1. /\ UNCHANGED <<tool, replied, ledger, sends>>
          /\ task[c] = "sent" /\ c \in DOMAIN tool
          /\ task' = [task EXCEPT ![c] = "finished"]
          /\ pendingRow' = [pendingRow EXCEPT ![c] = passed]
      BY <2>8 DEF StatementReturns
    <3>2. Passed(passed) = passed /\ passed # {} /\ \A r \in passed : r.path = PathOf(c)
      BY DEF Row, Passed
    <3>3. c \notin replied
      BY <3>1 DEF TasksFollowCalls
    <3> HIDE DEF passed
    <3>4. QED
      BY <3>1, <3>2, <3>3 DEF TypeOK
  <2>9. CASE AskRejected(c) \/ HomeworkWriteFails(c)
    BY <1>0, <2>9 DEF AskRejected, HomeworkWriteFails
  <2>10. QED
    BY <1>6, <2>3, <2>4, <2>5, <2>6, <2>7, <2>8, <2>9, <2>11 DEF TaskStep
<1>7. CASE CommitTools
  <2>1. /\ UNCHANGED <<tool, task, pendingRow, sends>> /\ replied' = DOMAIN tool
        /\ ledger' = merge_by_call(ledger, PendingLedger)
    BY <1>7 DEF CommitTools
  <2>0. ASSUME NEW c \in CallIds
        PROVE  ledger'[c] = IF c \in Pending /\ pendingRow[c] \ {cap_attempt} # {}
                              THEN pendingRow[c] \ {cap_attempt} ELSE ledger[c]
    <3>1. c \in Keys /\ c # CAP_LEDGER_KEY /\ DOMAIN ledger = Keys
      BY BoundAssumption DEF Keys, CallIds, CAP_LEDGER_KEY, TypeOK
    <3>2. PendingLedger[c] = IF c \in Pending THEN pendingRow[c] \ {cap_attempt} ELSE {}
      BY <3>1 DEF PendingLedger
    <3>3. QED
      BY <2>1, <3>1, <3>2 DEF merge_by_call
  <2>2. \A c \in Pending : ledger'[c] = pendingRow[c] \ {cap_attempt}
    BY <2>0 DEF Pending
  <2>3. \A c \in CallIds \ Pending : ledger'[c] = ledger[c]
    BY <2>0
  <2>4. ASSUME NEW c \in CallIds
        PROVE  /\ c \in replied' => Passed(ledger'[c]) = Passed(pendingRow[c])
               /\ c \notin replied' => ledger'[c] = {}
    <3>1. CASE c \in Pending
      <4>1. Passed(pendingRow[c] \ {cap_attempt}) = Passed(pendingRow[c])
        BY DEF Passed, cap_attempt, Row
      <4>2. c \in replied'
        BY <2>1, <3>1 DEF Pending
      <4>3. QED
        BY <2>2, <3>1, <4>1, <4>2
    <3>2. CASE c \notin Pending
      <4>1. c \in replied' <=> c \in replied
        BY <2>1, <3>2 DEF Pending, TasksFollowCalls
      <4>2. ledger'[c] = ledger[c]
        BY <2>3, <3>2
      <4>3. QED
        BY <4>1, <4>2
    <3>3. QED
      BY <3>1, <3>2
  <2>5. QED
    BY <2>1, <2>4
<1>8. CASE Pause
  BY <1>0, <1>8 DEF Pause
<1>9. ASSUME NEW caller \in Callers, NEW kind \in ReplyKinds, ResumeTurn(caller, kind)
      PROVE RowsFollowSends'
  <2>1. /\ UNCHANGED <<tool, replied, pendingRow, ledger, sends>>
        /\ task' = [c \in CallIds |-> IF task[c] = "paused" THEN "ready" ELSE task[c]]
    BY <1>9 DEF ResumeTurn
  <2>2. QED
    BY <2>1 DEF TypeOK, Passed
<1>10. CASE ClockExpires
  BY <1>0, <1>10 DEF ClockExpires
<1>11. CASE SoftWall
  BY <1>0, <1>11 DEF SoftWall
<1>12. CASE HardWall
  BY <1>0, <1>12 DEF HardWall
<1>13. CASE RecursionWall
  BY <1>0, <1>13 DEF RecursionWall
<1>14. CASE UNCHANGED vars
  BY <1>0, <1>14 DEF vars
<1>15. QED
  BY <1>1, <1>2, <1>3, <1>4, <1>5, <1>6, <1>7, <1>8, <1>9, <1>10, <1>11, <1>12, <1>13,
     <1>14 DEF Next, Rest

(* The book's view of the ledger is contained in the middleware's count.   *)
LEMMA CountStep ==
    TypeOK /\ TasksFollowCalls /\ BothEnforcersCountTheSame /\ [Next]_vars
        => BothEnforcersCountTheSame'
<1> SUFFICES ASSUME TypeOK, TasksFollowCalls, BothEnforcersCountTheSame, [Next]_vars
             PROVE  BothEnforcersCountTheSame'
  OBVIOUS
<1> USE CallsAreIds DEF BothEnforcersCountTheSame
<1>0. ASSUME UNCHANGED <<tool, replied, counted, task, inFlight, pendingRow, ledger>>,
             pc' # "dispatch"
      PROVE  BothEnforcersCountTheSame'
  BY <1>0 DEF Pending
<1>1. CASE CallModel
  BY <1>0, <1>1 DEF CallModel
<1>2. CASE ModelReplies
  <2>1. /\ pc' = "after_model"
        /\ UNCHANGED <<replied, counted, task, inFlight, pendingRow, ledger>>
    BY <1>2 DEF ModelReplies
  <2>2. \A c \in DOMAIN tool' : task[c] # "none" => c \in DOMAIN tool
    BY <1>2, RepliesOnlyAdd DEF TasksFollowCalls
  <2>3. QED
    BY <1>2, <2>1, <2>2, RepliesOnlyAdd
<1>3. CASE ModelRaises
  BY <1>0, <1>3 DEF ModelRaises, Die
<1>4. CASE AfterModel
  <2> DEFINE rq == {c \in Pending : tool[c] = "run_query"}
  <2>1. PICK allowed \in SUBSET rq :
          /\ WithinLimit(rq, allowed)
          /\ counted' = counted \cup allowed
          /\ pc' = "dispatch" => allowed = rq /\ replied' = replied
    BY <1>4 DEF AfterModel
  <2>2. UNCHANGED <<tool, task, inFlight, pendingRow>>
    BY <1>4 DEF AfterModel
  <2>3. ledger' = ledger \/ ledger' = [ledger EXCEPT ![CAP_LEDGER_KEY] = {cap_attempt}]
    BY <1>4 DEF AfterModel
  <2>4. /\ \A c \in CallIds : ledger'[c] = ledger[c]
        /\ ledger'[CAP_LEDGER_KEY] \subseteq {cap_attempt}
    <3>1. CAP_LEDGER_KEY \in Keys /\ \A c \in CallIds : c \in Keys /\ c # CAP_LEDGER_KEY
      BY BoundAssumption DEF Keys, CallIds, CAP_LEDGER_KEY
    <3>2. QED
      BY <2>3, <3>1 DEF TypeOK
  <2>5. Cardinality(counted') <= Cap
    BY <2>1 DEF WithinLimit
  <2>6. pc' = "dispatch" => \A c \in Pending' : tool[c] = "run_query" => c \in counted'
    BY <2>1, <2>2 DEF Pending
  <2>7. QED
    BY <2>1, <2>2, <2>4, <2>5, <2>6, <1>4 DEF AfterModel, StepStarts
<1>5. CASE Dispatch
  <2>1. /\ UNCHANGED <<tool, replied, counted, inFlight, pendingRow, ledger>>
        /\ pc = "dispatch" /\ pc' = "tools"
        /\ task' = [c \in CallIds |-> IF c \in Pending THEN "ready" ELSE task[c]]
    BY <1>5 DEF Dispatch, StepStarts
  <2>2. QED
    BY <2>1 DEF TypeOK
<1>6. ASSUME NEW c \in CallIds, TaskStep(c) PROVE BothEnforcersCountTheSame'
  <2> USE DEF Runs, To, FinishesWith
  <2>1. ASSUME UNCHANGED <<tool, replied, counted, ledger, pc>>, NEW to,
               NEW rows \in SUBSET Rows,
               task' = [task EXCEPT ![c] = to], c \in DOMAIN tool,
               task[c] # "none", pc # "dispatch",
               inFlight' \subseteq inFlight \cup {d \in {c} : tool[c] = "run_query"},
               pendingRow' = pendingRow \/ pendingRow' = [pendingRow EXCEPT ![c] = rows],
               \A r \in rows : r.path = "agent" /\ r.reason # "attempt_cap" =>
                                  tool[c] = "run_query"
        PROVE  BothEnforcersCountTheSame'
    BY <2>1 DEF TypeOK
  <2>2. ASSUME UNCHANGED <<tool, replied, counted, ledger, pc, inFlight, pendingRow>>,
               NEW to, task' = [task EXCEPT ![c] = to], c \in DOMAIN tool,
               task[c] # "none", pc # "dispatch"
        PROVE  BothEnforcersCountTheSame'
    BY <2>2 DEF TypeOK
  <2>3. CASE NoEffect(c) \/ SampleStarts(c) \/ SampleOutOfScope(c) \/ AskRefused(c)
    BY <2>2, <2>3 DEF NoEffect, SampleStarts, SampleOutOfScope, AskRefused
  <2>4. CASE AskOpens(c) \/ AskLogs(c) \/ AskAnswered(c)
    BY <2>2, <2>4 DEF AskOpens, AskLogs, AskAnswered
  <2>5. CASE StatementSent(c) \/ OrphanSends(c)
    BY <2>2, <2>5 DEF StatementSent, OrphanSends
  <2>6. CASE RunQueryStarts(c)
    <3>1. {cap_attempt} \in SUBSET Rows /\ \A r \in {cap_attempt} : r.reason = "attempt_cap"
      BY DEF cap_attempt, Row, Rows, Paths, Reasons
    <3>2. /\ UNCHANGED <<tool, replied, counted, ledger, pc>>
          /\ c \in DOMAIN tool /\ tool[c] = "run_query" /\ task[c] # "none" /\ pc # "dispatch"
          /\ inFlight' \subseteq inFlight \cup {c}
          /\ \E to : task' = [task EXCEPT ![c] = to]
          /\ pendingRow' = pendingRow \/ pendingRow' = [pendingRow EXCEPT ![c] = {cap_attempt}]
      BY <2>6 DEF RunQueryStarts
    <3>3. QED
      BY <2>1, <3>1, <3>2
  <2>7. CASE CheckerRaises(c) \/ StatementRefused(c) \/ StatementReturns(c)
    <3>1. PICK reason \in Reasons :
            /\ UNCHANGED <<tool, replied, counted, ledger, pc>>
            /\ c \in DOMAIN tool /\ tool[c] \in StatementTools
            /\ task[c] # "none" /\ pc # "dispatch" /\ inFlight' \subseteq inFlight
            /\ task' = [task EXCEPT ![c] = "finished"]
            /\ pendingRow' = [pendingRow EXCEPT ![c] = {Row(PathOf(c), reason)}]
      BY <2>7 DEF CheckerRaises, StatementRefused, StatementReturns, pipeline_error_attempt,
                  Reasons
    <3> DEFINE rows == {Row(PathOf(c), reason)}
    <3>2. rows \in SUBSET Rows
      BY DEF Row, Rows, Paths, PathOf
    <3>3. \A r \in rows : r.path = "agent" => tool[c] = "run_query"
      BY DEF Row, PathOf
    <3> HIDE DEF rows
    <3>4. pendingRow' = [pendingRow EXCEPT ![c] = rows]
      BY <3>1 DEF rows
    <3>5. QED
      BY <2>1, <3>1, <3>2, <3>3, <3>4
  <2>8. CASE AskRejected(c) \/ HomeworkWriteFails(c)
    BY <1>0, <2>8 DEF AskRejected, HomeworkWriteFails, Die
  <2>9. CASE CheckerMisused(c)
    <3>1. /\ UNCHANGED <<tool, replied, counted, ledger, inFlight, pendingRow>>
          /\ pc' = "done" /\ c \in DOMAIN tool /\ task[c] # "none" /\ pc # "dispatch"
          /\ task' = [task EXCEPT ![c] = "finished"]
      BY <2>9 DEF CheckerMisused, Die
    <3>2. QED
      BY <3>1 DEF TypeOK
  <2>10. QED
    BY <1>6, <2>3, <2>4, <2>5, <2>6, <2>7, <2>8, <2>9 DEF TaskStep
<1>7. CASE CommitTools
  <2>1. /\ UNCHANGED <<tool, counted, task, inFlight, pendingRow>> /\ pc' = "model"
        /\ ledger' = merge_by_call(ledger, PendingLedger)
    BY <1>7 DEF CommitTools
  <2>2. ASSUME NEW k \in Keys
        PROVE  ledger'[k] \in {ledger[k], PendingLedger[k]}
    BY <2>1, <2>2 DEF merge_by_call, TypeOK
  <2>3. ASSUME NEW c \in CallIds PROVE ledger'[c] \subseteq ledger[c] \cup pendingRow[c]
    <3>1. c \in Keys /\ c # CAP_LEDGER_KEY
      BY BoundAssumption DEF Keys, CallIds, CAP_LEDGER_KEY
    <3>2. PendingLedger[c] \subseteq pendingRow[c]
      BY <3>1 DEF PendingLedger
    <3>3. QED
      BY <2>2, <3>1, <3>2
  <2>4. ledger'[CAP_LEDGER_KEY] \subseteq {cap_attempt}
    <3>1. CAP_LEDGER_KEY \in Keys
      BY DEF Keys
    <3>2. PendingLedger[CAP_LEDGER_KEY] \subseteq {cap_attempt}
      BY <3>1 DEF PendingLedger
    <3>3. QED
      BY <2>2, <3>1, <3>2
  <2>5. QED
    BY <2>1, <2>3, <2>4
<1>8. CASE Pause
  BY <1>0, <1>8 DEF Pause
<1>9. ASSUME NEW caller \in Callers, NEW kind \in ReplyKinds, ResumeTurn(caller, kind)
      PROVE BothEnforcersCountTheSame'
  <2>1. /\ UNCHANGED <<tool, replied, counted, pendingRow, ledger>>
        /\ inFlight' = {} /\ pc' = "tools"
        /\ task' = [c \in CallIds |-> IF task[c] = "paused" THEN "ready" ELSE task[c]]
    BY <1>9 DEF ResumeTurn, NewExecution
  <2>2. QED
    BY <2>1 DEF TypeOK
<1>10. CASE ClockExpires
  BY <1>10 DEF ClockExpires, Pending
<1>11. CASE SoftWall
  BY <1>0, <1>11 DEF SoftWall, Die
<1>12. CASE HardWall
  BY <1>0, <1>12 DEF HardWall, Die
<1>13. CASE RecursionWall
  BY <1>0, <1>13 DEF RecursionWall, Die
<1>14. CASE UNCHANGED vars
  BY <1>14 DEF vars, Pending
<1>15. QED
  BY <1>1, <1>2, <1>3, <1>4, <1>5, <1>6, <1>7, <1>8, <1>9, <1>10, <1>11, <1>12, <1>13,
     <1>14 DEF Next, Rest
-----------------------------------------------------------------------------
LEMMA InvariantInit == Init => WhyThePromiseIsKept
<1> SUFFICES ASSUME Init PROVE WhyThePromiseIsKept
  OBVIOUS
<1>1. DOMAIN tool = {}
  BY DEF Init
<1>2. \A k \in Keys : ledger[k] = {}
  BY DEF Init, Absent
<1>3. \A c \in CallIds : c \in Keys /\ pendingRow[c] = {} /\ task[c] = "none" /\ sends[c] = 0
  BY DEF Init, Absent, Keys
<1>4. TasksFollowCalls
  BY <1>1, <1>3 DEF Init, TasksFollowCalls, Pending
<1>5. BothEnforcersCountTheSame
  <2>1. Cardinality(counted) <= Cap
    BY CapAssumption, FS_EmptySet DEF Init
  <2>2. CAP_LEDGER_KEY \in Keys
    BY DEF Keys
  <2>3. QED
    BY <1>1, <1>2, <1>3, <2>1, <2>2 DEF Init, BothEnforcersCountTheSame
<1>6. RowsFollowSends
  BY <1>1, <1>2, <1>3 DEF Init, RowsFollowSends, Passed
<1>7. QED
  BY <1>4, <1>5, <1>6 DEF WhyThePromiseIsKept

THEOREM Invariance == Spec => [](TypeOK /\ WhyThePromiseIsKept)
<1>1. Init => TypeOK /\ WhyThePromiseIsKept
  BY TypeInit, InvariantInit
<1>2. TypeOK /\ WhyThePromiseIsKept /\ [Next]_vars => (TypeOK /\ WhyThePromiseIsKept)'
  BY TypeStep, TasksStep, RowsStep, CountStep DEF WhyThePromiseIsKept
<1>3. QED
  BY <1>1, <1>2, PTL DEF Spec
-----------------------------------------------------------------------------
LEMMA CallIdsFinite == IsFiniteSet(CallIds)
BY FS_Interval, BoundAssumption DEF CallIds

(* Every governed statement the engine received is one the middleware      *)
(* counted before its task existed.                                        *)
LEMMA SentIsCounted == TypeOK /\ WhyThePromiseIsKept => Sent \subseteq counted
<1> SUFFICES ASSUME TypeOK, WhyThePromiseIsKept, NEW c \in Sent PROVE c \in counted
  OBVIOUS
<1>1. c \in DOMAIN tool /\ c \in CallIds /\ tool[c] = "run_query" /\ sends[c] > 0
  BY CallsAreIds DEF Sent
<1>2. task[c] # "none"
  BY <1>1 DEF WhyThePromiseIsKept, RowsFollowSends, Passed
<1>3. QED
  BY <1>1, <1>2 DEF WhyThePromiseIsKept, BothEnforcersCountTheSame

(* run_query_attempt_cap bounds the statements sent, for every cap, every  *)
(* interleaving of the parallel calls and every number of resumes.         *)
THEOREM BudgetHolds == Spec => []StatementBudget
<1>1. TypeOK /\ WhyThePromiseIsKept => StatementBudget
  <2> SUFFICES ASSUME TypeOK, WhyThePromiseIsKept PROVE StatementBudget
    OBVIOUS
  <2>1. IsFiniteSet(counted) /\ Sent \subseteq counted
    BY CallIdsFinite, FS_Subset, SentIsCounted DEF TypeOK
  <2>2. Cardinality(Sent) <= Cardinality(counted) /\ Cardinality(Sent) \in Nat
        /\ Cardinality(counted) \in Nat
    BY <2>1, FS_Subset, FS_CardinalityType
  <2>3. Cardinality(Sent) <= Cap
    BY <2>2, CapAssumption DEF WhyThePromiseIsKept, BothEnforcersCountTheSame
  <2>4. \A c \in CallIds : sends[c] <= 1
    BY DEF WhyThePromiseIsKept, RowsFollowSends
  <2>5. QED
    BY <2>3, <2>4 DEF StatementBudget
<1>2. QED
  BY <1>1, Invariance, PTL

(* The attempt book never refuses on the agent path: a call it has not     *)
(* seen is one more than it has, and the middleware has counted them all.  *)
THEOREM BackstopOnly == Spec => []BookIsOnlyABackstop
<1>1. TypeOK /\ WhyThePromiseIsKept => BookIsOnlyABackstop
  <2> SUFFICES ASSUME TypeOK, WhyThePromiseIsKept, NEW c \in CallIds,
                      Runs(c, {"run_query"}, "ready"), c \notin Chargeable(ledger) \cup inFlight
               PROVE  charged(ledger) < Cap
    BY DEF BookIsOnlyABackstop, admit
  <2> DEFINE booked == Chargeable(ledger) \cup inFlight
  <2>1. c \in counted
    BY DEF Runs, WhyThePromiseIsKept, BothEnforcersCountTheSame
  <2>2. booked \subseteq counted
    <3>1. ASSUME NEW k \in Chargeable(ledger) PROVE k \in counted
      <4>1. PICK r \in ledger[k] : r.path # "sample" /\ r.reason # "attempt_cap"
        BY DEF Chargeable
      <4>2. k \in Keys /\ r \in Rows
        BY <4>1 DEF Chargeable, TypeOK
      <4>3. k # CAP_LEDGER_KEY
        BY <4>1, <4>2 DEF WhyThePromiseIsKept, BothEnforcersCountTheSame, cap_attempt, Row
      <4>4. r.path = "agent" /\ k \in CallIds
        BY <4>1, <4>2, <4>3 DEF Rows, Paths, Keys
      <4>5. QED
        BY <4>1, <4>4 DEF WhyThePromiseIsKept, BothEnforcersCountTheSame
    <3>2. QED
      BY <3>1 DEF WhyThePromiseIsKept, BothEnforcersCountTheSame
  <2>3. IsFiniteSet(counted) /\ IsFiniteSet(counted \ {c}) /\ booked \subseteq counted \ {c}
    BY <2>2, CallIdsFinite, FS_Subset DEF TypeOK
  <2>4. Cardinality(booked) <= Cardinality(counted \ {c})
        /\ Cardinality(booked) \in Nat
    BY <2>3, FS_Subset, FS_CardinalityType
  <2>5. Cardinality(counted \ {c}) = Cardinality(counted) - 1 /\ Cardinality(counted) \in Nat
    BY <2>1, <2>3, FS_RemoveElement, FS_CardinalityType
  <2>6. Cardinality(counted) <= Cap
    BY DEF WhyThePromiseIsKept, BothEnforcersCountTheSame
  <2>7. QED
    BY <2>4, <2>5, <2>6, CapAssumption DEF charged
<1>2. QED
  BY <1>1, Invariance, PTL

(* A call is recorded exactly when its super-step committed a passed row.  *)
LEMMA RecordedMeansCommitted ==
    ASSUME TypeOK, WhyThePromiseIsKept, NEW P, NEW c \in CallIds
    PROVE  c \in Recorded(ledger, P) <=>
             c \in replied /\ \E r \in Passed(pendingRow[c]) : r.path \in P
BY DEF Recorded, WhyThePromiseIsKept, RowsFollowSends, Passed

(* Between frames, and in a turn that ended on its own, on the cap or on   *)
(* the soft wall, no statement is under way or waiting to be committed.    *)
Settled == pc \notin {"tools", "paused"} /\ failure \notin {"raised", "hard_wall"}

LEMMA SettledMeansCommitted ==
    ASSUME TypeOK, WhyThePromiseIsKept, Settled, NEW c \in CallIds, sends[c] > 0
    PROVE  c \in replied /\ Passed(pendingRow[c]) # {}
<1>1. task[c] = "sent" \/ Passed(pendingRow[c]) # {}
  BY DEF WhyThePromiseIsKept, RowsFollowSends
<1>2. task[c] # "none"
  BY <1>1 DEF WhyThePromiseIsKept, RowsFollowSends, Passed
<1>3. c \in replied
  BY <1>2 DEF WhyThePromiseIsKept, TasksFollowCalls, Pending, Settled
<1>4. task[c] # "sent"
  BY <1>3 DEF WhyThePromiseIsKept, TasksFollowCalls
<1>5. QED
  BY <1>1, <1>3, <1>4

(* The ledger accounts for the engine.                                     *)
THEOREM LedgerAccounts == Spec => []LedgerAccountsForTheEngine
<1>1. TypeOK /\ WhyThePromiseIsKept => LedgerAccountsForTheEngine
  <2> SUFFICES ASSUME TypeOK, WhyThePromiseIsKept PROVE LedgerAccountsForTheEngine
    OBVIOUS
  <2> DEFINE claimed  == Recorded(ledger, Paths)
             received == {c \in CallIds : sends[c] > 0}
  <2>1. claimed \subseteq received
    <3> SUFFICES ASSUME NEW c \in claimed PROVE c \in received
      OBVIOUS
    <3>1. c \in CallIds
      BY DEF Recorded
    <3>2. Passed(pendingRow[c]) # {}
      BY <3>1, RecordedMeansCommitted
    <3>3. QED
      BY <3>1, <3>2 DEF WhyThePromiseIsKept, RowsFollowSends
  <2>2. ASSUME Settled PROVE received \subseteq claimed
    <3> SUFFICES ASSUME NEW c \in received PROVE c \in claimed
      OBVIOUS
    <3>1. c \in replied /\ Passed(pendingRow[c]) # {}
      BY <2>2, SettledMeansCommitted
    <3>2. \A r \in Passed(pendingRow[c]) : r.path \in Paths
      BY DEF Passed, TypeOK, Rows
    <3>3. QED
      BY <3>1, <3>2, RecordedMeansCommitted
  <2>3. QED
    BY <2>1, <2>2 DEF LedgerAccountsForTheEngine, Settled
<1>2. QED
  BY <1>1, Invariance, PTL
-----------------------------------------------------------------------------
AgentRows == Recorded(ledger, {"agent"})

LEMMA AgentRowsAreSent ==
    TypeOK /\ WhyThePromiseIsKept => AgentRows \subseteq Sent /\ (Settled => AgentRows = Sent)
<1> SUFFICES ASSUME TypeOK, WhyThePromiseIsKept
             PROVE  AgentRows \subseteq Sent /\ (Settled => AgentRows = Sent)
  OBVIOUS
<1>1. ASSUME NEW c \in AgentRows PROVE c \in Sent
  <2>1. c \in CallIds
    BY <1>1 DEF AgentRows, Recorded
  <2>2. PICK r \in Passed(pendingRow[c]) : r.path = "agent"
    BY <1>1, <2>1, RecordedMeansCommitted DEF AgentRows
  <2>3. c \in DOMAIN tool /\ PathOf(c) = "agent" /\ sends[c] = 1
    BY <2>1, <2>2 DEF WhyThePromiseIsKept, RowsFollowSends
  <2>4. QED
    BY <2>3 DEF PathOf, Sent
<1>2. ASSUME Settled, NEW c \in Sent PROVE c \in AgentRows
  <2>1. c \in CallIds /\ tool[c] = "run_query" /\ sends[c] > 0
    BY CallsAreIds DEF Sent
  <2>2. c \in replied /\ Passed(pendingRow[c]) # {}
    BY <1>2, <2>1, SettledMeansCommitted
  <2>3. \A r \in Passed(pendingRow[c]) : r.path = "agent"
    BY <2>1 DEF WhyThePromiseIsKept, RowsFollowSends, PathOf
  <2>4. QED
    BY <2>1, <2>2, <2>3, RecordedMeansCommitted DEF AgentRows
<1>3. QED
  BY <1>1, <1>2

(* The promise counts as the loop does.                                    *)
LEMMA SameCardinality == \A S : Promise!Cardinality(S) = Cardinality(S)
BY DEF Promise!Cardinality, Cardinality

LEMMA AgentRowsAreSentNext ==
    (TypeOK /\ WhyThePromiseIsKept)' => (Settled => AgentRows = Sent)'
BY AgentRowsAreSent, PTL

(* One step of the loop is one step of the promise, or none.               *)
LEMMA PromiseStep ==
    TypeOK /\ WhyThePromiseIsKept /\ (TypeOK /\ WhyThePromiseIsKept)' /\ [Next]_vars
        => [Promise!Next]_(Promise!vars)
<1> SUFFICES ASSUME TypeOK, WhyThePromiseIsKept, TypeOK', WhyThePromiseIsKept', [Next]_vars
             PROVE  [Promise!Next]_(Promise!vars)
  OBVIOUS
<1> USE DEF Promise!Next, Promise!vars, AgentRows, Promise!Record, Promise!Wait,
            Promise!Resume, Promise!Finish, Promise!Cut
<1>1. pc # "done" => failure = "none"
  BY DEF WhyThePromiseIsKept, TasksFollowCalls
<1>2. ASSUME UNCHANGED <<tool, sends, ledger>>
      PROVE  Sent' = Sent /\ AgentRows' = AgentRows
  BY <1>2 DEF Sent, Recorded
<1>3. ASSUME UNCHANGED <<tool, sends, ledger, pc, failure>>
      PROVE  UNCHANGED (Promise!vars)
  BY <1>2, <1>3 DEF Phase
<1>4. ASSUME UNCHANGED <<tool, sends, ledger, failure>>,
             pc \notin {"paused", "done"}, pc' \notin {"paused", "done"}
      PROVE  UNCHANGED (Promise!vars)
  BY <1>2, <1>4 DEF Phase
<1>5. ASSUME UNCHANGED <<tool, sends, ledger>>, pc \notin {"paused", "done"}, pc' = "done",
             failure' \in {"raised", "hard_wall"}
      PROVE  Promise!Cut
  BY <1>2, <1>5 DEF Phase
<1>6. ASSUME Sent' = Sent, AgentRows' = AgentRows, pc \notin {"tools", "paused", "done"},
             pc' = "done", failure' \in {"none", "soft_wall"}
      PROVE  Promise!Finish
  BY <1>1, <1>6, AgentRowsAreSent DEF Phase, Settled
<1>7. CASE CallModel
  BY <1>4, <1>7 DEF CallModel, StepStarts
<1>8. CASE ModelReplies
  <2>1. /\ pc = "calling" /\ pc' = "after_model"
        /\ UNCHANGED <<sends, ledger, failure>>
    BY <1>8 DEF ModelReplies
  <2>2. \A c \in CallIds : sends[c] > 0 => c \in DOMAIN tool
    BY DEF WhyThePromiseIsKept, TasksFollowCalls, RowsFollowSends, Passed
  <2>3. Sent' = Sent
    BY <1>8, <2>1, <2>2, RepliesOnlyAdd, CallsAreIds DEF Sent
  <2>4. QED
    BY <2>1, <2>3 DEF Phase, Recorded
<1>9. CASE ModelRaises
  BY <1>5, <1>9 DEF ModelRaises, Die
<1>10. CASE AfterModel
  <2>1. /\ UNCHANGED <<tool, sends, failure>>
        /\ pc = "after_model" /\ pc' \in {"dispatch", "done"}
        /\ ledger' = ledger \/ ledger' = [ledger EXCEPT ![CAP_LEDGER_KEY] = {cap_attempt}]
    BY <1>10 DEF AfterModel, StepStarts
  <2>2. \A c \in CallIds : ledger'[c] = ledger[c]
    <3>1. \A c \in CallIds : c \in Keys /\ c # CAP_LEDGER_KEY
      BY BoundAssumption DEF Keys, CallIds, CAP_LEDGER_KEY
    <3>2. QED
      BY <2>1, <3>1 DEF TypeOK
  <2>3. Sent' = Sent /\ AgentRows' = AgentRows
    BY <2>1, <2>2 DEF Sent, Recorded
  <2>4. CASE pc' = "done"
    BY <1>1, <1>6, <2>1, <2>3, <2>4
  <2>5. CASE pc' = "dispatch"
    BY <2>1, <2>3, <2>5 DEF Phase
  <2>6. QED
    BY <2>1, <2>4, <2>5
<1>11. CASE Dispatch
  BY <1>4, <1>11 DEF Dispatch, StepStarts
<1>12. ASSUME NEW c \in CallIds, TaskStep(c) PROVE [Promise!Next]_(Promise!vars)
  <2> USE DEF Runs
  <2>1. CASE AskRejected(c) \/ HomeworkWriteFails(c) \/ CheckerMisused(c)
    BY <1>5, <2>1 DEF AskRejected, HomeworkWriteFails, CheckerMisused, Die
  <2>2. CASE StatementSent(c) \/ OrphanSends(c)
    <3>1. /\ UNCHANGED <<tool, ledger, pc, failure>>
          /\ c \in DOMAIN tool /\ task[c] = "running"
          /\ sends' = [sends EXCEPT ![c] = @ + 1]
          /\ Phase \in {"running", "cut"}
      BY <2>2 DEF StatementSent, OrphanSends, Phase
    <3>2. sends[c] = 0
      BY <3>1 DEF WhyThePromiseIsKept, RowsFollowSends, Passed
    <3>3. AgentRows' = AgentRows /\ Phase' = Phase
      BY <3>1 DEF Recorded, Phase
    <3>4. CASE tool[c] = "run_query"
      <4>1. c \notin Sent /\ Sent' = Sent \cup {c}
        BY <3>1, <3>2, <3>4, CallsAreIds DEF Sent, TypeOK
      <4>2. Sent' \subseteq counted' /\ IsFiniteSet(counted')
        <5>1. c \in counted /\ counted' = counted
          BY <3>1, <3>4, <2>2 DEF WhyThePromiseIsKept, BothEnforcersCountTheSame, StatementSent,
             OrphanSends, msgVars
        <5>2. Sent' \subseteq counted'
          BY <4>1, <5>1, SentIsCounted
        <5>3. QED
          BY <5>2, CallIdsFinite, FS_Subset DEF TypeOK
      <4>3. Cardinality(counted') <= Cap /\ Cardinality(counted') \in Nat
        BY <4>2, FS_CardinalityType DEF WhyThePromiseIsKept, BothEnforcersCountTheSame
      <4>4. IsFiniteSet(Sent') /\ IsFiniteSet(Sent) /\ Cardinality(Sent') <= Cardinality(counted')
        BY <4>1, <4>2, FS_Subset
      <4>5. Cardinality(Sent') = Cardinality(Sent) + 1 /\ Cardinality(Sent) \in Nat
        BY <4>1, <4>4, FS_AddElement, FS_CardinalityType
      <4>6. Cardinality(Sent) < Cap
        BY <4>3, <4>4, <4>5, FS_CardinalityType, CapAssumption
      <4>7. Promise!Send(c)
        BY <3>1, <3>3, <4>1, <4>6, SameCardinality DEF Promise!Send
      <4>8. QED
        BY <4>7
    <3>5. CASE tool[c] # "run_query"
      <4>1. Sent' = Sent
        BY <3>1, <3>5, CallsAreIds DEF Sent, TypeOK
      <4>2. QED
        BY <3>3, <4>1
    <3>6. QED
      BY <3>4, <3>5
  <2>3. CASE NoEffect(c) \/ SampleStarts(c) \/ SampleOutOfScope(c) \/ AskRefused(c)
    BY <1>3, <2>3 DEF NoEffect, SampleStarts, SampleOutOfScope, AskRefused
  <2>4. CASE RunQueryStarts(c)
    BY <1>3, <2>4 DEF RunQueryStarts
  <2>5. CASE CheckerRaises(c) \/ StatementRefused(c) \/ StatementReturns(c)
    BY <1>3, <2>5 DEF CheckerRaises, StatementRefused, StatementReturns
  <2>6. CASE AskOpens(c) \/ AskLogs(c) \/ AskAnswered(c)
    BY <1>3, <2>6 DEF AskOpens, AskLogs, AskAnswered
  <2>7. QED
    BY <1>12, <2>1, <2>2, <2>3, <2>4, <2>5, <2>6 DEF TaskStep
<1>13. CASE CommitTools
  <2>1. UNCHANGED <<tool, sends, failure>> /\ pc = "tools" /\ pc' = "model"
    BY <1>13 DEF CommitTools
  <2>2. Sent' = Sent
    BY <2>1 DEF Sent
  <2>3. Settled'
    BY <1>1, <2>1 DEF Settled
  <2>4. AgentRows' = Sent'
    BY <2>3, AgentRowsAreSentNext
  <2>5. QED
    BY <2>1, <2>2, <2>4 DEF Phase
<1>14. CASE Pause
  BY <1>2, <1>14 DEF Pause, Phase
<1>15. ASSUME NEW caller \in Callers, NEW kind \in ReplyKinds, ResumeTurn(caller, kind)
       PROVE  Promise!Resume
  BY <1>2, <1>15 DEF ResumeTurn, NewExecution, Phase
<1>16. CASE ClockExpires
  BY <1>3, <1>16 DEF ClockExpires
<1>17. CASE SoftWall
  BY <1>2, <1>6, <1>17 DEF SoftWall, Die, BetweenFrames
<1>18. CASE HardWall
  BY <1>5, <1>18 DEF HardWall, Die
<1>19. CASE RecursionWall
  BY <1>5, <1>19 DEF RecursionWall, Die, BetweenFrames
<1>20. CASE UNCHANGED vars
  BY <1>3, <1>20 DEF vars
<1>21. QED
  BY <1>7, <1>8, <1>9, <1>10, <1>11, <1>12, <1>13, <1>14, <1>15, <1>16, <1>17, <1>18, <1>19,
     <1>20 DEF Next, Rest

(* The agent loop implements GovernedBudget: whatever its walls, pauses,   *)
(* rejected replies and dying tasks do, a turn that is over has recorded   *)
(* every governed statement it sent, and it never sends more than the cap. *)
THEOREM ImplementsThePromise == Spec => KeepsThePromise
<1>1. Init => Promise!Init
  <2> SUFFICES ASSUME Init PROVE Promise!Init
    OBVIOUS
  <2>1. Sent = {} /\ Phase = "running"
    BY DEF Init, Sent, Phase
  <2>2. Recorded(ledger, {"agent"}) = {}
    BY DEF Init, Recorded, Absent, Keys
  <2>3. QED
    BY <2>1, <2>2 DEF Promise!Init
<1>2. Init /\ []WhyThePromiseIsKept /\ []TypeOK /\ [][Next]_vars
        => Promise!Init /\ [][Promise!Next]_(Promise!vars)
  BY <1>1, PromiseStep, PTL
<1>3. QED
  BY <1>2, Invariance, PTL DEF Spec, KeepsThePromise, Promise!Spec
-----------------------------------------------------------------------------
(* The table and its statement are committed by the same super-step, and a *)
(* committed row is never replaced: its call is answered.                  *)
LEMMA TableStep ==
    TypeOK /\ TasksFollowCalls /\ RowsFollowSends /\ WhyTheTableHasItsStatement /\ [Next]_vars
        => WhyTheTableHasItsStatement'
<1> SUFFICES ASSUME TypeOK, TasksFollowCalls, RowsFollowSends, FetchedMeansPassed,
                    TableHasItsStatement, [Next]_vars
             PROVE  FetchedMeansPassed' /\ TableHasItsStatement'
  BY DEF WhyTheTableHasItsStatement
<1> USE CallsAreIds DEF FetchedMeansPassed, TableHasItsStatement
<1>1. ASSUME UNCHANGED <<tool, fetched, pendingRow>> PROVE FetchedMeansPassed'
  BY <1>1
<1>2. ASSUME UNCHANGED <<ledger, result_table>> PROVE TableHasItsStatement'
  BY <1>2 DEF Recorded
<1>3. CASE CallModel \/ ModelRaises
  BY <1>1, <1>2, <1>3 DEF CallModel, ModelRaises
<1>4. CASE ModelReplies
  <2>1. UNCHANGED <<ledger, result_table, fetched, pendingRow>>
    BY <1>4 DEF ModelReplies
  <2>2. QED
    BY <1>2, <1>4, <2>1, RepliesOnlyAdd
<1>5. CASE AfterModel
  <2>1. /\ UNCHANGED <<tool, fetched, pendingRow, result_table>>
        /\ ledger' = ledger \/ ledger' = [ledger EXCEPT ![CAP_LEDGER_KEY] = {cap_attempt}]
    BY <1>5 DEF AfterModel
  <2>2. \A c \in CallIds : c \in Keys /\ c # CAP_LEDGER_KEY
    BY BoundAssumption DEF Keys, CallIds, CAP_LEDGER_KEY
  <2>3. \A c \in CallIds : ledger'[c] = ledger[c]
    BY <2>1, <2>2 DEF TypeOK
  <2>4. QED
    BY <1>1, <2>1, <2>3 DEF Recorded
<1>6. CASE Dispatch
  BY <1>1, <1>2, <1>6 DEF Dispatch
<1>7. ASSUME NEW c \in CallIds, TaskStep(c) PROVE FetchedMeansPassed' /\ TableHasItsStatement'
  <2> USE DEF Runs, To, FinishesWith
  <2>1. ASSUME UNCHANGED <<tool, fetched, ledger, result_table>>, task[c] # "finished",
               NEW rows, pendingRow' = [pendingRow EXCEPT ![c] = rows]
        PROVE  FetchedMeansPassed' /\ TableHasItsStatement'
    <3>1. c \notin fetched
      BY <2>1 DEF RowsFollowSends
    <3>2. QED
      BY <1>2, <2>1, <3>1 DEF TypeOK
  <2>2. CASE \/ NoEffect(c) \/ SampleStarts(c) \/ SampleOutOfScope(c) \/ StatementSent(c)
             \/ AskRefused(c) \/ AskOpens(c) \/ AskLogs(c) \/ AskAnswered(c) \/ AskRejected(c)
             \/ HomeworkWriteFails(c) \/ CheckerMisused(c) \/ OrphanSends(c)
    BY <1>1, <1>2, <2>2 DEF NoEffect, SampleStarts, SampleOutOfScope, StatementSent, AskRefused,
       AskOpens, AskLogs, AskAnswered, AskRejected, HomeworkWriteFails, CheckerMisused, OrphanSends
  <2>3. CASE RunQueryStarts(c)
    BY <1>1, <1>2, <2>1, <2>3 DEF RunQueryStarts
  <2>4. CASE CheckerRaises(c) \/ StatementRefused(c)
    BY <2>1, <2>4 DEF CheckerRaises, StatementRefused
  <2>5. CASE StatementReturns(c)
    <3>1. /\ UNCHANGED <<tool, ledger, result_table>> /\ c \in DOMAIN tool
          /\ pendingRow' = [pendingRow EXCEPT ![c] = {Row(PathOf(c), "passed")}]
          /\ \/ UNCHANGED fetched
             \/ tool[c] = "run_query" /\ fetched' = fetched \cup {c}
      BY <2>5 DEF StatementReturns
    <3>2. c \notin fetched
      BY <2>5 DEF StatementReturns, RowsFollowSends
    <3>3. tool[c] = "run_query" => PathOf(c) = "agent"
      BY DEF PathOf
    <3>4. QED
      BY <1>2, <3>1, <3>2, <3>3 DEF TypeOK
  <2>6. QED
    BY <1>7, <2>2, <2>3, <2>4, <2>5 DEF TaskStep
<1>8. CASE CommitTools
  <2>1. /\ UNCHANGED <<tool, fetched, pendingRow>>
        /\ ledger' = merge_by_call(ledger, PendingLedger)
        /\ result_table' \subseteq result_table \cup (fetched \cap Pending)
    BY <1>8 DEF CommitTools, Newest
  <2>2. ASSUME NEW c \in CallIds
        PROVE  ledger'[c] = IF c \in Pending /\ pendingRow[c] \ {cap_attempt} # {}
                              THEN pendingRow[c] \ {cap_attempt} ELSE ledger[c]
    <3>1. c \in Keys /\ c # CAP_LEDGER_KEY /\ DOMAIN ledger = Keys
      BY BoundAssumption DEF Keys, CallIds, CAP_LEDGER_KEY, TypeOK
    <3>2. PendingLedger[c] = IF c \in Pending THEN pendingRow[c] \ {cap_attempt} ELSE {}
      BY <3>1 DEF PendingLedger
    <3>3. QED
      BY <2>1, <3>1, <3>2 DEF merge_by_call
  <2>3. ASSUME NEW c \in result_table PROVE c \in Recorded(ledger, {"agent"})'
    <3>1. c \in CallIds /\ \E r \in ledger[c] : r.path = "agent" /\ r.reason = "passed"
      BY DEF Recorded
    <3>2. c \notin Pending
      BY <3>1 DEF RowsFollowSends, Pending
    <3>3. QED
      BY <2>2, <3>1, <3>2 DEF Recorded
  <2>4. ASSUME NEW c \in fetched \cap Pending PROVE c \in Recorded(ledger, {"agent"})'
    <3>1. c \in CallIds /\ Row("agent", "passed") \in pendingRow[c] \ {cap_attempt}
      BY DEF Row, cap_attempt
    <3>2. Row("agent", "passed") \in ledger'[c]
      BY <2>2, <3>1
    <3>3. QED
      BY <3>1, <3>2 DEF Recorded, Row
  <2>5. QED
    BY <1>1, <2>1, <2>3, <2>4
<1>9. CASE Pause
  BY <1>1, <1>2, <1>9 DEF Pause
<1>10. ASSUME NEW caller \in Callers, NEW kind \in ReplyKinds, ResumeTurn(caller, kind)
       PROVE FetchedMeansPassed' /\ TableHasItsStatement'
  BY <1>1, <1>2, <1>10 DEF ResumeTurn
<1>11. CASE ClockExpires \/ SoftWall \/ HardWall \/ RecursionWall
  BY <1>1, <1>2, <1>11 DEF ClockExpires, SoftWall, HardWall, RecursionWall
<1>12. CASE UNCHANGED vars
  BY <1>1, <1>2, <1>12 DEF vars
<1>13. QED
  BY <1>3, <1>4, <1>5, <1>6, <1>7, <1>8, <1>9, <1>10, <1>11, <1>12 DEF Next, Rest

(* The table a turn returns was read by a statement on its ledger, for     *)
(* every number of parallel calls, pauses and deaths of the loop.          *)
THEOREM TablesAreAccountedFor == Spec => []TableHasItsStatement
<1>1. Init => WhyTheTableHasItsStatement
  BY DEF Init, WhyTheTableHasItsStatement, FetchedMeansPassed, TableHasItsStatement
<1>2. TypeOK /\ WhyThePromiseIsKept /\ WhyTheTableHasItsStatement /\ [Next]_vars
        => WhyTheTableHasItsStatement'
  BY TableStep DEF WhyThePromiseIsKept
<1>3. WhyTheTableHasItsStatement => TableHasItsStatement
  BY DEF WhyTheTableHasItsStatement
<1>4. QED
  BY <1>1, <1>2, <1>3, Invariance, PTL DEF Spec
-----------------------------------------------------------------------------
(* Nothing in a question changes, and the loop stays outside the wait.     *)
QuestionsUntouched ==
    /\ UNCHANGED <<pendingReply, clarified, latch, resume, words, homework>>
    /\ \A c \in CallIds : Asked(c)' <=> Asked(c)
    /\ \A c \in CallIds : task'[c] # task[c] =>
         pendingReply[c] = {} /\ task'[c] \notin {"asking", "paused", "answering"}

(* The rows say what they said, as long as no reply and no row changes and *)
(* whoever waits for a reply still asks what is listed.                    *)
LEMMA SameHomework ==
    ASSUME HomeworkFollowsTheQuestion, UNCHANGED <<pendingReply, homework>>,
           \A c \in CallIds : clarified'[c] \subseteq clarified[c] \cup pendingReply[c],
           \A c \in CallIds : words'[c] # words[c] => pendingReply[c] = {},
           \A c \in CallIds : task'[c] \in {"paused", "answering"} =>
             task[c] \in {"paused", "answering"} /\ words'[c] = words[c]
    PROVE  HomeworkFollowsTheQuestion'
<1>1. \A q \in CallIds : SettledBy(q)' = SettledBy(q)
  BY DEF SettledBy
<1>2. \A q \in CallIds : Newest(SettledBy(q))' = Newest(SettledBy(q))
  BY <1>1 DEF Newest
<1>3. \A c \in CallIds :
        /\ task'[c] \in {"paused", "answering"} => homework'[words'[c]] # "none"
        /\ \A r \in pendingReply'[c] \cup clarified'[c] : r.caller = Asker /\ Asker # Nobody
  BY DEF HomeworkFollowsTheQuestion
<1>4. \A q \in CallIds :
        IF SettledBy(q)' = {} THEN homework'[q] \in {"none", "open"}
        ELSE \A c \in Newest(SettledBy(q))' : \A r \in pendingReply'[c] : homework'[q] = r.kind
  BY <1>1, <1>2 DEF HomeworkFollowsTheQuestion
<1>5. QED
  BY <1>3, <1>4 DEF HomeworkFollowsTheQuestion

LEMMA UntouchedQuestions ==
    ASSUME WhyQuestionsStayApart, QuestionsUntouched,
           \/ pc' = pc
           \/ pc' \notin {"tools", "paused"} /\ pc # "paused" /\ pc # "done"
           \/ pc' = "done"
    PROVE  OneReplyAtATime' /\ OneQuestionOutstanding' /\ HomeworkFollowsTheQuestion'
<1> USE DEF WhyQuestionsStayApart, QuestionsUntouched
<1>1. OneReplyAtATime'
  BY DEF OneReplyAtATime
<1>2. OneQuestionOutstanding'
  BY DEF OneQuestionOutstanding
<1>3. HomeworkFollowsTheQuestion'
  BY SameHomework DEF HomeworkFollowsTheQuestion, Asked
<1>4. QED
  BY <1>1, <1>2, <1>3

(* No task is in a question once its call is answered or before it runs.   *)
LEMMA AskedMeansPending ==
    ASSUME TypeOK, TasksFollowCalls, NEW c \in CallIds, Asked(c)
    PROVE  c \in Pending /\ (pc \in {"tools", "paused"} \/ failure \in {"raised", "hard_wall"})
BY CallsAreIds DEF Asked, TasksFollowCalls, Pending

(* A reply waits with its task until the super-step commits, and is        *)
(* answered from then on.                                                  *)
LEMMA RepliedOrPending ==
    ASSUME TypeOK, TasksFollowCalls, OneReplyAtATime, NEW c \in CallIds, pendingReply[c] # {}
    PROVE  task[c] = "finished" /\ c \in DOMAIN tool /\ (c \notin Pending => c \in replied)
BY CallsAreIds DEF TasksFollowCalls, OneReplyAtATime, Pending

(* A step that reopens no task, takes no further reply and asks nothing.   *)
LEMMA OnlyClosing ==
    ASSUME RepliesComeInOrder, UNCHANGED <<tool, replied, pendingReply, words>>,
           \/ pc' = pc /\ UNCHANGED resume /\ UNCHANGED task
           \/ /\ pc' = pc /\ pc = "tools"
              /\ \A c \in CallIds : (Open(c)' => Open(c)) /\ (Asked(c)' => Asked(c))
              /\ resume' # {} => resume' = resume /\ UNCHANGED task
           \/ pc' = "done" /\ \A c \in CallIds : Asked(c)' => Asked(c)
    PROVE  RepliesComeInOrder'
BY DEF RepliesComeInOrder, Open, Asked, Pending

(* Replies come in the order of the calls, whatever the tasks of a         *)
(* super-step do beside each other.                                        *)
LEMMA OrderStep ==
    TypeOK /\ TasksFollowCalls /\ WhyQuestionsStayApart /\ [Next]_vars => RepliesComeInOrder'
<1> SUFFICES ASSUME TypeOK, TasksFollowCalls, WhyQuestionsStayApart, [Next]_vars
             PROVE  RepliesComeInOrder'
  OBVIOUS
<1>0. RepliesComeInOrder /\ OneReplyAtATime /\ OneQuestionOutstanding
  BY DEF WhyQuestionsStayApart
<1>1. CASE CallModel
  BY <1>0, <1>1 DEF CallModel, StepStarts, RepliesComeInOrder, Open, Asked, Pending
<1>2. CASE ModelReplies
  <2>1. /\ UNCHANGED <<replied, pendingReply, words, resume, task>>
        /\ pc = "calling" /\ pc' = "after_model"
    BY <1>2 DEF ModelReplies
  <2>2. replied = 1 .. Len(tool) /\ Len(tool) \in Nat /\ DOMAIN tool = 1 .. Len(tool)
    BY <2>1, CallsAreIds DEF TasksFollowCalls, TypeOK
  <2>3. \A d \in replied, c \in (DOMAIN tool') \ replied : d < c
    BY <1>2, <2>2, RepliesOnlyAdd DEF CallIds
  <2>4. resume = {}
    BY <1>0, <2>1 DEF RepliesComeInOrder
  <2>5. \A c \in CallIds : ~Asked(c)
    BY <2>1, AskedMeansPending DEF TasksFollowCalls, Pending
  <2>6. QED
    BY <2>1, <2>3, <2>4, <2>5 DEF RepliesComeInOrder, Asked, Pending
<1>3. CASE ModelRaises
  BY <1>0, <1>3, OnlyClosing DEF ModelRaises, Die, Asked
<1>4. CASE AfterModel
  <2>1. /\ UNCHANGED <<tool, task, pendingReply, words, resume>>
        /\ pc = "after_model"
        /\ pc' = "done" \/ (pc' = "dispatch" /\ replied' = replied)
    BY <1>4 DEF AfterModel, StepStarts
  <2>2. QED
    BY <1>0, <2>1 DEF RepliesComeInOrder, Asked, Pending
<1>5. CASE Dispatch
  <2>1. /\ UNCHANGED <<tool, replied, pendingReply, words, resume>>
        /\ pc = "dispatch" /\ pc' = "tools" /\ failure = "none"
        /\ task' = [c \in CallIds |-> IF c \in Pending THEN "ready" ELSE task[c]]
    BY <1>5 DEF Dispatch, StepStarts, TasksFollowCalls
  <2>2. \A c \in CallIds : ~Asked(c)'
    BY <2>1, AskedMeansPending DEF Asked
  <2>3. \A c \in Pending : task[c] = "none"
    BY <2>1 DEF TasksFollowCalls
  <2>4. \A c, d \in CallIds : c \in Pending /\ pendingReply[d] # {} => d < c
    BY <1>0, <2>1, <2>3, RepliedOrPending DEF RepliesComeInOrder
  <2>5. resume = {}
    BY <1>0, <2>1 DEF RepliesComeInOrder
  <2>6. QED
    BY <2>1, <2>2, <2>4, <2>5 DEF RepliesComeInOrder, Open, Pending
<1>6. ASSUME NEW c \in CallIds, TaskStep(c) PROVE RepliesComeInOrder'
  <2> USE DEF Runs, To, FinishesWith
  <2>0. pc = "tools" /\ resume # {} =>
          \E e \in CallIds : /\ Open(e) /\ tool[e] = "ask_user" /\ task[e] # "paused"
                             /\ \A d \in CallIds : Open(d) => d = e
    BY <1>0 DEF RepliesComeInOrder
  <2>1. ASSUME UNCHANGED <<pc, tool, replied, pendingReply, words, resume>>, pc = "tools",
               resume = {}, task[c] \in {"ready", "running", "sent"},
               NEW to \in {"running", "sent", "finished"}, task' = [task EXCEPT ![c] = to]
        PROVE  RepliesComeInOrder'
    <3>1. \A d \in CallIds : (Open(d)' => Open(d)) /\ (Asked(d)' => Asked(d))
      BY <2>1 DEF Open, Asked, Pending, TypeOK
    <3>2. QED
      BY <1>0, <2>1, <3>1, OnlyClosing
  <2>2. ASSUME pc = "tools", c \in DOMAIN tool, tool[c] # "ask_user", task[c] # "none",
               task[c] # "finished"
        PROVE  resume = {}
    <3>1. Open(c)
      BY <2>2 DEF Open, Pending, TasksFollowCalls
    <3>2. QED
      BY <2>0, <2>2, <3>1
  <2>3. CASE NoEffect(c)
    BY <2>1, <2>3 DEF NoEffect
  <2>4. CASE SampleStarts(c) \/ SampleOutOfScope(c)
    BY <2>1, <2>2, <2>4 DEF SampleStarts, SampleOutOfScope
  <2>5. CASE RunQueryStarts(c)
    BY <2>1, <2>2, <2>5 DEF RunQueryStarts
  <2>6. CASE CheckerRaises(c) \/ StatementRefused(c) \/ StatementSent(c) \/ StatementReturns(c)
    BY <2>1, <2>2, <2>6 DEF CheckerRaises, StatementRefused, StatementSent, StatementReturns,
       StatementTools
  <2>7. CASE CheckerMisused(c)
    <3>1. /\ UNCHANGED <<tool, replied, pendingReply, words>> /\ pc' = "done"
          /\ task' = [task EXCEPT ![c] = "finished"]
      BY <2>7 DEF CheckerMisused, Die
    <3>2. QED
      BY <1>0, <3>1, OnlyClosing DEF Asked, TypeOK
  <2>8. CASE AskRefused(c)
    <3>1. /\ UNCHANGED <<pc, tool, replied, pendingReply, words, resume>> /\ pc = "tools"
          /\ task[c] = "ready" /\ c \in DOMAIN tool /\ latch # {}
          /\ task' = [task EXCEPT ![c] = "finished"]
      BY <2>8 DEF AskRefused
    <3>2. PICK d \in CallIds : Asked(d)
      BY <1>0, <3>1 DEF OneQuestionOutstanding
    <3>3. Open(d) /\ Open(c) /\ d # c
      BY <3>1, <3>2, AskedMeansPending DEF Asked, Open, Pending, TasksFollowCalls
    <3>4. resume = {}
      BY <2>0, <3>1, <3>3
    <3>5. QED
      BY <2>1, <3>1, <3>4
  <2>9. CASE AskOpens(c)
    <3>1. PICK q \in Wordings(c) : words' = [words EXCEPT ![c] = q]
      BY <2>9 DEF AskOpens
    <3>2. /\ UNCHANGED <<pc, tool, replied, pendingReply, resume>> /\ pc = "tools"
          /\ task[c] = "ready" /\ tool[c] = "ask_user" /\ c \in DOMAIN tool
          /\ task' = [task EXCEPT ![c] = "asking"]
      BY <2>9 DEF AskOpens
    <3>3. q # 0
      BY <3>1, BoundAssumption DEF Wordings, CallIds
    <3>4. \A d \in CallIds : (Open(d)' <=> Open(d)) /\ (Asked(d)' => Asked(d) \/ d = c)
      BY <3>2 DEF Open, Asked, Pending, TypeOK
    <3>5. \A d \in CallIds : Asked(d)' => words'[d] # 0 /\ tool'[d] = "ask_user"
      BY <1>0, <3>1, <3>2, <3>3, <3>4 DEF RepliesComeInOrder, TypeOK
    <3>6. resume' # {} =>
            \E e \in CallIds : /\ Open(e)' /\ tool'[e] = "ask_user" /\ task'[e] # "paused"
                               /\ \A d \in CallIds : Open(d)' => d = e
      BY <2>0, <3>2, <3>4 DEF TypeOK
    <3>7. QED
      BY <1>0, <3>2, <3>4, <3>5, <3>6 DEF RepliesComeInOrder
  <2>10. CASE AskLogs(c)
    <3>1. /\ UNCHANGED <<pc, tool, replied, pendingReply, resume, words>> /\ pc = "tools"
          /\ task[c] = "asking"
          /\ \/ resume = {} /\ task' = [task EXCEPT ![c] = "paused"]
             \/ task' = [task EXCEPT ![c] = "answering"]
      BY <2>10 DEF AskLogs
    <3>2. \A d \in CallIds : (Open(d)' <=> Open(d)) /\ (Asked(d)' => Asked(d))
      BY <3>1 DEF Open, Asked, Pending, TypeOK
    <3>3. resume' # {} =>
            \E e \in CallIds : /\ Open(e)' /\ tool'[e] = "ask_user" /\ task'[e] # "paused"
                               /\ \A d \in CallIds : Open(d)' => d = e
      BY <2>0, <3>1, <3>2 DEF TypeOK
    <3>4. QED
      BY <1>0, <3>1, <3>2, <3>3 DEF RepliesComeInOrder
  <2>11. CASE AskAnswered(c)
    <3>1. /\ UNCHANGED <<pc, tool, replied, words>> /\ pc = "tools" /\ task[c] = "answering"
          /\ resume # {} /\ resume' = {}
          /\ task' = [task EXCEPT ![c] = "finished"]
          /\ pendingReply' = [pendingReply EXCEPT ![c] = resume]
      BY <2>11 DEF AskAnswered, ResumeAuthorised
    <3>2. Open(c)
      BY <3>1, AskedMeansPending DEF Asked, Open
    <3>3. \A d \in CallIds : ~Open(d)'
      BY <2>0, <3>1, <3>2 DEF Open, Pending, TypeOK
    <3>4. \A d \in CallIds : Asked(d)' => Asked(d)
      BY <3>1 DEF Asked, TypeOK
    <3>5. QED
      BY <1>0, <3>1, <3>3, <3>4 DEF RepliesComeInOrder
  <2>12. CASE AskRejected(c) \/ HomeworkWriteFails(c)
    BY <1>0, <2>12, OnlyClosing DEF AskRejected, HomeworkWriteFails, Die, Asked
  <2>13. CASE OrphanSends(c)
    <3>1. /\ UNCHANGED <<tool, replied, pendingReply, words>> /\ pc' = "done"
          /\ task' = [task EXCEPT ![c] = "sent"]
      BY <2>13 DEF OrphanSends
    <3>2. QED
      BY <1>0, <3>1, OnlyClosing DEF Asked, TypeOK
  <2>14. QED
    BY <1>6, <2>3, <2>4, <2>5, <2>6, <2>7, <2>8, <2>9, <2>10, <2>11, <2>12, <2>13 DEF TaskStep
<1>7. CASE CommitTools
  <2>1. /\ UNCHANGED <<tool, task, pendingReply, resume, words>>
        /\ pc = "tools" /\ pc' = "model"
        /\ \A c \in Pending : task[c] = "finished"
    BY <1>7 DEF CommitTools
  <2>2. resume = {}
    BY <1>0, <2>1 DEF RepliesComeInOrder, Open
  <2>3. QED
    BY <1>0, <2>1, <2>2 DEF RepliesComeInOrder, Asked
<1>8. CASE Pause
  <2>1. /\ UNCHANGED <<tool, replied, task, pendingReply, resume, words>>
        /\ pc = "tools" /\ pc' = "paused"
        /\ \A c \in Pending : task[c] \in {"finished", "paused"}
        /\ \E c \in Pending : task[c] = "paused"
    BY <1>8 DEF Pause
  <2>2. resume = {}
    BY <1>0, <2>1 DEF RepliesComeInOrder, Open
  <2>3. QED
    BY <1>0, <2>1, <2>2 DEF RepliesComeInOrder, Asked, Open, Pending
<1>9. ASSUME NEW caller \in Callers, NEW kind \in ReplyKinds, ResumeTurn(caller, kind)
      PROVE  RepliesComeInOrder'
  <2>1. /\ UNCHANGED <<tool, replied, pendingReply, words>>
        /\ pc = "paused" /\ pc' = "tools"
        /\ task' = [c \in CallIds |-> IF task[c] = "paused" THEN "ready" ELSE task[c]]
    BY <1>9 DEF ResumeTurn, NewExecution
  <2>2. PICK c \in Pending : task[c] = "paused"
    BY <1>0, <2>1 DEF RepliesComeInOrder
  <2>3. c \in CallIds /\ Asked(c)
    BY <2>2, CallsAreIds DEF Pending, Asked
  <2>4. \A d \in CallIds : Open(d) => d = c
    <3>1. \A d \in CallIds : Open(d) => Asked(d)
      BY <1>0, <2>1 DEF RepliesComeInOrder, Open, Asked
    <3>2. QED
      BY <1>0, <2>1, <2>3, <3>1 DEF OneQuestionOutstanding
  <2>5. \A d \in CallIds : (Open(d)' <=> Open(d)) /\ ~Asked(d)'
    BY <1>0, <2>1 DEF Open, Asked, Pending, OneReplyAtATime, TypeOK
  <2>6. Open(c)' /\ tool'[c] = "ask_user" /\ task'[c] # "paused"
    BY <1>0, <2>1, <2>2, <2>3, <2>5 DEF RepliesComeInOrder, Open
  <2>7. QED
    BY <1>0, <2>1, <2>3, <2>4, <2>5, <2>6 DEF RepliesComeInOrder
<1>10. CASE ClockExpires
  BY <1>0, <1>10, OnlyClosing DEF ClockExpires
<1>11. CASE SoftWall \/ HardWall \/ RecursionWall
  BY <1>0, <1>11, OnlyClosing DEF SoftWall, HardWall, RecursionWall, Die, Asked
<1>12. CASE UNCHANGED vars
  BY <1>0, <1>12, OnlyClosing DEF vars
<1>13. QED
  BY <1>1, <1>2, <1>3, <1>4, <1>5, <1>6, <1>7, <1>8, <1>9, <1>10, <1>11, <1>12 DEF Next, Rest

(* The newest of the calls a question was settled by, once one later than  *)
(* all of them settles it again.                                           *)
LEMMA NewestIsLast ==
    ASSUME NEW c \in CallIds, NEW calls \in SUBSET CallIds, \A d \in calls : d <= c
    PROVE  Newest(calls \cup {c}) = {c}
<1>1. \A d \in calls : c <= d => d = c
  BY DEF CallIds
<1>2. c <= c
  BY DEF CallIds
<1>3. QED
  BY <1>1, <1>2 DEF Newest

LEMMA QuestionStep ==
    TypeOK /\ TasksFollowCalls /\ WhyQuestionsStayApart /\ [Next]_vars => WhyQuestionsStayApart'
<1> SUFFICES ASSUME TypeOK, TasksFollowCalls, WhyQuestionsStayApart, [Next]_vars
             PROVE  OneReplyAtATime' /\ OneQuestionOutstanding' /\ HomeworkFollowsTheQuestion'
  BY OrderStep DEF WhyQuestionsStayApart
<1> DEFINE Goal3 == OneReplyAtATime' /\ OneQuestionOutstanding' /\ HomeworkFollowsTheQuestion'
<1>0. OneReplyAtATime /\ RepliesComeInOrder /\ OneQuestionOutstanding /\ HomeworkFollowsTheQuestion
  BY DEF WhyQuestionsStayApart
<1>1. ASSUME UNCHANGED <<task, pendingReply, clarified, latch, resume, words, homework>>
      PROVE  QuestionsUntouched
  BY <1>1 DEF QuestionsUntouched, Asked
<1>2. CASE CallModel \/ ModelReplies \/ ModelRaises
  BY <1>1, <1>2, UntouchedQuestions DEF CallModel, ModelReplies, ModelRaises, StepStarts, Die
<1>3. CASE AfterModel
  <2>1. /\ UNCHANGED <<task, pendingReply, clarified, latch, resume, words, homework>>
        /\ pc = "after_model" /\ pc' \in {"done", "dispatch"}
    BY <1>3 DEF AfterModel, StepStarts
  <2>2. QED
    BY <1>1, <2>1, UntouchedQuestions
<1>4. CASE Dispatch
  <2>1. /\ UNCHANGED <<pendingReply, clarified, latch, resume, words, homework>>
        /\ pc = "dispatch" /\ pc' = "tools" /\ failure = "none"
        /\ task' = [c \in CallIds |-> IF c \in Pending THEN "ready" ELSE task[c]]
    BY <1>4 DEF Dispatch, StepStarts, TasksFollowCalls
  <2>2. \A c \in CallIds : ~Asked(c) /\ ~Asked(c)'
    BY <2>1, AskedMeansPending DEF Asked
  <2>3. \A c \in Pending : task[c] = "none"
    BY <2>1 DEF TasksFollowCalls
  <2>4. OneReplyAtATime'
    BY <1>0, <2>1, <2>3 DEF OneReplyAtATime
  <2>5. OneQuestionOutstanding'
    BY <1>0, <2>1, <2>2 DEF OneQuestionOutstanding
  <2>6. HomeworkFollowsTheQuestion'
    BY <1>0, <2>1, SameHomework
  <2>7. QED
    BY <2>4, <2>5, <2>6
<1>5. ASSUME NEW c \in CallIds, TaskStep(c) PROVE Goal3
  <2> USE DEF Runs, To, FinishesWith
  <2>1. ASSUME UNCHANGED <<pendingReply, clarified, latch, resume, words, homework>>,
               pc' = pc \/ pc' = "done", task[c] \in {"ready", "running", "sent"},
               NEW to \in {"running", "sent", "finished"}, task' = [task EXCEPT ![c] = to]
        PROVE  Goal3
    <3>1. pendingReply[c] = {}
      BY <1>0, <2>1 DEF OneReplyAtATime
    <3>2. QuestionsUntouched
      BY <2>1, <3>1 DEF QuestionsUntouched, Asked, TypeOK
    <3>3. QED
      BY <2>1, <3>2, UntouchedQuestions
  <2>2. CASE NoEffect(c) \/ SampleStarts(c) \/ SampleOutOfScope(c) \/ AskRefused(c)
    BY <2>1, <2>2 DEF NoEffect, SampleStarts, SampleOutOfScope, AskRefused
  <2>3. CASE RunQueryStarts(c)
    BY <2>1, <2>3 DEF RunQueryStarts
  <2>4. CASE \/ CheckerRaises(c) \/ CheckerMisused(c) \/ StatementRefused(c)
             \/ StatementSent(c) \/ StatementReturns(c) \/ OrphanSends(c)
    BY <2>1, <2>4 DEF CheckerRaises, CheckerMisused, StatementRefused, StatementSent,
       StatementReturns, OrphanSends, Die
  <2>5. CASE AskOpens(c)
    <3>1. /\ UNCHANGED <<pc, pendingReply, clarified, resume, homework>> /\ pc = "tools"
          /\ latch = {} /\ latch' = {c} /\ task[c] = "ready"
          /\ task' = [task EXCEPT ![c] = "asking"]
          /\ \E q : words' = [words EXCEPT ![c] = q]
      BY <2>5 DEF AskOpens
    <3>2. \A d \in CallIds : ~Asked(d) /\ (Asked(d)' <=> d = c)
      BY <1>0, <3>1 DEF OneQuestionOutstanding, Asked, TypeOK
    <3>3. OneReplyAtATime'
      BY <1>0, <3>1 DEF OneReplyAtATime, TypeOK
    <3>4. OneQuestionOutstanding'
      BY <3>1, <3>2 DEF OneQuestionOutstanding
    <3>5. pendingReply[c] = {} /\ \A d \in CallIds \ {c} : words'[d] = words[d] /\ task'[d] = task[d]
      BY <1>0, <3>1 DEF OneReplyAtATime, TypeOK
    <3>6. task'[c] = "asking"
      BY <3>1 DEF TypeOK
    <3>7. HomeworkFollowsTheQuestion'
      BY <1>0, <3>1, <3>5, <3>6, SameHomework
    <3>8. QED
      BY <3>3, <3>4, <3>7
  <2>6. CASE AskLogs(c)
    <3>1. /\ UNCHANGED <<pc, pendingReply, clarified, latch, resume, words>> /\ pc = "tools"
          /\ task[c] = "asking"
          /\ homework' = [homework EXCEPT ![words[c]] = IF @ = "none" THEN "open" ELSE @]
          /\ \/ task' = [task EXCEPT ![c] = "paused"]
             \/ task' = [task EXCEPT ![c] = "answering"]
      BY <2>6 DEF AskLogs
    <3>2. \A d \in CallIds : Asked(d)' <=> Asked(d)
      BY <3>1 DEF Asked, TypeOK
    <3>3. words[c] \in CallIds
      BY <1>0, <3>1, BoundAssumption DEF RepliesComeInOrder, Asked, TypeOK, CallIds
    <3>4. OneReplyAtATime'
      BY <1>0, <3>1 DEF OneReplyAtATime, TypeOK
    <3>5. OneQuestionOutstanding'
      BY <1>0, <3>1, <3>2 DEF OneQuestionOutstanding
    <3>6. \A q \in CallIds : /\ homework'[q] = homework[q] \/ (homework[q] = "none" /\ homework'[q] = "open")
                             /\ q = words[c] => homework'[q] # "none"
      BY <3>1, <3>3 DEF TypeOK
    <3>7. HomeworkFollowsTheQuestion'
      <4>1. \A d \in CallIds \ {c} : task'[d] = task[d]
        BY <3>1 DEF TypeOK
      <4>2. \A d \in CallIds : Asked(d) => words[d] \in CallIds
        BY <1>0, BoundAssumption DEF RepliesComeInOrder, Asked, TypeOK, CallIds
      <4>3. \A d \in CallIds :
              /\ task'[d] \in {"paused", "answering"} => homework'[words'[d]] # "none"
              /\ \A r \in pendingReply'[d] \cup clarified'[d] : r.caller = Asker /\ Asker # Nobody
        BY <1>0, <3>1, <3>3, <3>6, <4>1, <4>2 DEF HomeworkFollowsTheQuestion, Asked
      <4>4. \A q \in CallIds : SettledBy(q)' = SettledBy(q)
        BY <3>1 DEF SettledBy
      <4>5. \A q \in CallIds : Newest(SettledBy(q))' = Newest(SettledBy(q))
        BY <4>4 DEF Newest
      <4>6. ASSUME NEW q \in CallIds
            PROVE  IF SettledBy(q)' = {} THEN homework'[q] \in {"none", "open"}
                   ELSE \A d \in Newest(SettledBy(q))' : \A r \in pendingReply'[d] : homework'[q] = r.kind
        <5>1. CASE homework'[q] = homework[q]
          BY <1>0, <3>1, <4>4, <4>5, <5>1 DEF HomeworkFollowsTheQuestion
        <5>2. CASE homework[q] = "none" /\ homework'[q] = "open"
          <6>1. \A d \in CallIds : \A r \in pendingReply[d] : r.kind # "none"
            <7>1. \A d \in CallIds : pendingReply[d] \subseteq Answers
              BY DEF TypeOK
            <7>2. QED
              BY <7>1 DEF Answers, ReplyKinds
          <6>2. SettledBy(q) # {} => \A d \in Newest(SettledBy(q)) : pendingReply[d] = {}
            BY <1>0, <5>2, <6>1 DEF HomeworkFollowsTheQuestion, Newest, SettledBy
          <6>3. QED
            BY <3>1, <4>4, <4>5, <5>2, <6>2
        <5>3. QED
          BY <3>6, <5>1, <5>2
      <4>7. QED
        BY <4>3, <4>6 DEF HomeworkFollowsTheQuestion
    <3>8. QED
      BY <3>4, <3>5, <3>7
  <2>7. CASE AskAnswered(c)
    <3>1. /\ UNCHANGED <<pc, clarified, words>> /\ pc = "tools" /\ task[c] = "answering"
          /\ latch' = latch \ {c} /\ resume' = {}
          /\ task' = [task EXCEPT ![c] = "finished"]
          /\ pendingReply' = [pendingReply EXCEPT ![c] = resume]
          /\ Closes(c)
      BY <2>7 DEF AskAnswered
    <3>2. PICK reply \in resume : reply.caller = Asker /\ Asker # Nobody
      BY <2>7 DEF AskAnswered, ResumeAuthorised
    <3>3. resume = {reply} /\ reply.kind \in ReplyKinds
      BY <1>0, <3>2 DEF OneReplyAtATime, TypeOK, Answers
    <3>4. words[c] \in CallIds
      BY <1>0, <3>1, BoundAssumption DEF RepliesComeInOrder, Asked, TypeOK, CallIds
    <3>5. /\ homework'[words[c]] = IF reply.kind = "declined" THEN homework[words[c]] ELSE reply.kind
          /\ \A q \in CallIds \ {words[c]} : homework'[q] = homework[q]
      BY <3>1, <3>3, <3>4 DEF Closes, TypeOK, ReplyKinds
    <3>6. OneReplyAtATime'
      BY <1>0, <3>1 DEF OneReplyAtATime, TypeOK
    <3>7. OneQuestionOutstanding'
      BY <1>0, <3>1 DEF OneQuestionOutstanding, Asked, TypeOK
    <3>8. /\ pendingReply'[c] = {reply} /\ pendingReply[c] = {} /\ task'[c] = "finished"
          /\ \A d \in CallIds \ {c} : pendingReply'[d] = pendingReply[d] /\ task'[d] = task[d]
      BY <1>0, <3>1, <3>3 DEF OneReplyAtATime, TypeOK
    <3>9. HomeworkFollowsTheQuestion'
      <4>1. \A d \in CallIds \ {c} : task'[d] \notin {"paused", "answering"}
        BY <1>0, <3>1, <3>8 DEF OneQuestionOutstanding, Asked
      <4>2. \A d \in CallIds :
              /\ task'[d] \in {"paused", "answering"} => homework'[words'[d]] # "none"
              /\ \A r \in pendingReply'[d] \cup clarified'[d] : r.caller = Asker /\ Asker # Nobody
        BY <1>0, <3>1, <3>2, <3>8, <4>1 DEF HomeworkFollowsTheQuestion
      <4>3. \A q \in CallIds :
              SettledBy(q)' = IF q = words[c] /\ reply.kind # "declined" THEN SettledBy(q) \cup {c}
                            ELSE SettledBy(q)
        <5>1. \A q \in CallIds : \A d \in CallIds \ {c} : d \in SettledBy(q)' <=> d \in SettledBy(q)
          BY <3>1, <3>8 DEF SettledBy
        <5>2. \A q \in CallIds : /\ c \notin SettledBy(q)
                                 /\ c \in SettledBy(q)' <=> q = words[c] /\ reply.kind # "declined"
          BY <3>1, <3>8 DEF SettledBy
        <5>3. \A q \in CallIds : SettledBy(q) \subseteq CallIds /\ SettledBy(q)' \subseteq CallIds
          BY DEF SettledBy
        <5>4. ASSUME NEW q \in CallIds
              PROVE  SettledBy(q)' = IF q = words[c] /\ reply.kind # "declined"
                                     THEN SettledBy(q) \cup {c} ELSE SettledBy(q)
          <6>1. \A d \in CallIds : d \in SettledBy(q)' <=>
                  d \in SettledBy(q) \/ (d = c /\ q = words[c] /\ reply.kind # "declined")
            BY <5>1, <5>2
          <6>2. QED
            BY <5>3, <6>1
        <5>5. QED
          BY <5>4
      <4>4. \A q \in CallIds : \A d \in SettledBy(q) : d \in CallIds /\ d # c /\ d <= c
        <5>1. Open(c)
          BY <3>1, AskedMeansPending DEF Asked, Open
        <5>2. \A d \in CallIds : pendingReply[d] # {} => d < c
          BY <1>0, <3>1, <5>1 DEF RepliesComeInOrder
        <5>3. QED
          BY <5>2 DEF SettledBy, CallIds
      <4>5. ASSUME NEW q \in CallIds
            PROVE  IF SettledBy(q)' = {} THEN homework'[q] \in {"none", "open"}
                   ELSE \A d \in Newest(SettledBy(q))' : \A r \in pendingReply'[d] : homework'[q] = r.kind
        <5>1. Newest(SettledBy(q))' = Newest(SettledBy(q)')
          BY DEF Newest
        <5>2. CASE q = words[c] /\ reply.kind # "declined"
          <6>1. Newest(SettledBy(q)') = {c}
            BY <4>3, <4>4, <5>2, NewestIsLast DEF SettledBy
          <6>2. QED
            BY <3>5, <3>8, <4>3, <5>1, <5>2, <6>1
        <5>3. CASE ~(q = words[c] /\ reply.kind # "declined")
          <6>1. homework'[q] = homework[q] /\ SettledBy(q)' = SettledBy(q)
            BY <3>5, <4>3, <5>3
          <6>2. \A d \in Newest(SettledBy(q)) : pendingReply'[d] = pendingReply[d]
            BY <3>8, <4>4 DEF Newest
          <6>3. QED
            BY <1>0, <5>1, <6>1, <6>2 DEF HomeworkFollowsTheQuestion
        <5>4. QED
          BY <5>2, <5>3
      <4>6. QED
        BY <4>2, <4>5 DEF HomeworkFollowsTheQuestion
    <3>10. QED
      BY <3>6, <3>7, <3>9
  <2>8. CASE AskRejected(c)
    <3>1. /\ UNCHANGED <<task, pendingReply, clarified, latch, words, homework>>
          /\ pc' = "done" /\ resume' = {}
      BY <2>8 DEF AskRejected, Die
    <3>2. HomeworkFollowsTheQuestion'
      BY <1>0, <3>1, SameHomework
    <3>3. QED
      BY <1>0, <3>1, <3>2 DEF OneReplyAtATime, OneQuestionOutstanding
  <2>9. CASE HomeworkWriteFails(c)
    BY <1>1, <2>9, UntouchedQuestions DEF HomeworkWriteFails, Die
  <2>10. QED
    BY <1>5, <2>2, <2>3, <2>4, <2>5, <2>6, <2>7, <2>8, <2>9 DEF TaskStep
<1>6. CASE CommitTools
  <2>1. /\ UNCHANGED <<task, pendingReply, latch, resume, words, homework>>
        /\ pc = "tools" /\ pc' = "model"
        /\ clarified' = merge_by_call(clarified, PendingReplies)
    BY <1>6 DEF CommitTools
  <2>2. \A c \in CallIds : clarified'[c] \subseteq clarified[c] \cup pendingReply[c]
    BY <2>1 DEF merge_by_call, PendingReplies, TypeOK
  <2>3. OneReplyAtATime' /\ OneQuestionOutstanding'
    BY <1>0, <2>1 DEF OneReplyAtATime, OneQuestionOutstanding, Asked
  <2>4. HomeworkFollowsTheQuestion'
    BY <1>0, <2>1, <2>2, SameHomework
  <2>5. QED
    BY <2>3, <2>4
<1>7. CASE Pause
  <2>1. /\ UNCHANGED <<task, pendingReply, clarified, latch, resume, words, homework>>
        /\ pc = "tools" /\ pc' = "paused"
        /\ \A c \in Pending : task[c] \in {"finished", "paused"}
    BY <1>7 DEF Pause
  <2>2. \A c \in CallIds : task[c] \notin {"asking", "answering"}
    BY <2>1, AskedMeansPending DEF Asked
  <2>3. OneReplyAtATime'
    BY <1>0, <2>1, <2>2 DEF OneReplyAtATime
  <2>4. OneQuestionOutstanding'
    BY <1>0, <2>1 DEF OneQuestionOutstanding, Asked
  <2>5. HomeworkFollowsTheQuestion'
    BY <1>0, <2>1, SameHomework
  <2>6. QED
    BY <2>3, <2>4, <2>5
<1>8. ASSUME NEW caller \in Callers, NEW kind \in ReplyKinds, ResumeTurn(caller, kind)
      PROVE Goal3
  <2>1. /\ UNCHANGED <<pendingReply, clarified, words, homework>>
        /\ pc = "paused" /\ pc' = "tools" /\ latch' = {}
        /\ resume' = {[caller |-> caller, kind |-> kind]}
        /\ task' = [c \in CallIds |-> IF task[c] = "paused" THEN "ready" ELSE task[c]]
    BY <1>8 DEF ResumeTurn, NewExecution
  <2>2. \A c \in CallIds : ~Asked(c)'
    BY <1>0, <2>1 DEF OneReplyAtATime, Asked
  <2>3. OneReplyAtATime'
    BY <1>0, <2>1 DEF OneReplyAtATime
  <2>4. OneQuestionOutstanding'
    BY <2>1, <2>2 DEF OneQuestionOutstanding
  <2>5. HomeworkFollowsTheQuestion'
    BY <1>0, <2>1, <2>2, SameHomework DEF Asked
  <2>6. QED
    BY <2>3, <2>4, <2>5
<1>9. CASE ClockExpires
  BY <1>1, <1>9, UntouchedQuestions DEF ClockExpires
<1>10. CASE SoftWall \/ HardWall \/ RecursionWall
  BY <1>1, <1>10, UntouchedQuestions DEF SoftWall, HardWall, RecursionWall, Die
<1>11. CASE UNCHANGED vars
  BY <1>1, <1>11, UntouchedQuestions DEF vars
<1>12. QED
  BY <1>2, <1>3, <1>4, <1>5, <1>6, <1>7, <1>8, <1>9, <1>10, <1>11 DEF Next, Rest

LEMMA QuestionInit == Init => WhyQuestionsStayApart
BY DEF Init, Absent, Asked, WhyQuestionsStayApart, OneReplyAtATime, RepliesComeInOrder,
       OneQuestionOutstanding, HomeworkFollowsTheQuestion, SettledBy, Pending, Open

LEMMA QuestionInvariance == Spec => []WhyQuestionsStayApart
<1>1. TypeOK /\ WhyThePromiseIsKept /\ WhyQuestionsStayApart /\ [Next]_vars
        => WhyQuestionsStayApart'
  BY QuestionStep DEF WhyThePromiseIsKept
<1>2. QED
  BY <1>1, QuestionInit, Invariance, PTL DEF Spec

(* However many tool calls of one message ask in parallel, at most one     *)
(* question is outstanding and the latch holds exactly that one.           *)
THEOREM QuestionsStayApart == Spec => []OneQuestionOutstanding
<1>1. WhyQuestionsStayApart => OneQuestionOutstanding
  BY DEF WhyQuestionsStayApart
<1>2. QED
  BY <1>1, QuestionInvariance, PTL

(* Whoever resumes the turn and with whatever reply, the admin's list and  *)
(* the transcript say what the caller who was asked replied.               *)
THEOREM HomeworkIsTrue == Spec => []HomeworkFollowsTheQuestion
<1>1. WhyQuestionsStayApart => HomeworkFollowsTheQuestion
  BY DEF WhyQuestionsStayApart
<1>2. QED
  BY <1>1, QuestionInvariance, PTL
=============================================================================
