------------------------------ MODULE TurnLog ------------------------------
(***************************************************************************)
(* The audit reader of served turns: a scan of the threads' own state,     *)
(* newest thread first, that stops once it has the turns it was asked for. *)
(* Turns are numbered as they are served, so a turn's number is also when  *)
(* it was asked and when its thread was last updated.                      *)
(***************************************************************************)
EXTENDS AdminRequests, FiniteSetsExt

CONSTANTS
    Conversations,     \* threads
    MaxTurnsRetained,  \* turns a thread's state keeps (25)
    MaxThreads         \* _MAX_THREADS, threads one request reads (1000)

VARIABLE turns         \* each thread's retained turns, oldest first

TurnLogInit == turns = [t \in Conversations |-> << >>]

(* record_node: the oldest rows beyond the cap are dropped.                *)
record_node(t) ==
    /\ served < scene.turns
    /\ served' = served + 1
    /\ \E outcome \in {"refused", "answered"} :
         LET rows == Append(turns[t], [id |-> served + 1, outcome |-> outcome])
             from == IF Len(rows) > MaxTurnsRetained THEN 2 ELSE 1
         IN turns' = [turns EXCEPT ![t] = SubSeq(rows, from, Len(rows))]
-----------------------------------------------------------------------------
TurnsOf(t) == {turns[t][i] : i \in DOMAIN turns[t]}

UpdatedAt(t) == IF turns[t] = << >> THEN 0 ELSE turns[t][Len(turns[t])].id

Newer(t) == {u \in Conversations : UpdatedAt(u) > UpdatedAt(t)}

_threads == {t \in Conversations : Cardinality(Newer(t)) < MaxThreads}

(* Stopping before the thread that would be over the limit.                *)
_collect(limit) ==
    UNION {TurnsOf(t) : t \in {u \in _threads :
        MapThenSumSet(LAMBDA v : Len(turns[v]), Newer(u)) < limit}}

(* Of what was collected, the newest.                                      *)
list_turns(limit) ==
    LET rows == _collect(limit) IN {e \in rows : Cardinality({f \in rows : f.id > e.id}) < limit}

(* The thread whose state holds the turn, as a set.                        *)
get_turn(id) == {t \in _threads : \E e \in TurnsOf(t) : e.id = id}
=============================================================================
