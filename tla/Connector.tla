------------------------------- MODULE Connector -------------------------------
(***************************************************************************)
(* The Postgres connector the statements of one process share              *)
(* (datasource/postgres.py).  It caches one connection, dialled by whoever  *)
(* finds none, and decides from the driver's error whether a failure is    *)
(* the statement's (QueryError, the model may rewrite it) or the           *)
(* connection's (ConnectionError, the handle is dropped).  The decision is *)
(* taken after the statement, and reads the cache again: another thread    *)
(* may have dropped the handle, and dialled the next one, in between.       *)
(***************************************************************************)
EXTENDS Naturals, WorkerThreads

CONSTANT
    MaxHandles    \* bound: connections dialled

VARIABLES
    _conn,        \* the cached handle, 0 when there is none
    dialled,       \* handles dialled so far: 1 .. dialled
    dead,         \* handles the server or a close() has ended
    reported,     \* handles a ConnectionError was raised about
    call          \* thread -> what its execute() is doing

connectorVars == <<_conn, dialled, dead, reported, call>>

Handles == 1 .. MaxHandles
NoCall == [at |-> "idle", handle |-> 0, error |-> "none"]
(***************************************************************************)
(* What the driver raises.  class08 stands for the classes 08, 53 and 57;  *)
(* operational is an OperationalError without a SQLSTATE; data is a fault  *)
(* of the statement with a SQLSTATE of another class (a division by zero), *)
(* or with none.                                                           *)
(***************************************************************************)
ConnectionErrors == {"class08", "operational"}
StatementErrors == {"class42", "data"}
Verdicts == {"QueryError", "ConnectionError"}

ConnectorInit ==
    /\ _conn = 0 /\ dialled = 0
    /\ dead = {} /\ reported = {}
    /\ call = [t \in Threads |-> NoCall]

At(t, where) == call[t].at = where
Moves(t, where, handle, error) ==
    call' = [call EXCEPT ![t] = [at |-> where, handle |-> handle, error |-> error]]

\* _discard: clears the cache, then closes whatever handle was in it.
_discard ==
    /\ _conn' = 0
    /\ dead' = dead \cup ({_conn} \ {0})

\* execute begins: _connect finds a handle, or goes to open one.
Connects(t) ==
    /\ At(t, "idle")
    /\ IF _conn # 0 THEN Moves(t, "executing", _conn, "none")
       ELSE Moves(t, "dialling", 0, "none")
    /\ UNCHANGED <<_conn, dialled, dead, reported>>

Dials(t) ==
    /\ At(t, "dialling")
    /\ \/ /\ dialled < MaxHandles
          /\ dialled' = dialled + 1
          /\ _conn' = dialled + 1
          /\ Moves(t, "executing", dialled + 1, "none")
          /\ UNCHANGED <<dead, reported>>
       \* connecting: infrastructure whatever the code
       \/ /\ _discard
          /\ Moves(t, "ConnectionError", 0, "class08")
          /\ UNCHANGED <<dialled, reported>>

\* The statement runs to its rows or to an exception.
Executes(t) ==
    /\ At(t, "executing")
    /\ IF call[t].handle \in dead
       THEN \E error \in ConnectionErrors : Moves(t, "failed", call[t].handle, error)
       ELSE \/ Moves(t, "idle", 0, "none")
            \/ \E error \in StatementErrors : Moves(t, "failed", call[t].handle, error)
    /\ UNCHANGED <<_conn, dialled, dead, reported>>

_connection_is_unusable_by_handle(error) == _conn \in dead
_connection_is_unusable(error) == _conn \in dead \/ error = "operational"

_raise_classified(t) ==
    LET error == call[t].error IN
    /\ At(t, "failed")
    /\ \/ /\ error = "class42"
          /\ Moves(t, "QueryError", call[t].handle, error)
          /\ UNCHANGED <<_conn, dead, reported>>
       \/ /\ error # "class42"
          /\ error = "class08" \/ _connection_is_unusable(error)
          /\ _discard
          /\ reported' = reported \cup {call[t].handle}
          /\ Moves(t, "ConnectionError", call[t].handle, error)
       \/ /\ error \notin {"class42", "class08"} /\ ~_connection_is_unusable(error)
          /\ Moves(t, "QueryError", call[t].handle, error)
          /\ UNCHANGED <<_conn, dead, reported>>
    /\ UNCHANGED dialled

\* The tool reads the verdict.
Returns(t) ==
    /\ call[t].at \in Verdicts
    /\ call' = [call EXCEPT ![t] = NoCall]
    /\ UNCHANGED <<_conn, dialled, dead, reported>>

\* The server restarts, or the network drops: every handle is gone.
Blip ==
    /\ dead # 1 .. dialled
    /\ dead' = 1 .. dialled
    /\ UNCHANGED <<_conn, dialled, reported, call>>

ConnectorStep(t) ==
    Connects(t) \/ Dials(t) \/ Executes(t) \/ _raise_classified(t) \/ Returns(t)

ConnectorTypeOK ==
    /\ _conn \in {0} \cup Handles /\ dialled \in 0 .. MaxHandles
    /\ dead \subseteq Handles /\ reported \subseteq Handles
    /\ call \in [Threads -> [at : {"idle", "dialling", "executing", "failed"} \cup Verdicts,
                             handle : {0} \cup Handles,
                             error : {"none"} \cup ConnectionErrors \cup StatementErrors]]

(***************************************************************************)
(* A lost connection is never the model's fault: a statement that failed   *)
(* because its handle was gone is not reported as bad SQL, even when       *)
(* another thread has already replaced the handle ("one blip made every    *)
(* remaining question read as 'the model wrote bad SQL'").                 *)
(***************************************************************************)
BlipIsNotAQueryError ==
    \A t \in Threads : At(t, "QueryError") => call[t].error \in StatementErrors

(***************************************************************************)
(* The next call reconnects: a dead handle a ConnectionError was raised    *)
(* about is not in the cache.                                              *)
(***************************************************************************)
ReportedHandleIsGone == _conn \notin reported \cap dead
=============================================================================
