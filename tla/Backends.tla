------------------------------- MODULE Backends --------------------------------
(***************************************************************************)
(* The two clients every thread of a process shares while it answers: the  *)
(* model's bearer token and the database connection.  A thread is in one   *)
(* call at a time: a model call, or a statement.                           *)
(***************************************************************************)
EXTENDS Connector, ProxyToken

backendVars == <<connectorVars, tokenVars>>

InStatement(t) == call[t] # NoCall
InModelCall(t) == request[t] # NoRequest

BackendsInit == ConnectorInit /\ TokenInit

Statement(t) == ~InModelCall(t) /\ ConnectorStep(t) /\ UNCHANGED tokenVars
ModelCall(t) == ~InStatement(t) /\ TokenStep(t) /\ UNCHANGED connectorVars
World == \/ (Blip /\ UNCHANGED tokenVars)
         \/ ((Expires \/ Revokes) /\ UNCHANGED connectorVars)

BackendsNext ==
    \/ \E t \in Threads : Statement(t) \/ ModelCall(t)
    \/ World

BackendsSpec == BackendsInit /\ [][BackendsNext]_backendVars
=============================================================================
