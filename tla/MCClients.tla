------------------------------ MODULE MCClients -------------------------------
(***************************************************************************)
(* What one process keeps of the services it calls: the vectors of the     *)
(* embedding gateway, and the database handle and bearer token its threads *)
(* share.  The two parts share no state, so each is explored with the      *)
(* other where it starts.                                                  *)
(*                                                                         *)
(* Four summaries, so that three probes leave one out.  Two threads, which *)
(* are interchangeable, as are assets and embedding spaces.                *)
(***************************************************************************)
EXTENDS VectorSpace, Backends, TLC

CONSTANTS c1, c2

MCTexts == {"t1", "t2", "t3", "t4"}
MCRank  == "t1" :> 1 @@ "t2" :> 2 @@ "t3" :> 3 @@ "t4" :> 4

MCSymmetry == Permutations(Indexed) \cup Permutations(Spaces) \cup Permutations({c1, c2})

\* One of the vector cache's initial states, for the backends to run beside.
NothingBuilt ==
    /\ VectorInit /\ gateway = CHOOSE s \in Spaces : TRUE
    /\ corpus = [a \in Indexed |-> "t1"]

MCInit == VectorInit /\ BackendsInit

MCNext ==
    \/ BackendsInit /\ VectorNext /\ UNCHANGED backendVars
    \/ NothingBuilt /\ BackendsNext /\ UNCHANGED vectorVars

MCSpec == MCInit /\ [][MCNext]_<<vectorVars, backendVars>>
=============================================================================
