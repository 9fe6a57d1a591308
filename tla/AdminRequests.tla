--------------------------- MODULE AdminRequests ---------------------------
(***************************************************************************)
(* What the admin's and the reader's routes share: the worker threads they *)
(* run in and the process around them.  A scene bounds a behaviour: the    *)
(* threads that may be inside a handler at once, how many handlers of each *)
(* file are entered, the turns that are served and the process ends.       *)
(***************************************************************************)
EXTENDS Integers, Sequences, FiniteSets

CONSTANTS Callers, Scenes

ASSUME ScenesAssumption ==
    /\ IsFiniteSet(Callers)
    /\ Scenes \subseteq
         [callers : SUBSET Callers, jobs : Nat, reports : Nat, turns : Nat, crashes : Nat]

VARIABLES
    scene,    \* the scene of this behaviour; it never changes
    served    \* turns served so far, which numbers them

(* Nobody else writes, and no write is cut short.                          *)
OneWriter == Cardinality(scene.callers) = 1 /\ scene.crashes = 0
=============================================================================
