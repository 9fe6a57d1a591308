--------------------------- MODULE GovernedBudget ---------------------------
(***************************************************************************)
(* What a turn promises about the statements it sends to the engine under  *)
(* governance, with no loop, no tools and no clock:                        *)
(*                                                                         *)
(*   - at most Budget statements are sent, however often a human is asked; *)
(*   - nothing is sent while the turn waits for a human;                   *)
(*   - statements are recorded together, at a barrier;                     *)
(*   - a turn that is over has recorded every statement it sent;           *)
(*   - only a turn that was cut may leave one out, and only a statement    *)
(*     already under way may still reach the engine after the cut.         *)
(***************************************************************************)
EXTENDS Naturals, FiniteSets

CONSTANTS Calls, Budget

VARIABLES
    phase,      \* running, waiting for a human, over, or cut
    sent,       \* calls whose statement the engine received
    recorded    \* calls whose statement the ledger claims

vars == <<phase, sent, recorded>>

Init == phase = "running" /\ sent = {} /\ recorded = {}

Send(c) ==
    /\ phase \in {"running", "cut"}
    /\ c \notin sent /\ Cardinality(sent) < Budget
    /\ sent' = sent \cup {c}
    /\ UNCHANGED <<phase, recorded>>

Record ==
    /\ phase = "running"
    /\ recorded' = sent
    /\ UNCHANGED <<phase, sent>>

Wait   == phase = "running" /\ phase' = "waiting" /\ UNCHANGED <<sent, recorded>>
Resume == phase = "waiting" /\ phase' = "running" /\ UNCHANGED <<sent, recorded>>
Finish == phase = "running" /\ recorded = sent /\ phase' = "over" /\ UNCHANGED <<sent, recorded>>
Cut    == phase = "running" /\ phase' = "cut" /\ UNCHANGED <<sent, recorded>>

Next ==
    \/ \E c \in Calls : Send(c)
    \/ Record \/ Wait \/ Resume \/ Finish \/ Cut

Spec == Init /\ [][Next]_vars

(* A statement that was recorded stays recorded, and one that was sent     *)
(* stays sent: merge_by_call drops nothing.                                *)
NothingIsForgotten == [][sent \subseteq sent' /\ recorded \subseteq recorded']_vars
=============================================================================
