--------------------------- MODULE QuestionQueue ---------------------------
(***************************************************************************)
(* What the admin's list of questions promises, with no file, no threads   *)
(* and no corpus: a question is put on the list once and never leaves it;  *)
(* it can be answered, deferred or, if nobody answered it, cancelled, one  *)
(* question at a time; it never becomes unasked again; and only a question *)
(* somebody answered counts as converted, for good.                        *)
(***************************************************************************)
CONSTANT Questions

VARIABLES status, converted

vars == <<status, converted>>

Init == status = [q \in Questions |-> "none"] /\ converted = {}

(* One question, or the new ones of a scan.                                *)
Raise(new) ==
    /\ \A q \in new : status[q] = "none"
    /\ status' = [q \in Questions |-> IF q \in new THEN "open" ELSE status[q]]
    /\ UNCHANGED converted

Becomes(q, s) == status' = [status EXCEPT ![q] = s] /\ UNCHANGED converted

Answer(q) == Becomes(q, "answered")

Defer(q) == status[q] # "none" /\ Becomes(q, "deferred")

Cancel(q) == status[q] \in {"open", "deferred", "cancelled"} /\ Becomes(q, "cancelled")

Convert(q) ==
    /\ status[q] = "answered" /\ q \notin converted
    /\ converted' = converted \cup {q}
    /\ UNCHANGED status

Next ==
    \/ \E new \in SUBSET Questions : Raise(new)
    \/ \E q \in Questions : Answer(q) \/ Defer(q) \/ Cancel(q) \/ Convert(q)

Spec == Init /\ [][Next]_vars
=============================================================================
