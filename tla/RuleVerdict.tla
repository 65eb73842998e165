---------------------------- MODULE RuleVerdict ----------------------------
(***************************************************************************)
(* What artifact rule verification promises its caller: one verdict, which *)
(* depends on the items and their links alone, and which never changes.    *)
(***************************************************************************)
CONSTANTS Inputs,      \* set of [items, links] a verification may be given
          Accepts(_)   \* does this input deserve to pass?

VARIABLES input, status

Init == input \in Inputs /\ status = "working"

Decide ==
  /\ status = "working"
  /\ status' = IF Accepts(input) THEN "passed" ELSE "failed"
  /\ UNCHANGED input

Safety == Init /\ [][Decide]_<<input, status>>
=============================================================================
