-------------------------- MODULE ThresholdPromise --------------------------
(***************************************************************************)
(* What the link stages of in_toto_verify promise its later stages: one    *)
(* link per step or an exception.  Functionaries publish signed links at   *)
(* any time; verification accepts once, and then with artifacts that, for  *)
(* every step, threshold different authorized functionaries have published *)
(* under their signatures.  No files, dicts, phases or order.              *)
(***************************************************************************)
EXTENDS ThresholdOps

CONSTANT Layouts   \* layouts verification may be called with

VARIABLES layout,      \* the argument
          published,   \* step name -> links published for it so far
          outcome,     \* "working", "passed" or "failed"
          evidence     \* step name -> the payload used for it, once passed

vars == <<layout, published, outcome, evidence>>

Names == {layout.steps[i].name : i \in DOMAIN layout.steps}

\* threshold functionaries authorized for the step stand behind the payload.
Backed(st, payload) ==
  LET vouchers == {m \in AuthorizedMains(layout, st) :
                     \E doc \in published[st.name] :
                       doc.payload = payload /\ Signed(layout, m, doc)}
  IN  Cardinality(vouchers) >= st.threshold

Init ==
  /\ layout \in Layouts
  /\ published \in [StepNames -> SUBSET Doc]
  /\ outcome = "working" /\ evidence = << >>

Publish ==
  /\ \E n \in StepNames :
       /\ published[n] \subseteq published'[n]
       /\ published' = [published EXCEPT ![n] = published'[n]]
  /\ UNCHANGED <<layout, outcome, evidence>>

Accept ==
  /\ outcome = "working" /\ outcome' = "passed"
  /\ DOMAIN evidence' = Names
  /\ \A i \in DOMAIN layout.steps : Backed(layout.steps[i], evidence'[layout.steps[i].name])
  /\ UNCHANGED <<layout, published>>

Reject ==
  /\ outcome = "working" /\ outcome' = "failed"
  /\ UNCHANGED <<layout, published, evidence>>

Next == Publish \/ Accept \/ Reject

Safety == Init /\ [][Next]_vars
=============================================================================
