----------------------------- MODULE ItemRules -----------------------------
(***************************************************************************)
(* verify_all_item_rules and verify_item_rules (verifylib): for each item  *)
(* (step or inspection) the material rules, then the product rules, are    *)
(* applied in order to a queue that starts as all its materials (products).*)
(* DISALLOW and REQUIRE raise RuleVerificationError, whose message is made *)
(* of the module global RULE_TRACE.                                        *)
(***************************************************************************)
EXTENDS RuleOps

CONSTANT Inputs   \* the [items, links] a verification is called with

Item == [name : Names, expected_materials : Seq(Rule), expected_products : Seq(Rule)]

\* Every item has a link: load_links_for_layout and run_all_inspections see to it.
ASSUME InputsAssumption ==
  \A in \in Inputs :
    /\ in.items \in Seq(Item)
    /\ in.links \in Links
    /\ \A i \in 1 .. Len(in.items) : in.items[i].name \in DOMAIN in.links

VARIABLES
  input,            \* items and links, the arguments: never assigned
  item,             \* index of the item at hand
  source_type,      \* which of its two rule lists
  rule,             \* index of the rule at hand; 0 before the queue is filled
  artifacts_queue,  \* artifacts not consumed yet
  RULE_TRACE,       \* global: item, source type and the queue after each rule
  status            \* "working", "passed" or "failed" (an exception)

vars == <<input, item, source_type, rule, artifacts_queue, RULE_TRACE, status>>

Items == input.items
ThisItem == Items[item]
ThisLink == input.links[ThisItem.name]
Rules == IF source_type = "materials" THEN ThisItem.expected_materials
                                      ELSE ThisItem.expected_products

Init ==
  /\ input \in Inputs
  /\ item = 1
  /\ source_type = "materials"
  /\ rule = 0
  /\ artifacts_queue = {}
  /\ RULE_TRACE = [source_name |-> "unset", source_type |-> "unset", trace |-> << >>]
  /\ status = "working"

\* (mutant) RULE_TRACE is not cleared between the calls of verify_item_rules.
BeginItemKeepTrace ==
  /\ status = "working" /\ item <= Len(Items) /\ rule = 0
  /\ artifacts_queue' = DOMAIN ThisLink[source_type]
  /\ RULE_TRACE' = [RULE_TRACE EXCEPT !.source_name = ThisItem.name,
                                      !.source_type = source_type]
  /\ rule' = 1
  /\ UNCHANGED <<input, item, source_type, status>>

\* verify_item_rules is entered: fill the queue, clear and re-populate RULE_TRACE.
BeginItem ==
  /\ status = "working" /\ item <= Len(Items) /\ rule = 0
  /\ artifacts_queue' = DOMAIN ThisLink[source_type]
  /\ RULE_TRACE' = [source_name |-> ThisItem.name, source_type |-> source_type,
                    trace |-> << >>]
  /\ rule' = 1
  /\ UNCHANGED <<input, item, source_type, status>>

AtRule(types) ==
  /\ status = "working" /\ item <= Len(Items)
  /\ rule \in 1 .. Len(Rules)
  /\ Rules[rule].rule_type \in types

\* (mutant) The rule after the one just applied is skipped.
ConsumeSkipping(consumed) ==
  /\ artifacts_queue' = artifacts_queue \ consumed
  /\ RULE_TRACE' = [RULE_TRACE EXCEPT !.trace =
       Append(@, [rule |-> Rules[rule], queue |-> artifacts_queue \ consumed])]
  /\ rule' = rule + 2
  /\ UNCHANGED <<input, item, source_type, status>>

\* The end of the loop's body: consume, then append to the trace.
Consume(consumed) ==
  /\ artifacts_queue' = artifacts_queue \ consumed
  /\ RULE_TRACE' = [RULE_TRACE EXCEPT !.trace =
       Append(@, [rule |-> Rules[rule], queue |-> artifacts_queue \ consumed])]
  /\ rule' = rule + 1
  /\ UNCHANGED <<input, item, source_type, status>>

Raise ==
  /\ status' = "failed"
  /\ UNCHANGED <<input, item, source_type, rule, artifacts_queue, RULE_TRACE>>

ApplyMatch ==
  /\ AtRule({"match"})
  /\ Consume(VerifyMatchRule(Rules[rule], artifacts_queue,
                             ThisLink[source_type], input.links))

ApplyCreate ==
  /\ AtRule({"create"})
  /\ Consume(VerifyCreateRule(Rules[rule], artifacts_queue,
                              ThisLink.materials, ThisLink.products))

ApplyDelete ==
  /\ AtRule({"delete"})
  /\ Consume(VerifyDeleteRule(Rules[rule], artifacts_queue,
                              ThisLink.materials, ThisLink.products))

ApplyModify ==
  /\ AtRule({"modify"})
  /\ Consume(VerifyModifyRule(Rules[rule], artifacts_queue,
                              ThisLink.materials, ThisLink.products))

ApplyAllow ==
  /\ AtRule({"allow"})
  /\ Consume(VerifyAllowRule(Rules[rule], artifacts_queue))

ApplyDisallow ==
  /\ AtRule({"disallow"})
  /\ IF DisallowRaises(Rules[rule], artifacts_queue) THEN Raise ELSE Consume({})

ApplyRequire ==
  /\ AtRule({"require"})
  /\ IF RequireRaises(Rules[rule], artifacts_queue) THEN Raise ELSE Consume({})

\* verify_item_rules returns: on to the product rules, or to the next item.
EndItem ==
  /\ status = "working" /\ item <= Len(Items) /\ rule = Len(Rules) + 1
  /\ rule' = 0
  /\ IF source_type = "materials"
     THEN source_type' = "products" /\ UNCHANGED item
     ELSE source_type' = "materials" /\ item' = item + 1
  /\ UNCHANGED <<input, artifacts_queue, RULE_TRACE, status>>

\* verify_all_item_rules returns.
Return ==
  /\ status = "working" /\ item = Len(Items) + 1
  /\ status' = "passed"
  /\ UNCHANGED <<input, item, source_type, rule, artifacts_queue, RULE_TRACE>>

Next ==
  \/ BeginItem \/ EndItem \/ Return
  \/ ApplyMatch \/ ApplyCreate \/ ApplyDelete \/ ApplyModify \/ ApplyAllow
  \/ ApplyDisallow \/ ApplyRequire

Spec == Init /\ [][Next]_vars

-----------------------------------------------------------------------------
(* Properties *)

\* The variables keep their types: verify_item_rules never runs past its rule
\* lists and its queue only holds paths.
TypeOK ==
  /\ input \in Inputs
  /\ item \in 1 .. Len(Items) + 1
  /\ source_type \in SourceTypes
  /\ rule \in Nat
  /\ item <= Len(Items) => rule <= Len(Rules) + 1
  /\ artifacts_queue \subseteq Paths
  /\ RULE_TRACE \in [source_name : Names \cup {"unset"}, source_type : SourceTypes \cup {"unset"},
                     trace : Seq([rule : Rule, queue : SUBSET Paths])]
  /\ status \in {"working", "passed", "failed"}

\* The firewall metaphor of verify_item_rules' docstring, made precise: at every
\* rule the queue is exactly the artifacts that no earlier rule accounts for,
\* looking at each artifact on its own.  In particular what a rule consumes does
\* not depend on which other artifacts are queued.
QueueIsUnsettled ==
  item <= Len(Items) /\ rule > 0 =>
    artifacts_queue = Unsettled(Rules, rule, ThisLink, source_type, input.links)

\* What the error message shows is true: RULE_TRACE describes the item and the
\* source type at hand, and one entry per rule applied before the current one,
\* with the queue as that rule left it.
TraceIsTrue ==
  item <= Len(Items) /\ rule > 0 =>
    /\ RULE_TRACE.source_name = ThisItem.name
    /\ RULE_TRACE.source_type = source_type
    /\ Len(RULE_TRACE.trace) = rule - 1
    /\ \A j \in 1 .. rule - 1 :
         RULE_TRACE.trace[j] =
           [rule |-> Rules[j],
            queue |-> Unsettled(Rules, j + 1, ThisLink, source_type, input.links)]

\* A failure is blamed on the first objection in layout order: all items before,
\* the material rules before the product rules, the rules before the one at hand.
BlamesFirstObjection ==
  status = "failed" =>
    /\ \A i \in 1 .. item - 1 : ItemHolds(Items[i], input.links)
    /\ source_type = "products" =>
         RulesHold(ThisItem.expected_materials, ThisLink, "materials", input.links)
    /\ \A j \in 1 .. rule - 1 : RuleHolds(Rules, j, ThisLink, source_type, input.links)
    /\ ~RuleHolds(Rules, rule, ThisLink, source_type, input.links)

\* The chain of custody a layout author writes rules for: when verification
\* passes, an item whose material rules are "MATCH <p> WITH PRODUCTS FROM s, then
\* DISALLOW <p>" used only files that s reports as its products, unchanged.
ChainOfCustody ==
  status = "passed" =>
    \A i \in 1 .. Len(Items) :
      LET rs == Items[i].expected_materials
          materials == input.links[Items[i].name].materials
      IN  (/\ Len(rs) = 2
           /\ rs[1].rule_type = "match" /\ rs[1].dest_type = "products"
           /\ DOMAIN Strip[rs[1].source_prefix] = Paths
           /\ rs[1].dest_prefix = rs[1].source_prefix
           /\ rs[2].rule_type = "disallow")
          => \A p \in DOMAIN materials \cap rs[2].pattern :
               /\ rs[1].dest_name \in DOMAIN input.links
               /\ LET products == input.links[rs[1].dest_name].products
                  IN  p \in DOMAIN products /\ products[p] = materials[p]

\* The verdict is the one RuleVerdict promises: a function of the items and links
\* alone (of neither queue nor trace), given once and never taken back.
Accepts(in) == \A i \in 1 .. Len(in.items) : ItemHolds(in.items[i], in.links)

Verdict == INSTANCE RuleVerdict WITH
  Inputs <- Inputs, Accepts <- Accepts, input <- input, status <- status
VerdictSafety == Verdict!Safety

(***************************************************************************)
(* The inductive invariant: besides the queue, what the verification has   *)
(* established so far, item by item and rule by rule.                      *)
(***************************************************************************)
SoFar ==
  /\ \A i \in 1 .. item - 1 : ItemHolds(Items[i], input.links)
  /\ item <= Len(Items) =>
       /\ source_type = "products" =>
            RulesHold(ThisItem.expected_materials, ThisLink, "materials", input.links)
       /\ \A j \in 1 .. rule - 1 :
            RuleHolds(Rules, j, ThisLink, source_type, input.links)
  /\ status = "passed" => item = Len(Items) + 1
  /\ status = "failed" => /\ item <= Len(Items)
                          /\ rule \in 1 .. Len(Rules)
                          /\ ~RuleHolds(Rules, rule, ThisLink, source_type, input.links)

IInv == TypeOK /\ QueueIsUnsettled /\ SoFar
=============================================================================
