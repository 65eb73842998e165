-------------------------- MODULE ItemRulesProofs --------------------------
(***************************************************************************)
(* Theorems about ItemRules, for all rules, items, links, paths and hashes.*)
(***************************************************************************)
EXTENDS ItemRules, TLAPS

-----------------------------------------------------------------------------
(* What one rule consumes. *)

\* Joining undoes stripping, because stripping a prefix is injective.
LEMMA JoinStrip ==
  ASSUME NEW pre \in Prefixes, NEW x \in DOMAIN Strip[pre]
  PROVE  Join(pre, Strip[pre][x]) = x
BY StripAssumption DEF Join

\* A joined path is a path that strips to the given one, or no path at all.
LEMMA JoinDomain ==
  ASSUME NEW pre \in Prefixes, NEW p, Join(pre, p) \in Paths
  PROVE  Join(pre, p) \in DOMAIN Strip[pre] /\ Strip[pre][Join(pre, p)] = p
BY StripAssumption DEF Join

\* Strip, glob, compare and re-join, as verify_match_rule does for a whole queue,
\* consumes exactly the artifacts that have a counterpart, each seen by itself.
LEMMA MatchPointwise ==
  ASSUME NEW r, r.source_prefix \in Prefixes, r.dest_prefix \in Prefixes,
         NEW links, r.dest_name \in DOMAIN links =>
                      DOMAIN links[r.dest_name][r.dest_type] \subseteq Paths,
         NEW source, NEW queue
  PROVE  \A x : x \in VerifyMatchRule(r, queue, source, links)
                  <=> x \in queue /\ HasCounterpart(r, x, source, links)
<1> DEFINE dest == links[r.dest_name][r.dest_type]
           strip == Strip[r.source_prefix]
           corresponds(p) ==
             /\ Join(r.dest_prefix, p) \in DOMAIN dest
             /\ source[Join(r.source_prefix, p)] = dest[Join(r.dest_prefix, p)]
<1>1. ASSUME r.dest_name \notin DOMAIN links
      PROVE  /\ VerifyMatchRule(r, queue, source, links) = {}
             /\ \A x : ~HasCounterpart(r, x, source, links)
  BY <1>1 DEF VerifyMatchRule, HasCounterpart
<1>2. CASE r.dest_name \in DOMAIN links
  <2>1. ASSUME NEW x \in queue \cap DOMAIN strip
        PROVE  corresponds(strip[x]) <=>
                 \E d \in DOMAIN dest \cap DOMAIN Strip[r.dest_prefix] :
                   Strip[r.dest_prefix][d] = strip[x] /\ dest[d] = source[x]
    <3>1. Join(r.source_prefix, strip[x]) = x
      BY JoinStrip
    <3>2. ASSUME corresponds(strip[x])
          PROVE  \E d \in DOMAIN dest \cap DOMAIN Strip[r.dest_prefix] :
                   Strip[r.dest_prefix][d] = strip[x] /\ dest[d] = source[x]
      <4>1. Join(r.dest_prefix, strip[x]) \in Paths
        BY <1>2, <3>2
      <4>2. /\ Join(r.dest_prefix, strip[x]) \in DOMAIN Strip[r.dest_prefix]
            /\ Strip[r.dest_prefix][Join(r.dest_prefix, strip[x])] = strip[x]
        BY <4>1, JoinDomain
      <4>3. dest[Join(r.dest_prefix, strip[x])] = source[x]
        BY <3>1, <3>2
      <4>4. Join(r.dest_prefix, strip[x]) \in DOMAIN dest
        BY <3>2
      <4> QED BY <4>2, <4>3, <4>4
    <3>3. ASSUME NEW d \in DOMAIN dest \cap DOMAIN Strip[r.dest_prefix],
                 Strip[r.dest_prefix][d] = strip[x], dest[d] = source[x]
          PROVE  corresponds(strip[x])
      <4>1. Join(r.dest_prefix, strip[x]) = d
        BY <3>3, JoinStrip
      <4> QED BY <4>1, <3>1, <3>3
    <3> QED BY <3>2, <3>3
  <2>2. VerifyMatchRule(r, queue, source, links)
          = {Join(r.source_prefix, p) :
               p \in {f \in {strip[x] : x \in queue \cap DOMAIN strip} \cap r.pattern :
                        corresponds(f)}}
    BY <1>2 DEF VerifyMatchRule
  <2>3. \A x \in queue \cap DOMAIN strip : Join(r.source_prefix, strip[x]) = x
    BY JoinStrip
  <2>4. VerifyMatchRule(r, queue, source, links)
          = {x \in queue \cap DOMAIN strip : strip[x] \in r.pattern /\ corresponds(strip[x])}
    <3> HIDE DEF corresponds, strip
    <3> QED BY <2>2, <2>3
  <2>5. {x \in queue : HasCounterpart(r, x, source, links)}
          = {x \in queue \cap DOMAIN strip : strip[x] \in r.pattern /\ corresponds(strip[x])}
    <3>1. ASSUME NEW x \in queue
          PROVE  HasCounterpart(r, x, source, links) <=>
                   x \in DOMAIN strip /\ strip[x] \in r.pattern /\ corresponds(strip[x])
      <4>1. CASE x \in DOMAIN strip
        <5> HIDE DEF corresponds
        <5> QED BY <1>2, <2>1, <4>1 DEF HasCounterpart
      <4>2. CASE x \notin DOMAIN strip
        BY <4>2 DEF HasCounterpart
      <4> QED BY <4>1, <4>2
    <3> HIDE DEF corresponds, strip
    <3> QED BY <3>1
  <2> QED BY <2>4, <2>5
<1> QED BY <1>1, <1>2

-----------------------------------------------------------------------------
(* Types. *)

LEMMA ArtifactsDomain ==
  ASSUME NEW links \in Links, NEW n \in DOMAIN links, NEW t \in SourceTypes
  PROVE  links[n] \in Link /\ links[n][t] \in Artifacts /\ DOMAIN links[n][t] \subseteq Paths
<1>1. links[n] \in Link
  BY DEF Links
<1>2. links[n][t] \in Artifacts
  BY <1>1 DEF Link, SourceTypes
<1>3. DOMAIN links[n][t] \subseteq Paths
  BY <1>2 DEF Artifacts
<1> QED BY <1>1, <1>2, <1>3

LEMMA Typing ==
  ASSUME TypeOK, item <= Len(Items)
  PROVE  /\ Items \in Seq(Item) /\ input.links \in Links
         /\ item \in 1 .. Len(Items)
         /\ ThisItem \in Item /\ ThisItem.name \in DOMAIN input.links
         /\ Rules \in Seq(Rule) /\ Len(Rules) \in Nat
         /\ DOMAIN ThisLink[source_type] \subseteq Paths
<1>1. /\ input \in Inputs /\ Items \in Seq(Item) /\ input.links \in Links
      /\ \A i \in 1 .. Len(Items) : Items[i].name \in DOMAIN input.links
  BY InputsAssumption DEF TypeOK, Items
<1>2. item \in 1 .. Len(Items)
  <2>1. Len(Items) \in Nat
    BY <1>1
  <2>2. item \in 1 .. Len(Items) + 1
    BY DEF TypeOK
  <2> QED BY <2>1, <2>2
<1>3. ThisItem \in Item /\ ThisItem.name \in DOMAIN input.links
  BY <1>1, <1>2 DEF ThisItem
<1>4. Rules \in Seq(Rule) /\ Len(Rules) \in Nat
  BY <1>3 DEF Rules, Item
<1>5. DOMAIN ThisLink[source_type] \subseteq Paths
  BY <1>1, <1>3, ArtifactsDomain DEF ThisLink, TypeOK
<1> QED BY <1>1, <1>2, <1>3, <1>4, <1>5

LEMMA MatchFields ==
  ASSUME NEW r \in Rule, r.rule_type = "match"
  PROVE  r.source_prefix \in Prefixes /\ r.dest_prefix \in Prefixes
           /\ r.dest_type \in SourceTypes
BY DEF Rule, GlobTypes

-----------------------------------------------------------------------------
(* The queue, rule by rule. *)

\* One more rule leaves what the rules before it left, minus what it settles.
LEMMA UnsettledStep ==
  ASSUME NEW rules, NEW i \in Nat \ {0}, NEW link, NEW st, NEW links
  PROVE  Unsettled(rules, i + 1, link, st, links)
           = Unsettled(rules, i, link, st, links)
               \ {p \in Unsettled(rules, i, link, st, links) :
                     Settles(rules[i], p, link, st, links)}
<1>1. \A j : j \in 1 .. (i + 1) - 1 <=> j \in 1 .. i - 1 \/ j = i
  OBVIOUS
<1> QED BY <1>1 DEF Unsettled

LEMMA UnsettledStart ==
  ASSUME NEW rules, NEW link, NEW st, NEW links
  PROVE  Unsettled(rules, 1, link, st, links) = DOMAIN link[st]
BY DEF Unsettled

\* A rule that checks settles nothing.
LEMMA ChecksSettleNothing ==
  ASSUME NEW r, r.rule_type \in {"disallow", "require"}, NEW p, NEW link, NEW st, NEW links
  PROVE  ~Settles(r, p, link, st, links)
BY DEF Settles

\* What the state of the verification at rule i + 1 is, given its state at rule i.
LEMMA ConsumeKeepsIInv ==
  ASSUME IInv, NEW types, AtRule(types),
         NEW consumed,
         consumed = {p \in artifacts_queue :
                       Settles(Rules[rule], p, ThisLink, source_type, input.links)},
         Consume(consumed),
         RuleHolds(Rules, rule, ThisLink, source_type, input.links)
  PROVE  IInv'
<1> USE DEF IInv
<1>1. /\ status = "working" /\ item <= Len(Items) /\ rule \in 1 .. Len(Rules)
      /\ Len(Rules) \in Nat /\ Rules[rule] \in Rule
  BY Typing DEF AtRule
<1>2. /\ Items' = Items /\ ThisItem' = ThisItem /\ ThisLink' = ThisLink
      /\ Rules' = Rules
  BY DEF Consume, Items, ThisItem, ThisLink, Rules
<1>3. TypeOK'
  <2>1. RULE_TRACE' \in [source_name : Names \cup {"unset"}, source_type : SourceTypes \cup {"unset"},
                         trace : Seq([rule : Rule, queue : SUBSET Paths])]
    <3>1. [rule |-> Rules[rule], queue |-> artifacts_queue \ consumed]
            \in [rule : Rule, queue : SUBSET Paths]
      BY <1>1 DEF TypeOK
    <3>2. /\ RULE_TRACE.trace \in Seq([rule : Rule, queue : SUBSET Paths])
          /\ RULE_TRACE.source_name \in Names \cup {"unset"}
          /\ RULE_TRACE.source_type \in SourceTypes \cup {"unset"}
      BY DEF TypeOK
    <3>3. Append(RULE_TRACE.trace, [rule |-> Rules[rule], queue |-> artifacts_queue \ consumed])
            \in Seq([rule : Rule, queue : SUBSET Paths])
      <4> DEFINE Entry == [rule : Rule, queue : SUBSET Paths]
                 e == [rule |-> Rules[rule], queue |-> artifacts_queue \ consumed]
      <4>1. e \in Entry /\ RULE_TRACE.trace \in Seq(Entry)
        BY <3>1, <3>2
      <4> HIDE DEF Entry, e
      <4>2. Append(RULE_TRACE.trace, e) \in Seq(Entry)
        BY <4>1
      <4> QED BY <4>2 DEF Entry, e
    <3>4. RULE_TRACE' = [source_name |-> RULE_TRACE.source_name,
                         source_type |-> RULE_TRACE.source_type,
                         trace |-> Append(RULE_TRACE.trace,
                           [rule |-> Rules[rule], queue |-> artifacts_queue \ consumed])]
      BY DEF Consume, TypeOK
    <3> QED BY <3>2, <3>3, <3>4
  <2>2. /\ item' = item /\ rule' = rule + 1 /\ status' = status /\ input' = input
        /\ source_type' = source_type /\ artifacts_queue' = artifacts_queue \ consumed
    BY DEF Consume
  <2>3. /\ input \in Inputs /\ item \in 1 .. Len(Items) + 1 /\ source_type \in SourceTypes
        /\ artifacts_queue \subseteq Paths
    BY DEF TypeOK
  <2>4. rule + 1 \in Nat /\ rule + 1 <= Len(Rules) + 1
    BY <1>1
  <2> QED BY <1>1, <1>2, <2>1, <2>2, <2>3, <2>4 DEF TypeOK
<1>4. QueueIsUnsettled'
  <2>1. artifacts_queue = Unsettled(Rules, rule, ThisLink, source_type, input.links)
    BY <1>1 DEF QueueIsUnsettled
  <2>2. artifacts_queue' = Unsettled(Rules, rule + 1, ThisLink, source_type, input.links)
    BY <1>1, <2>1, UnsettledStep DEF Consume
  <2> QED BY <1>1, <1>2, <2>2 DEF QueueIsUnsettled, Consume
<1>5. SoFar'
  <2>1. /\ item' = item /\ rule' = rule + 1 /\ status' = "working" /\ input' = input
        /\ source_type' = source_type
    BY <1>1 DEF Consume
  <2>2. \A j \in 1 .. (rule + 1) - 1 : RuleHolds(Rules, j, ThisLink, source_type, input.links)
    <3>1. \A j \in 1 .. rule - 1 : RuleHolds(Rules, j, ThisLink, source_type, input.links)
      BY <1>1 DEF SoFar
    <3>2. \A j \in 1 .. (rule + 1) - 1 : j \in 1 .. rule - 1 \/ j = rule
      BY <1>1
    <3> QED BY <3>1, <3>2
  <2> QED BY <1>1, <1>2, <2>1, <2>2 DEF SoFar
<1> QED BY <1>3, <1>4, <1>5

\* Raising leaves everything as it is and is justified by the rule at hand.
LEMMA RaiseKeepsIInv ==
  ASSUME IInv, NEW types, AtRule(types), Raise,
         ~RuleHolds(Rules, rule, ThisLink, source_type, input.links)
  PROVE  IInv'
<1> USE DEF IInv
<1>1. /\ input' = input /\ item' = item /\ rule' = rule /\ source_type' = source_type
      /\ artifacts_queue' = artifacts_queue /\ RULE_TRACE' = RULE_TRACE /\ status' = "failed"
      /\ Items' = Items /\ ThisItem' = ThisItem /\ ThisLink' = ThisLink /\ Rules' = Rules
  BY DEF Raise, Items, ThisItem, ThisLink, Rules
<1>2. TypeOK'
  BY <1>1 DEF TypeOK
<1>3. QueueIsUnsettled'
  BY <1>1 DEF QueueIsUnsettled
<1>4. SoFar'
  BY <1>1 DEF SoFar, AtRule
<1> QED BY <1>2, <1>3, <1>4

\* The queue at a rule, and the rule's fields.
LEMMA AtRuleFacts ==
  ASSUME IInv, NEW types, AtRule(types)
  PROVE  /\ item <= Len(Items) /\ rule \in 1 .. Len(Rules) /\ Len(Rules) \in Nat
         /\ Rules[rule] \in Rule /\ Rules[rule].rule_type \in types
         /\ artifacts_queue = Unsettled(Rules, rule, ThisLink, source_type, input.links)
         /\ artifacts_queue \subseteq DOMAIN ThisLink[source_type]
         /\ source_type \in SourceTypes
<1>1. /\ item <= Len(Items) /\ rule \in 1 .. Len(Rules) /\ Rules[rule].rule_type \in types
  BY DEF AtRule
<1>2. Rules[rule] \in Rule /\ Len(Rules) \in Nat
  BY <1>1, Typing DEF IInv
<1>3. artifacts_queue = Unsettled(Rules, rule, ThisLink, source_type, input.links)
  BY <1>1, <1>2 DEF IInv, QueueIsUnsettled
<1>4. artifacts_queue \subseteq DOMAIN ThisLink[source_type]
  BY <1>3 DEF Unsettled
<1> QED BY <1>1, <1>2, <1>3, <1>4 DEF IInv, TypeOK

\* Every rule that consumes consumes the artifacts it settles, and holds.
LEMMA ConsumingRule ==
  ASSUME IInv, ApplyMatch \/ ApplyCreate \/ ApplyDelete \/ ApplyModify \/ ApplyAllow
  PROVE  IInv'
<1> DEFINE settled == {p \in artifacts_queue :
                         Settles(Rules[rule], p, ThisLink, source_type, input.links)}
<1>1. ASSUME NEW types \in SUBSET {"match", "create", "delete", "modify", "allow"},
             AtRule(types)
      PROVE  RuleHolds(Rules, rule, ThisLink, source_type, input.links)
  <2>1. Rules[rule].rule_type # "disallow" /\ Rules[rule].rule_type # "require"
    BY <1>1 DEF AtRule
  <2> QED BY <2>1 DEF RuleHolds
<1>2. ASSUME ApplyMatch PROVE IInv'
  <2>1. AtRule({"match"})
    BY <1>2 DEF ApplyMatch
  <2>2. Rules[rule] \in Rule /\ Rules[rule].rule_type = "match"
    BY <2>1, AtRuleFacts
  <2>3. input.links \in Links
    BY <2>1, Typing DEF IInv, AtRule
  <2>4. \A x : x \in VerifyMatchRule(Rules[rule], artifacts_queue, ThisLink[source_type], input.links)
                 <=> x \in artifacts_queue /\
                     HasCounterpart(Rules[rule], x, ThisLink[source_type], input.links)
    <3>1. /\ Rules[rule].source_prefix \in Prefixes /\ Rules[rule].dest_prefix \in Prefixes
          /\ Rules[rule].dest_type \in SourceTypes
      BY <2>2, MatchFields
    <3>2. Rules[rule].dest_name \in DOMAIN input.links =>
            DOMAIN input.links[Rules[rule].dest_name][Rules[rule].dest_type] \subseteq Paths
      BY <2>3, <3>1, ArtifactsDomain
    <3> QED BY <3>1, <3>2, MatchPointwise
  <2>5. VerifyMatchRule(Rules[rule], artifacts_queue, ThisLink[source_type], input.links) = settled
    <3>1. \A p : Settles(Rules[rule], p, ThisLink, source_type, input.links)
                  <=> HasCounterpart(Rules[rule], p, ThisLink[source_type], input.links)
      BY <2>2 DEF Settles
    <3> QED BY <2>4, <3>1
  <2> HIDE DEF settled
  <2>6. Consume(settled)
    BY <1>2, <2>5 DEF ApplyMatch
  <2> QED BY <1>1, <2>1, <2>6, ConsumeKeepsIInv DEF settled
<1>3. ASSUME ApplyCreate PROVE IInv'
  <2>1. AtRule({"create"})
    BY <1>3 DEF ApplyCreate
  <2>2. VerifyCreateRule(Rules[rule], artifacts_queue, ThisLink.materials, ThisLink.products)
          = settled
    BY <2>1, AtRuleFacts DEF Settles, VerifyCreateRule
  <2>3. Consume(settled)
    BY <1>3, <2>2 DEF ApplyCreate
  <2> QED BY <1>1, <2>1, <2>3, ConsumeKeepsIInv
<1>4. ASSUME ApplyDelete PROVE IInv'
  <2>1. AtRule({"delete"})
    BY <1>4 DEF ApplyDelete
  <2>2. VerifyDeleteRule(Rules[rule], artifacts_queue, ThisLink.materials, ThisLink.products)
          = settled
    BY <2>1, AtRuleFacts DEF Settles, VerifyDeleteRule
  <2>3. Consume(settled)
    BY <1>4, <2>2 DEF ApplyDelete
  <2> QED BY <1>1, <2>1, <2>3, ConsumeKeepsIInv
<1>5. ASSUME ApplyModify PROVE IInv'
  <2>1. AtRule({"modify"})
    BY <1>5 DEF ApplyModify
  <2>2. VerifyModifyRule(Rules[rule], artifacts_queue, ThisLink.materials, ThisLink.products)
          = settled
    BY <2>1, AtRuleFacts DEF Settles, VerifyModifyRule
  <2>3. Consume(settled)
    BY <1>5, <2>2 DEF ApplyModify
  <2> QED BY <1>1, <2>1, <2>3, ConsumeKeepsIInv
<1>6. ASSUME ApplyAllow PROVE IInv'
  <2>1. AtRule({"allow"})
    BY <1>6 DEF ApplyAllow
  <2>2. VerifyAllowRule(Rules[rule], artifacts_queue) = settled
    BY <2>1, AtRuleFacts DEF Settles, VerifyAllowRule
  <2>3. Consume(settled)
    BY <1>6, <2>2 DEF ApplyAllow
  <2> QED BY <1>1, <2>1, <2>3, ConsumeKeepsIInv
<1> QED BY <1>2, <1>3, <1>4, <1>5, <1>6

\* DISALLOW and REQUIRE raise exactly when they do not hold.
LEMMA CheckingRule ==
  ASSUME IInv, ApplyDisallow \/ ApplyRequire
  PROVE  IInv'
<1>1. ASSUME AtRule({"disallow", "require"})
      PROVE  {} = {p \in artifacts_queue :
                     Settles(Rules[rule], p, ThisLink, source_type, input.links)}
  BY <1>1, ChecksSettleNothing DEF AtRule
<1>2. ASSUME ApplyDisallow PROVE IInv'
  <2>1. AtRule({"disallow"})
    BY <1>2 DEF ApplyDisallow
  <2>2. DisallowRaises(Rules[rule], artifacts_queue)
          <=> ~RuleHolds(Rules, rule, ThisLink, source_type, input.links)
    BY <2>1, AtRuleFacts DEF DisallowRaises, RuleHolds
  <2>3. CASE DisallowRaises(Rules[rule], artifacts_queue)
    BY <1>2, <2>1, <2>2, <2>3, RaiseKeepsIInv DEF ApplyDisallow
  <2>4. CASE ~DisallowRaises(Rules[rule], artifacts_queue)
    <3>1. Consume({})
      BY <1>2, <2>4 DEF ApplyDisallow
    <3>2. AtRule({"disallow", "require"})
      BY <2>1 DEF AtRule
    <3> QED BY <1>1, <2>2, <2>4, <3>1, <3>2, ConsumeKeepsIInv
  <2> QED BY <2>3, <2>4
<1>3. ASSUME ApplyRequire PROVE IInv'
  <2>1. AtRule({"require"})
    BY <1>3 DEF ApplyRequire
  <2>2. RequireRaises(Rules[rule], artifacts_queue)
          <=> ~RuleHolds(Rules, rule, ThisLink, source_type, input.links)
    BY <2>1, AtRuleFacts DEF RequireRaises, RuleHolds
  <2>3. CASE RequireRaises(Rules[rule], artifacts_queue)
    BY <1>3, <2>1, <2>2, <2>3, RaiseKeepsIInv DEF ApplyRequire
  <2>4. CASE ~RequireRaises(Rules[rule], artifacts_queue)
    <3>1. Consume({})
      BY <1>3, <2>4 DEF ApplyRequire
    <3>2. AtRule({"disallow", "require"})
      BY <2>1 DEF AtRule
    <3> QED BY <1>1, <2>2, <2>4, <3>1, <3>2, ConsumeKeepsIInv
  <2> QED BY <2>3, <2>4
<1> QED BY <1>2, <1>3

LEMMA BeginItemKeepsIInv ==
  ASSUME IInv, BeginItem
  PROVE  IInv'
<1>1. /\ input' = input /\ item' = item /\ rule' = 1 /\ source_type' = source_type
      /\ status' = status /\ artifacts_queue' = DOMAIN ThisLink[source_type]
      /\ Items' = Items /\ ThisItem' = ThisItem /\ ThisLink' = ThisLink /\ Rules' = Rules
      /\ status = "working" /\ item <= Len(Items)
  BY DEF BeginItem, Items, ThisItem, ThisLink, Rules
<1>2. /\ ThisItem \in Item /\ Len(Rules) \in Nat
      /\ DOMAIN ThisLink[source_type] \subseteq Paths
  BY <1>1, Typing DEF IInv
<1>3. TypeOK'
  <2>1. RULE_TRACE' \in [source_name : Names \cup {"unset"}, source_type : SourceTypes \cup {"unset"},
                         trace : Seq([rule : Rule, queue : SUBSET Paths])]
    BY <1>2 DEF BeginItem, IInv, TypeOK, Item
  <2> QED BY <1>1, <1>2, <2>1 DEF IInv, TypeOK
<1>4. QueueIsUnsettled'
  BY <1>1, UnsettledStart DEF QueueIsUnsettled
<1>5. SoFar'
  BY <1>1 DEF IInv, SoFar
<1> QED BY <1>3, <1>4, <1>5 DEF IInv

LEMMA EndItemKeepsIInv ==
  ASSUME IInv, EndItem
  PROVE  IInv'
<1>1. /\ input' = input /\ rule' = 0 /\ status' = "working" /\ Items' = Items
      /\ artifacts_queue' = artifacts_queue /\ RULE_TRACE' = RULE_TRACE
      /\ item <= Len(Items) /\ rule = Len(Rules) + 1 /\ status = "working"
  BY DEF EndItem, Items
<1>2. item \in 1 .. Len(Items) /\ Len(Items) \in Nat /\ Len(Rules) \in Nat
  BY <1>1, Typing DEF IInv
<1>3. RulesHold(Rules, ThisLink, source_type, input.links)
  BY <1>1, <1>2 DEF IInv, SoFar, RulesHold
<1>4. CASE source_type = "materials"
  <2>1. source_type' = "products" /\ item' = item
    BY <1>4 DEF EndItem
  <2>2. /\ ThisItem' = ThisItem /\ ThisLink' = ThisLink /\ Len(Rules') \in Nat
        /\ Rules = ThisItem.expected_materials
    <3>1. Rules' = ThisItem.expected_products /\ Rules = ThisItem.expected_materials
            /\ ThisItem' = ThisItem /\ ThisLink' = ThisLink
      BY <1>1, <1>4, <2>1 DEF Rules, ThisItem, ThisLink, Items
    <3>2. ThisItem \in Item
      BY <1>1, Typing DEF IInv
    <3> QED BY <3>1, <3>2 DEF Item
  <2>3. TypeOK'
    BY <1>1, <1>2, <2>1, <2>2 DEF IInv, TypeOK, SourceTypes
  <2>4. SoFar'
    BY <1>1, <1>2, <1>3, <1>4, <2>1, <2>2 DEF IInv, SoFar
  <2> QED BY <1>1, <2>3, <2>4 DEF IInv, QueueIsUnsettled
<1>5. CASE source_type # "materials"
  <2>1. source_type' = "materials" /\ item' = item + 1 /\ source_type = "products"
    BY <1>5 DEF EndItem, IInv, TypeOK, SourceTypes
  <2>2. ItemHolds(ThisItem, input.links)
    BY <1>1, <1>3, <2>1 DEF IInv, SoFar, ItemHolds, Rules, ThisLink
  <2>3. \A i \in 1 .. (item + 1) - 1 : ItemHolds(Items[i], input.links)
    BY <1>2, <2>2 DEF IInv, SoFar, ThisItem
  <2>4. item + 1 \in 1 .. Len(Items) + 1
    BY <1>2
  <2>5. (item' <= Len(Items')) => Len(Rules') \in Nat
    <3>1. SUFFICES ASSUME item + 1 <= Len(Items) PROVE Len(Rules') \in Nat
      BY <1>1, <2>1
    <3>2. Rules' = Items[item + 1].expected_materials
      BY <1>1, <2>1 DEF Rules, ThisItem, Items
    <3>3. item + 1 \in 1 .. Len(Items)
      BY <1>2, <3>1
    <3>4. Items \in Seq(Item)
      BY <1>1, Typing DEF IInv
    <3>5. Items[item + 1] \in Item
      BY <3>3, <3>4
    <3> QED BY <3>2, <3>5 DEF Item
  <2>6. TypeOK'
    BY <1>1, <2>1, <2>4, <2>5 DEF IInv, TypeOK, SourceTypes
  <2>7. SoFar'
    BY <1>1, <2>1, <2>3 DEF SoFar
  <2> QED BY <1>1, <2>6, <2>7 DEF IInv, QueueIsUnsettled
<1> QED BY <1>4, <1>5

LEMMA ReturnKeepsIInv ==
  ASSUME IInv, Return
  PROVE  IInv'
<1>1. /\ input' = input /\ item' = item /\ rule' = rule /\ source_type' = source_type
      /\ artifacts_queue' = artifacts_queue /\ RULE_TRACE' = RULE_TRACE /\ status' = "passed"
      /\ Items' = Items /\ ThisItem' = ThisItem /\ ThisLink' = ThisLink /\ Rules' = Rules
      /\ item = Len(Items) + 1 /\ status = "working"
  BY DEF Return, Items, ThisItem, ThisLink, Rules
<1>2. TypeOK'
  BY <1>1 DEF IInv, TypeOK
<1>3. QueueIsUnsettled'
  BY <1>1 DEF IInv, QueueIsUnsettled
<1>4. SoFar'
  BY <1>1 DEF IInv, SoFar
<1> QED BY <1>2, <1>3, <1>4 DEF IInv

LEMMA StutterKeepsIInv ==
  ASSUME IInv, UNCHANGED vars
  PROVE  IInv'
BY DEF IInv, vars, TypeOK, QueueIsUnsettled, SoFar, Items, ThisItem, ThisLink, Rules

LEMMA InitIInv ==
  ASSUME Init
  PROVE  IInv
<1>1. input \in Inputs /\ Items \in Seq(Item)
  BY InputsAssumption DEF Init, Items
<1>2. TypeOK
  <2>1. item \in 1 .. Len(Items) + 1
    BY <1>1 DEF Init
  <2>2. item <= Len(Items) => Len(Rules) \in Nat
    <3>1. SUFFICES ASSUME item <= Len(Items) PROVE Len(Rules) \in Nat
      OBVIOUS
    <3>2. ThisItem \in Item
      BY <1>1, <3>1 DEF Init, ThisItem
    <3> QED BY <3>2 DEF Rules, Item
  <2> QED BY <1>1, <2>1, <2>2 DEF Init, TypeOK, SourceTypes
<1>3. QueueIsUnsettled
  BY DEF Init, QueueIsUnsettled
<1>4. SoFar
  BY <1>1 DEF Init, SoFar
<1> QED BY <1>2, <1>3, <1>4 DEF IInv

LEMMA StepKeepsIInv ==
  ASSUME IInv, [Next]_vars
  PROVE  IInv'
BY BeginItemKeepsIInv, EndItemKeepsIInv, ReturnKeepsIInv, ConsumingRule, CheckingRule,
   StutterKeepsIInv DEF Next

-----------------------------------------------------------------------------
(* The theorems. *)

\* The inductive invariant holds in every reachable state.
THEOREM Invariant == Spec => []IInv
BY InitIInv, StepKeepsIInv, PTL DEF Spec

\* verify_item_rules stays within its rule lists and its queue holds paths only.
THEOREM TypeCorrect == Spec => []TypeOK
BY Invariant, PTL DEF IInv

\* The queue of verify_item_rules is always what the rules applied so far leave
\* unsettled: consumption is per artifact and in rule order, nothing else.
THEOREM QueueCorrect == Spec => []QueueIsUnsettled
BY Invariant, PTL DEF IInv

\* RuleVerificationError is raised for the first rule, in layout order, that
\* objects: everything before it holds.
THEOREM BlameCorrect == Spec => []BlamesFirstObjection
<1>1. IInv => BlamesFirstObjection
  BY DEF IInv, SoFar, BlamesFirstObjection
<1> QED BY <1>1, Invariant, PTL

\* When a verification returns, every rule of every item holds.
LEMMA PassedAccepts == IInv /\ status = "passed" => Accepts(input)
<1> SUFFICES ASSUME IInv, status = "passed" PROVE Accepts(input)
  OBVIOUS
<1>1. item = Len(Items) + 1 /\ \A i \in 1 .. item - 1 : ItemHolds(Items[i], input.links)
  BY DEF IInv, SoFar
<1>2. Len(Items) \in Nat
  BY InputsAssumption DEF IInv, TypeOK, Items
<1>3. \A i \in 1 .. Len(Items) : ItemHolds(Items[i], input.links)
  BY <1>1, <1>2
<1> QED BY <1>3 DEF Accepts, Items

\* When it raises, some rule of some item does not hold.
LEMMA FailedRejects == IInv /\ status = "failed" => ~Accepts(input)
<1> SUFFICES ASSUME IInv, status = "failed" PROVE ~Accepts(input)
  OBVIOUS
<1>1. /\ item <= Len(Items) /\ rule \in 1 .. Len(Rules)
      /\ ~RuleHolds(Rules, rule, ThisLink, source_type, input.links)
  BY DEF IInv, SoFar
<1>2. item \in 1 .. Len(Items)
  BY <1>1, Typing DEF IInv
<1>3. ~RulesHold(Rules, ThisLink, source_type, input.links)
  BY <1>1 DEF RulesHold
<1>4. source_type \in {"materials", "products"}
  BY DEF IInv, TypeOK, SourceTypes
<1>5. ~ItemHolds(ThisItem, input.links)
  BY <1>3, <1>4 DEF ItemHolds, Rules, ThisLink
<1> QED BY <1>2, <1>5 DEF Accepts, ThisItem, Items

\* The loop over items, rule lists and rules implements the one-shot verdict of
\* RuleVerdict: a function of items and links alone, given once, never revised.
THEOREM VerdictCorrect == Spec => VerdictSafety
<1>1. Init => Verdict!Init
  BY DEF Init, Verdict!Init
<1>2. /\ (IInv /\ status = "passed" => Accepts(input))'
      /\ (IInv /\ status = "failed" => ~Accepts(input))'
  BY PassedAccepts, FailedRejects, PTL
<1>3. IInv /\ IInv' /\ [Next]_vars => [Verdict!Decide]_<<input, status>>
  <2> SUFFICES ASSUME IInv, IInv', [Next]_vars PROVE [Verdict!Decide]_<<input, status>>
    OBVIOUS
  <2>1. input' = input
    BY DEF Next, vars, BeginItem, EndItem, Return, Consume, Raise, ApplyMatch, ApplyCreate,
           ApplyDelete, ApplyModify, ApplyAllow, ApplyDisallow, ApplyRequire
  <2>2. status' = status \/ (status = "working" /\ status' \in {"passed", "failed"})
    BY DEF Next, vars, BeginItem, EndItem, Return, Consume, Raise, AtRule, ApplyMatch,
           ApplyCreate, ApplyDelete, ApplyModify, ApplyAllow, ApplyDisallow, ApplyRequire
  <2>3. Accepts(input)' <=> Accepts(input)
    BY <2>1 DEF Accepts
  <2>4. CASE status' = status
    BY <2>1, <2>4
  <2>5. CASE status = "working" /\ status' = "passed"
    <3>1. Accepts(input)'
      BY <1>2, <2>5
    <3> QED BY <2>1, <2>3, <2>5, <3>1 DEF Verdict!Decide
  <2>6. CASE status = "working" /\ status' = "failed"
    <3>1. ~Accepts(input)'
      BY <1>2, <2>6
    <3> QED BY <2>1, <2>3, <2>6, <3>1 DEF Verdict!Decide
  <2> QED BY <2>2, <2>4, <2>5, <2>6
<1> QED BY <1>1, <1>3, Invariant, PTL DEF Spec, VerdictSafety, Verdict!Safety

\* The chain of custody: in a verification that passes, MATCH followed by DISALLOW
\* lets no material through that the matched step did not report as its product.
THEOREM CustodyCorrect == Spec => []ChainOfCustody
<1>1. IInv => ChainOfCustody
  <2> SUFFICES ASSUME IInv, status = "passed", NEW i \in 1 .. Len(Items),
                      NEW rs, rs = Items[i].expected_materials, Len(rs) = 2,
                      rs[1].rule_type = "match", rs[1].dest_type = "products",
                      DOMAIN Strip[rs[1].source_prefix] = Paths,
                      rs[1].dest_prefix = rs[1].source_prefix,
                      rs[2].rule_type = "disallow",
                      NEW p \in DOMAIN input.links[Items[i].name].materials \cap rs[2].pattern
               PROVE  /\ rs[1].dest_name \in DOMAIN input.links
                      /\ p \in DOMAIN input.links[rs[1].dest_name].products
                      /\ input.links[rs[1].dest_name].products[p]
                           = input.links[Items[i].name].materials[p]
    BY DEF ChainOfCustody
  <2> DEFINE link == input.links[Items[i].name]
  <2>1. RulesHold(rs, link, "materials", input.links)
    BY PassedAccepts DEF Accepts, ItemHolds, Items
  <2>2. p \notin Unsettled(rs, 2, link, "materials", input.links)
    <3>1. RuleHolds(rs, 2, link, "materials", input.links)
      BY <2>1 DEF RulesHold
    <3> QED BY <3>1 DEF RuleHolds
  <2>3. Settles(rs[1], p, link, "materials", input.links)
    BY <2>2 DEF Unsettled
  <2>4. HasCounterpart(rs[1], p, link.materials, input.links)
    BY <2>3 DEF Settles
  <2>5. PICK d \in DOMAIN input.links[rs[1].dest_name].products
                    \cap DOMAIN Strip[rs[1].source_prefix] :
          /\ Strip[rs[1].source_prefix][d] = Strip[rs[1].source_prefix][p]
          /\ input.links[rs[1].dest_name].products[d] = link.materials[p]
    BY <2>4 DEF HasCounterpart
  <2>6. rs[1].dest_name \in DOMAIN input.links /\ p \in DOMAIN Strip[rs[1].source_prefix]
    BY <2>4 DEF HasCounterpart
  <2>7. rs[1].source_prefix \in Prefixes
    <3>1. Items \in Seq(Item)
      BY InputsAssumption DEF IInv, TypeOK, Items
    <3>2. Items[i] \in Item
      BY <3>1
    <3>4. rs \in Seq(Rule)
      BY <3>2 DEF Item
    <3>3. rs[1] \in Rule
      BY <3>4
    <3> QED BY <3>3, MatchFields
  <2>8. d = p
    BY <2>5, <2>6, <2>7, StripAssumption
  <2> QED BY <2>5, <2>6, <2>8
<1> QED BY <1>1, Invariant, PTL

\* One more entry of the trace, from the queue the rule left.
LEMMA ConsumeKeepsTrace ==
  ASSUME IInv, TraceIsTrue, IInv', NEW types, AtRule(types), NEW consumed, Consume(consumed)
  PROVE  TraceIsTrue'
<1> DEFINE left(j) == Unsettled(Rules, j, ThisLink, source_type, input.links)
           entry(j) == [rule |-> Rules[j], queue |-> left(j + 1)]
           new == [rule |-> Rules[rule], queue |-> artifacts_queue \ consumed]
<1>1. /\ item <= Len(Items) /\ rule \in Nat \ {0} /\ item' = item /\ rule' = rule + 1
      /\ Items' = Items /\ ThisItem' = ThisItem /\ ThisLink' = ThisLink /\ Rules' = Rules
      /\ source_type' = source_type /\ input' = input
      /\ artifacts_queue' = artifacts_queue \ consumed
  BY AtRuleFacts DEF Consume, Items, ThisItem, ThisLink, Rules
<1>2. /\ RULE_TRACE.source_name = ThisItem.name /\ RULE_TRACE.source_type = source_type
      /\ Len(RULE_TRACE.trace) = rule - 1
      /\ \A j \in 1 .. rule - 1 : RULE_TRACE.trace[j] = entry(j)
  BY <1>1 DEF TraceIsTrue
<1>3. artifacts_queue \ consumed = left(rule + 1)
  BY <1>1 DEF IInv, QueueIsUnsettled
<1>4. /\ RULE_TRACE'.source_name = RULE_TRACE.source_name
      /\ RULE_TRACE'.source_type = RULE_TRACE.source_type
      /\ RULE_TRACE'.trace = Append(RULE_TRACE.trace, new)
      /\ RULE_TRACE.trace \in Seq([rule : Rule, queue : SUBSET Paths])
  BY DEF Consume, IInv, TypeOK
<1>5. /\ Len(RULE_TRACE'.trace) = (rule + 1) - 1
      /\ \A j \in 1 .. (rule + 1) - 1 : RULE_TRACE'.trace[j] = entry(j)
  <2> DEFINE S == [rule : Rule, queue : SUBSET Paths]
             t == RULE_TRACE.trace
  <2>1. t \in Seq(S) /\ Len(t) = rule - 1 /\ (\A j \in 1 .. rule - 1 : t[j] = entry(j))
        /\ RULE_TRACE'.trace = Append(t, new) /\ new = entry(rule)
    BY <1>2, <1>3, <1>4
  <2> HIDE DEF S, t, new, entry
  <2> QED BY <1>1, <2>1
<1> QED BY <1>1, <1>2, <1>4, <1>5 DEF TraceIsTrue

\* The traceback a RuleVerificationError shows is true, at the moment it is raised
\* and at any other: RULE_TRACE is the history of the queue of the item at hand.
THEOREM TraceCorrect == Spec => []TraceIsTrue
<1>1. Init => TraceIsTrue
  BY DEF Init, TraceIsTrue
<1>2. IInv /\ TraceIsTrue /\ IInv' /\ [Next]_vars => TraceIsTrue'
  <2> SUFFICES ASSUME IInv, TraceIsTrue, IInv', [Next]_vars PROVE TraceIsTrue'
    OBVIOUS
  <2>1. CASE BeginItem
    BY <2>1 DEF BeginItem, TraceIsTrue, Items, ThisItem, ThisLink, Rules
  <2>2. CASE EndItem
    BY <2>2 DEF EndItem, TraceIsTrue
  <2>3. CASE Return
    BY <2>3 DEF Return, TraceIsTrue, Items, ThisItem, ThisLink, Rules
  <2>4. ASSUME ApplyMatch \/ ApplyCreate \/ ApplyDelete \/ ApplyModify \/ ApplyAllow
        PROVE  TraceIsTrue'
    BY <2>4, ConsumeKeepsTrace DEF ApplyMatch, ApplyCreate, ApplyDelete, ApplyModify, ApplyAllow
  <2>5. ASSUME ApplyDisallow \/ ApplyRequire, ~Raise
        PROVE  TraceIsTrue'
    BY <2>5, ConsumeKeepsTrace DEF ApplyDisallow, ApplyRequire
  <2>6. CASE Raise \/ UNCHANGED vars
    BY <2>6 DEF Raise, vars, TraceIsTrue, Items, ThisItem, ThisLink, Rules
  <2> QED BY <2>1, <2>2, <2>3, <2>4, <2>5, <2>6 DEF Next
<1> QED BY <1>1, <1>2, Invariant, PTL DEF Spec
=============================================================================
