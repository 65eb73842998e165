------------------------------ MODULE RuleOps ------------------------------
(***************************************************************************)
(* Artifact rules: the record a rule unpacks to (rulelib.unpack_rule), the *)
(* operators verify_*_rule that apply one rule to a queue of artifacts     *)
(* (verifylib), and what a rule means for ONE artifact, stated without a   *)
(* queue.                                                                  *)
(*                                                                         *)
(* A glob pattern is the set of the paths it matches (fnmatch.filter is    *)
(* then an intersection); a path prefix is the function that strips it     *)
(* from the paths below it.  The empty prefix strips nothing.              *)
(***************************************************************************)
EXTENDS Sequences, Naturals

CONSTANTS Paths,     \* artifact paths, the stripped ones included
          Hashes,    \* hash dictionaries
          Names,     \* names of steps and inspections
          Prefixes,  \* IN <prefix> of a MATCH rule, "no prefix" among them
          Strip,     \* Strip[prefix][prefix/p] = p
          NoPath     \* what joining a prefix yields when it is no path here

\* Stripping a prefix is injective: prefix/p determines p and is determined by it.
ASSUME StripAssumption ==
  /\ \A pre \in Prefixes :
       /\ DOMAIN Strip[pre] \subseteq Paths
       /\ \A p \in DOMAIN Strip[pre] : Strip[pre][p] \in Paths
       /\ \A p, q \in DOMAIN Strip[pre] : Strip[pre][p] = Strip[pre][q] => p = q
  /\ NoPath \notin Paths

SourceTypes == {"materials", "products"}

Artifacts == UNION {[A -> Hashes] : A \in SUBSET Paths}

Link == [materials : Artifacts, products : Artifacts]

Links == UNION {[N -> Link] : N \in SUBSET Names}

GlobTypes == {"create", "delete", "modify", "allow", "disallow"}

Rule == [rule_type : GlobTypes, pattern : SUBSET Paths]
          \cup [rule_type : {"require"}, file : Paths]
          \cup [rule_type : {"match"}, pattern : SUBSET Paths,
                source_prefix : Prefixes, dest_prefix : Prefixes,
                dest_type : SourceTypes, dest_name : Names]

(***************************************************************************)
(* The rules as the code applies them: queue in, consumed artifacts out.   *)
(***************************************************************************)

\* os.path.join(prefix, p): the path that stripping the prefix takes to p.
Join(pre, p) ==
  IF \E x \in DOMAIN Strip[pre] : Strip[pre][x] = p
  THEN CHOOSE x \in DOMAIN Strip[pre] : Strip[pre][x] = p
  ELSE NoPath

\* (mutant) Destination artifacts are looked up by path, hashes are not compared.
VerifyMatchRulePathOnly(rule, queue, source, links) ==
  {p \in queue \cap DOMAIN Strip[rule.source_prefix] :
     LET f == Strip[rule.source_prefix][p]
     IN  /\ rule.dest_name \in DOMAIN links /\ f \in rule.pattern
         /\ Join(rule.dest_prefix, f) \in DOMAIN links[rule.dest_name][rule.dest_type]}

\* (mutant) The glob is applied to the path before its prefix is stripped.
VerifyMatchRuleGlobFirst(rule, queue, source, links) ==
  {p \in queue \cap DOMAIN Strip[rule.source_prefix] \cap rule.pattern :
     LET d == Join(rule.dest_prefix, Strip[rule.source_prefix][p])
     IN  /\ rule.dest_name \in DOMAIN links
         /\ d \in DOMAIN links[rule.dest_name][rule.dest_type]
         /\ links[rule.dest_name][rule.dest_type][d] = source[p]}

VerifyMatchRule(rule, queue, source, links) ==
  IF rule.dest_name \notin DOMAIN links
  THEN {}
  ELSE LET dest     == links[rule.dest_name][rule.dest_type]
           strip    == Strip[rule.source_prefix]
           stripped == {strip[p] : p \in queue \cap DOMAIN strip}
           filtered == stripped \cap rule.pattern
           corresponds(p) ==
             /\ Join(rule.dest_prefix, p) \in DOMAIN dest
             /\ source[Join(rule.source_prefix, p)] = dest[Join(rule.dest_prefix, p)]
       IN  {Join(rule.source_prefix, p) : p \in {f \in filtered : corresponds(f)}}

VerifyCreateRule(rule, queue, materials, products) ==
  (queue \cap rule.pattern) \cap (DOMAIN products \ DOMAIN materials)

VerifyDeleteRule(rule, queue, materials, products) ==
  (queue \cap rule.pattern) \cap (DOMAIN materials \ DOMAIN products)

\* (mutant) A file that is both, whatever its content, counts as modified.
VerifyModifyRuleAnyHash(rule, queue, materials, products) ==
  (queue \cap rule.pattern) \cap DOMAIN materials \cap DOMAIN products

VerifyModifyRule(rule, queue, materials, products) ==
  {p \in (queue \cap rule.pattern) \cap DOMAIN materials \cap DOMAIN products :
      materials[p] # products[p]}

VerifyAllowRule(rule, queue) == queue \cap rule.pattern

\* The two rules that consume nothing: do they raise RuleVerificationError?
DisallowRaises(rule, queue) == queue \cap rule.pattern # {}

\* (mutant) REQUIRE is satisfied by any leftover artifact.
RequireRaisesWhenEmpty(rule, queue) == queue = {}

RequireRaises(rule, queue) == rule.file \notin queue

(***************************************************************************)
(* The same rules one artifact at a time.                                  *)
(***************************************************************************)

\* A MATCH rule accounts for p when the destination link reports the same
\* content under the path that replaces the source prefix by the other one.
HasCounterpart(rule, p, source, links) ==
  /\ rule.dest_name \in DOMAIN links
  /\ p \in DOMAIN Strip[rule.source_prefix]
  /\ Strip[rule.source_prefix][p] \in rule.pattern
  /\ LET dest == links[rule.dest_name][rule.dest_type]
     IN  \E d \in DOMAIN dest \cap DOMAIN Strip[rule.dest_prefix] :
           /\ Strip[rule.dest_prefix][d] = Strip[rule.source_prefix][p]
           /\ dest[d] = source[p]

\* Rule accounts for artifact p of the source_type of link.
Settles(rule, p, link, source_type, links) ==
  LET made == p \in DOMAIN link.products
      used == p \in DOMAIN link.materials
  IN  \/ rule.rule_type = "match"  /\ HasCounterpart(rule, p, link[source_type], links)
      \/ rule.rule_type = "create" /\ p \in rule.pattern /\ made /\ ~used
      \/ rule.rule_type = "delete" /\ p \in rule.pattern /\ used /\ ~made
      \/ rule.rule_type = "modify" /\ p \in rule.pattern /\ used /\ made
                                   /\ link.materials[p] # link.products[p]
      \/ rule.rule_type = "allow"  /\ p \in rule.pattern

\* The artifacts of link that no rule before the i-th accounts for.
Unsettled(rules, i, link, source_type, links) ==
  {p \in DOMAIN link[source_type] :
      \A j \in 1 .. (i - 1) : ~Settles(rules[j], p, link, source_type, links)}

\* The i-th rule has no objection: nothing a DISALLOW names is left over, the
\* file a REQUIRE names is still there.
RuleHolds(rules, i, link, source_type, links) ==
  LET left == Unsettled(rules, i, link, source_type, links)
  IN  /\ rules[i].rule_type = "disallow" => \A p \in rules[i].pattern : p \notin left
      /\ rules[i].rule_type = "require"  => rules[i].file \in left

RulesHold(rules, link, source_type, links) ==
  \A i \in 1 .. Len(rules) : RuleHolds(rules, i, link, source_type, links)

ItemHolds(item, links) ==
  LET link == links[item.name]
  IN  /\ RulesHold(item.expected_materials, link, "materials", links)
      /\ RulesHold(item.expected_products, link, "products", links)
=============================================================================
