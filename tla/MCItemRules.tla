---------------------------- MODULE MCItemRules ----------------------------
(***************************************************************************)
(* ItemRules for TLC.  Step s1 makes files, step s2 uses them; each of s2's*)
(* rule lists in turn ranges over short lists of rules, and the links over *)
(* everything two files with two contents allow.  "gone" is the name of a  *)
(* step that has no link.                                                  *)
(***************************************************************************)
EXTENDS ItemRules, TLC

CONSTANTS foo, sub_foo,   \* foo, and sub/foo
          h1, h2,
          none, sub,      \* no prefix, "sub"
          no_path

MCPaths == {foo, sub_foo}
MCHashes == {h1, h2}
MCNames == {"s1", "s2", "gone"}
MCPrefixes == {none, sub}
MCStrip == none :> (foo :> foo @@ sub_foo :> sub_foo) @@ sub :> (sub_foo :> foo)

All == MCPaths
Glob(type, pattern) == [rule_type |-> type, pattern |-> pattern]
RequireFile(file) == [rule_type |-> "require", file |-> file]
Match(pattern, src, dst, type, name) ==
  [rule_type |-> "match", pattern |-> pattern, source_prefix |-> src,
   dest_prefix |-> dst, dest_type |-> type, dest_name |-> name]

Consuming ==
  {Glob("create", All), Glob("delete", All), Glob("modify", All), Glob("allow", {foo}),
   Match(All, none, none, "products", "s1"), Match({foo}, sub, none, "products", "s1"),
   Match(All, none, sub, "products", "s1"), Match(All, none, none, "materials", "s2"),
   Match(All, none, none, "products", "gone")}
Checking ==
  {Glob("disallow", All), Glob("disallow", {sub_foo}), RequireFile(foo)}

RuleLists ==
  {<<c, d>> : c \in Consuming, d \in Checking}
    \cup {<<c1, c2, Glob("disallow", All)>> : c1, c2 \in Consuming}
    \cup {<<RequireFile(foo), c, Glob("disallow", All)>> : c \in Consuming}

S1 == [name |-> "s1", expected_materials |-> <<Glob("disallow", All)>>,
       expected_products |-> << >>]

Layouts ==
  {<<S1, [name |-> "s2", expected_materials |-> r, expected_products |-> << >>]>>
     : r \in RuleLists}
  \cup
  {<<S1, [name |-> "s2", expected_materials |-> << >>, expected_products |-> r]>>
     : r \in RuleLists}

MCArtifacts == UNION {[A -> MCHashes] : A \in SUBSET MCPaths}

\* s1 starts from nothing, or from something its own rules disallow.
LinkMaps ==
  {"s1" :> [materials |-> m1, products |-> p1]
     @@ "s2" :> [materials |-> m2, products |-> p2]
     : m1 \in {<< >>, foo :> h1}, p1 \in {<< >>, foo :> h1, foo :> h1 @@ sub_foo :> h2},
       m2 \in MCArtifacts, p2 \in MCArtifacts}

MCInputs == [items : Layouts, links : LinkMaps]
=============================================================================
