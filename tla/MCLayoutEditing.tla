-------------------------- MODULE MCLayoutEditing --------------------------
(***************************************************************************)
(* LayoutEditing for TLC: a layout of a step and an inspection with        *)
(* placeholders, and one of two steps.                                     *)
(***************************************************************************)
EXTENDS LayoutEditing

W(words) == FoldLeft(LAMBDA s, w : Append(s, Lower(w)), << >>, words)

MCNames == {"a", "b", "i"}
MCKeys == {"k1", "k2"}
MCPlaceholders == {"{x}", "{y}"}

NewItem(name, materials, command) ==
  [name |-> name, expected_materials |-> materials, expected_products |-> << >>,
   command |-> command]

Match == W(<<"match", "{y}", "with", "products", "from", "a">>)

Start(steps, inspect) ==
  [steps |-> steps, inspect |-> inspect, keys |-> {"k1"}, expires |-> "later"]

MCStartLayouts ==
  {Start(<<NewItem("a", << >>, W(<<"{x}">>))>>, <<NewItem("i", <<Match>>, << >>)>>),
   Start(<<NewItem("a", << >>, << >>), NewItem("b", << >>, << >>)>>, << >>)}

MCNewItems == {NewItem("a", << >>, << >>)}

MCNewRules ==
  {[list |-> list, rules |-> IF list = "steps" THEN "expected_materials" ELSE "expected_products",
    rule |-> W(rule)] : list \in Lists, rule \in {<<"allow", "p">>, <<"allow">>}}

MCNewCommands == {<< >>}
MCKeyLists == {<<"k2", "none", "k1">>}
MCParameterDicts == {"{x}" :> "v", "{x}" :> "w" @@ "{y}" :> "w"}

(***************************************************************************)
(* Token lists: every rule of the grammar, in lower and upper case, and    *)
(* what one wrong, missing or extra token makes of it.                     *)
(***************************************************************************)
Vocabulary == {"match", "allow", "in", "with", "materials", "products", "from", "p", "empty"}

Heads == {<<"match", "p">>, <<"match", "in">>}
Ins == {<< >>, <<"in", "p">>, <<"in", "with">>}
Withs == {<<"with", "products">>, <<"with", "materials">>}
Froms == {<<"from", "p">>, <<"from", "empty">>}
Good == {h \o a \o w \o b \o f : h \in Heads, a \in Ins, w \in Withs, b \in Ins, f \in Froms}
          \cup {<<r, "p">> : r \in GENERIC_RULES}

Changed(s) ==
  {s} \cup {RemoveAt(s, i) : i \in DOMAIN s}
      \cup {[s EXCEPT ![i] = v] : i \in DOMAIN s, v \in Vocabulary}
      \cup {InsertAt(s, i, v) : i \in 1..(Len(s) + 1), v \in Vocabulary}

MCRuleStrings ==
  {W(s) : s \in UNION {Changed(g) : g \in Good}}
    \cup {FoldLeft(LAMBDA s, w : Append(s, Token(w, w # "empty")), << >>, g) : g \in Good}
=============================================================================
