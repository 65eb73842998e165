---------------------------- MODULE RuleGrammar ----------------------------
(***************************************************************************)
(* The rule grammar (rulelib): unpack_rule parses the token list a layout  *)
(* stores, pack_rule writes one.  Results are sets of at most one element, *)
(* {} where the code raises FormatError.                                   *)
(*                                                                         *)
(* Keywords are compared lower-cased; of a token the model keeps its lower *)
(* case and whether it is spelled in upper case.                           *)
(***************************************************************************)
EXTENDS Naturals, Sequences

CONSTANT EmptyWord   \* the empty string

Token(word, upper) == [word |-> word, upper |-> upper]
Lower(word) == Token(word, FALSE)
Upper(word) == Token(word, TRUE)
NoToken == Lower(EmptyWord)

GENERIC_RULES == {"create", "modify", "delete", "allow", "disallow", "require"}
COMPLEX_RULES == {"match"}
ALL_RULES == GENERIC_RULES \cup COMPLEX_RULES
DestTypes == {"materials", "products"}
KEYWORDS == ALL_RULES \cup DestTypes \cup {"in", "with", "from"}

\* The empty string is neither in lower nor in upper case.
Words == {t \in [word : STRING, upper : BOOLEAN] : t.word = EmptyWord => ~t.upper}
Rule == Seq(Words)

\* (mutant) The two formats of eight tokens are told apart by the last keyword alone.
MatchFormatsLax ==
  {[length |-> 10, keywords |-> {<<3, "in">>, <<5, "with">>, <<7, "in">>, <<9, "from">>},
    source_prefix |-> 4, dest_type |-> 6, dest_prefix |-> 8, dest_name |-> 10],
   [length |-> 8, keywords |-> {<<5, "with">>, <<7, "from">>},
    source_prefix |-> 4, dest_type |-> 6, dest_prefix |-> 0, dest_name |-> 8],
   [length |-> 8, keywords |-> {<<3, "with">>, <<5, "in">>, <<7, "from">>},
    source_prefix |-> 0, dest_type |-> 4, dest_prefix |-> 6, dest_name |-> 8],
   [length |-> 6, keywords |-> {<<3, "with">>, <<5, "from">>},
    source_prefix |-> 0, dest_type |-> 4, dest_prefix |-> 0, dest_name |-> 6]}

\* The formats of a MATCH rule: keywords and values by position, 0 for a value
\* that the format lacks.
MatchFormats ==
  {[length |-> 10, keywords |-> {<<3, "in">>, <<5, "with">>, <<7, "in">>, <<9, "from">>},
    source_prefix |-> 4, dest_type |-> 6, dest_prefix |-> 8, dest_name |-> 10],
   [length |-> 8, keywords |-> {<<3, "in">>, <<5, "with">>, <<7, "from">>},
    source_prefix |-> 4, dest_type |-> 6, dest_prefix |-> 0, dest_name |-> 8],
   [length |-> 8, keywords |-> {<<3, "with">>, <<5, "in">>, <<7, "from">>},
    source_prefix |-> 0, dest_type |-> 4, dest_prefix |-> 6, dest_name |-> 8],
   [length |-> 6, keywords |-> {<<3, "with">>, <<5, "from">>},
    source_prefix |-> 0, dest_type |-> 4, dest_prefix |-> 0, dest_name |-> 6]}

Value(rule, position) == IF position = 0 THEN NoToken ELSE rule[position]

UnpackMatch(rule) ==
  LET Fits(f) == /\ Len(rule) = f.length
                 /\ \A k \in f.keywords : rule[k[1]].word = k[2]
                 /\ rule[f.dest_type].word \in DestTypes
  IN  {[rule_type |-> "match", pattern |-> rule[2],
        source_prefix |-> Value(rule, f.source_prefix),
        dest_prefix |-> Value(rule, f.dest_prefix),
        dest_type |-> rule[f.dest_type].word,
        dest_name |-> Value(rule, f.dest_name)] : f \in {g \in MatchFormats : Fits(g)}}

Unpack(rule) ==
  IF Len(rule) < 2 THEN {}
  ELSE IF rule[1].word \in GENERIC_RULES
       THEN {[rule_type |-> rule[1].word, pattern |-> rule[2]] : i \in {2} \cap {Len(rule)}}
  ELSE IF rule[1].word \in COMPLEX_RULES THEN UnpackMatch(rule)
  ELSE {}

Optional(keyword, value) == IF value.word = EmptyWord THEN << >> ELSE <<keyword, value>>

\* pack_rule(**data)
Pack(data) ==
  IF data.rule_type # "match" THEN {<<Upper(data.rule_type), data.pattern>>}
  ELSE IF data.dest_name.word = EmptyWord THEN {}
  ELSE {<<Upper("match"), data.pattern>>
          \o Optional(Upper("in"), data.source_prefix)
          \o <<Upper("with"), Upper(data.dest_type)>>
          \o Optional(Upper("in"), data.dest_prefix)
          \o <<Upper("from"), data.dest_name>>}

(***************************************************************************)
(* The language as unpack_rule's docstring writes it, production by        *)
(* production: what may remain of a token list once a part is taken off.   *)
(***************************************************************************)
From(rule, i) == SubSeq(rule, i, Len(rule))
AfterKeyword(rest, keyword) ==
  IF rest # << >> /\ rest[1].word = keyword THEN {From(rest, 2)} ELSE {}
AfterAny(rest) == IF rest # << >> THEN {From(rest, 2)} ELSE {}
AfterIn(rest) == {rest} \cup UNION {AfterAny(r) : r \in AfterKeyword(rest, "in")}
AfterWith(rest) ==
  UNION {AfterKeyword(r, "materials") \cup AfterKeyword(r, "products") :
           r \in AfterKeyword(rest, "with")}
AfterFrom(rest) == UNION {AfterAny(r) : r \in AfterKeyword(rest, "from")}

InLanguage(rule) ==
  \/ Len(rule) = 2 /\ rule[1].word \in GENERIC_RULES
  \/ /\ Len(rule) > 2 /\ rule[1].word = "match"
     /\ \E a \in AfterIn(From(rule, 3)) : \E b \in AfterWith(a) : \E c \in AfterIn(b) :
          << >> \in AfterFrom(c)
=============================================================================
