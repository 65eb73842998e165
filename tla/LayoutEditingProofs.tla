------------------------ MODULE LayoutEditingProofs ------------------------
(***************************************************************************)
(* LayoutEditing for all layouts, edits, parameters and rules: the grammar *)
(* is the documented one, layouts stay readable, removing removes what it  *)
(* says, and verification uses what was signed.                            *)
(***************************************************************************)
EXTENDS LayoutEditing, FiniteSetTheorems, SequenceTheorems, TLAPS

-----------------------------------------------------------------------------
(* Sequences *)

\* A set of indices has a first one.
LEMMA FirstIndex ==
  ASSUME NEW I \in SUBSET Nat, I # {}
  PROVE  \E i \in I : \A j \in I : i <= j
<1>1. PICK i \in I : \A j \in I : ~ (<<j, i>> \in OpToRel(<, Nat))
  BY NatLessThanWellFounded, WFMin
<1>2. \A j \in I : ~ (j < i)
  BY <1>1 DEF OpToRel
<1> QED BY <1>2

\* A concatenation, half by half.
LEMMA ConcatParts ==
  ASSUME NEW S, NEW s \in Seq(S), NEW t \in Seq(S)
  PROVE  LET m == Len(s)
             n == Len(t)
         IN  /\ m \in Nat /\ n \in Nat
             /\ DOMAIN s = 1 .. m /\ DOMAIN t = 1 .. n
             /\ s \o t \in Seq(S) /\ Len(s \o t) = m + n /\ DOMAIN (s \o t) = 1 .. m + n
             /\ \A i \in 1 .. m : (s \o t)[i] = s[i]
             /\ \A i \in 1 .. n : (s \o t)[m + i] = t[i]
             /\ \A i \in 1 .. m + n : i \in 1 .. m \/ (i - m \in 1 .. n /\ m + (i - m) = i)
<1> DEFINE m == Len(s)
           n == Len(t)
           w == s \o t
<1>1. m \in Nat /\ n \in Nat /\ DOMAIN s = 1 .. m /\ DOMAIN t = 1 .. n
  BY LenProperties
<1>2. /\ w \in Seq(S) /\ Len(w) = m + n
      /\ \A i \in 1 .. m + n : w[i] = IF i <= m THEN s[i] ELSE t[i - m]
  BY ConcatProperties
<1>3. DOMAIN w = 1 .. m + n
  BY <1>2, LenProperties
<1> HIDE DEF m, n, w
<1>4. \A i \in 1 .. m : w[i] = s[i]
  BY <1>1, <1>2
<1>5. \A i \in 1 .. n : w[m + i] = t[i]
  <2> SUFFICES ASSUME NEW i \in 1 .. n PROVE w[m + i] = t[i]
    OBVIOUS
  <2>1. m + i \in 1 .. m + n /\ ~ (m + i <= m) /\ (m + i) - m = i
    BY <1>1
  <2> QED BY <1>2, <2>1
<1>6. \A i \in 1 .. m + n : i \in 1 .. m \/ (i - m \in 1 .. n /\ m + (i - m) = i)
  BY <1>1
<1> QED BY <1>1, <1>2, <1>3, <1>4, <1>5, <1>6 DEF m, n, w

LEMMA ConcatSet ==
  ASSUME NEW S, NEW s \in Seq(S), NEW t \in Seq(S)
  PROVE  ToSet(s \o t) = {s[i] : i \in DOMAIN s} \cup {t[i] : i \in DOMAIN t}
<1> DEFINE m == Len(s)
           n == Len(t)
           w == s \o t
<1>1. /\ m \in Nat /\ n \in Nat
      /\ DOMAIN s = 1 .. m /\ DOMAIN t = 1 .. n /\ DOMAIN w = 1 .. m + n
      /\ \A i \in 1 .. m : w[i] = s[i]
      /\ \A i \in 1 .. n : w[m + i] = t[i]
      /\ \A i \in 1 .. m + n : i \in 1 .. m \/ (i - m \in 1 .. n /\ m + (i - m) = i)
  BY ConcatParts
<1> HIDE DEF m, n, w
<1>2. ToSet(w) = {w[i] : i \in 1 .. m + n}
  BY <1>1 DEF ToSet
<1>3. ASSUME NEW i \in 1 .. m + n
      PROVE  w[i] \in {s[j] : j \in DOMAIN s} \cup {t[j] : j \in DOMAIN t}
  BY <1>1
<1>4. /\ \A i \in 1 .. m : i \in 1 .. m + n
      /\ \A i \in 1 .. n : m + i \in 1 .. m + n
  BY <1>1
<1> QED BY <1>1, <1>2, <1>3, <1>4 DEF w

-----------------------------------------------------------------------------
(* The rule grammar *)

\* The token lists that can be read, by length and by the words at each position.
Generic(rule) == Len(rule) = 2 /\ rule[1].word \in GENERIC_RULES
Short(rule) ==
  /\ Len(rule) = 6 /\ rule[1].word = "match"
  /\ rule[3].word = "with" /\ rule[4].word \in DestTypes /\ rule[5].word = "from"
InSource(rule) ==
  /\ Len(rule) = 8 /\ rule[1].word = "match"
  /\ rule[3].word = "in" /\ rule[5].word = "with" /\ rule[6].word \in DestTypes
  /\ rule[7].word = "from"
InDestination(rule) ==
  /\ Len(rule) = 8 /\ rule[1].word = "match"
  /\ rule[3].word = "with" /\ rule[4].word \in DestTypes /\ rule[5].word = "in"
  /\ rule[7].word = "from"
Long(rule) ==
  /\ Len(rule) = 10 /\ rule[1].word = "match"
  /\ rule[3].word = "in" /\ rule[5].word = "with" /\ rule[6].word \in DestTypes
  /\ rule[7].word = "in" /\ rule[9].word = "from"

MatchData(pattern, source_prefix, dest_prefix, dest_type, dest_name) ==
  [rule_type |-> "match", pattern |-> pattern, source_prefix |-> source_prefix,
   dest_prefix |-> dest_prefix, dest_type |-> dest_type, dest_name |-> dest_name]

\* Which of the formats a MATCH rule has, and what is read of it.
LEMMA UnpackMatchCases ==
  ASSUME NEW rule \in Rule, rule[1].word = "match"
  PROVE  /\ Short(rule) =>
              UnpackMatch(rule) = {MatchData(rule[2], NoToken, NoToken, rule[4].word, rule[6])}
         /\ InSource(rule) =>
              UnpackMatch(rule) = {MatchData(rule[2], rule[4], NoToken, rule[6].word, rule[8])}
         /\ InDestination(rule) =>
              UnpackMatch(rule) = {MatchData(rule[2], NoToken, rule[6], rule[4].word, rule[8])}
         /\ Long(rule) =>
              UnpackMatch(rule) = {MatchData(rule[2], rule[4], rule[8], rule[6].word, rule[10])}
         /\ UnpackMatch(rule) # {} =>
              Short(rule) \/ InSource(rule) \/ InDestination(rule) \/ Long(rule)
<1> DEFINE Fits(f) == /\ Len(rule) = f.length
                      /\ \A k \in f.keywords : rule[k[1]].word = k[2]
                      /\ rule[f.dest_type].word \in DestTypes
           Data(f) == [rule_type |-> "match", pattern |-> rule[2],
                       source_prefix |-> Value(rule, f.source_prefix),
                       dest_prefix |-> Value(rule, f.dest_prefix),
                       dest_type |-> rule[f.dest_type].word,
                       dest_name |-> Value(rule, f.dest_name)]
           long == [length |-> 10,
                    keywords |-> {<<3, "in">>, <<5, "with">>, <<7, "in">>, <<9, "from">>},
                    source_prefix |-> 4, dest_type |-> 6, dest_prefix |-> 8, dest_name |-> 10]
           source == [length |-> 8, keywords |-> {<<3, "in">>, <<5, "with">>, <<7, "from">>},
                      source_prefix |-> 4, dest_type |-> 6, dest_prefix |-> 0, dest_name |-> 8]
           destination ==
             [length |-> 8, keywords |-> {<<3, "with">>, <<5, "in">>, <<7, "from">>},
              source_prefix |-> 0, dest_type |-> 4, dest_prefix |-> 6, dest_name |-> 8]
           short == [length |-> 6, keywords |-> {<<3, "with">>, <<5, "from">>},
                     source_prefix |-> 0, dest_type |-> 4, dest_prefix |-> 0, dest_name |-> 6]
<1>1. UnpackMatch(rule) = {Data(f) : f \in {g \in MatchFormats : Fits(g)}}
  BY DEF UnpackMatch
<1>2. MatchFormats = {long, source, destination, short}
  BY DEF MatchFormats
<1>3. /\ Fits(long) <=> Long(rule)
      /\ Fits(source) <=> InSource(rule)
      /\ Fits(destination) <=> InDestination(rule)
      /\ Fits(short) <=> Short(rule)
  <2>1. /\ (\A k \in {<<3, "in">>, <<5, "with">>, <<7, "in">>, <<9, "from">>} :
               rule[k[1]].word = k[2])
             <=> /\ rule[3].word = "in" /\ rule[5].word = "with"
                 /\ rule[7].word = "in" /\ rule[9].word = "from"
        /\ (\A k \in {<<3, "in">>, <<5, "with">>, <<7, "from">>} : rule[k[1]].word = k[2])
             <=> rule[3].word = "in" /\ rule[5].word = "with" /\ rule[7].word = "from"
        /\ (\A k \in {<<3, "with">>, <<5, "in">>, <<7, "from">>} : rule[k[1]].word = k[2])
             <=> rule[3].word = "with" /\ rule[5].word = "in" /\ rule[7].word = "from"
        /\ (\A k \in {<<3, "with">>, <<5, "from">>} : rule[k[1]].word = k[2])
             <=> rule[3].word = "with" /\ rule[5].word = "from"
    BY SMT
  <2> QED BY <2>1, Zenon DEF Long, InSource, InDestination, Short
<1>4. /\ Data(long) = MatchData(rule[2], rule[4], rule[8], rule[6].word, rule[10])
      /\ Data(source) = MatchData(rule[2], rule[4], NoToken, rule[6].word, rule[8])
      /\ Data(destination) = MatchData(rule[2], NoToken, rule[6], rule[4].word, rule[8])
      /\ Data(short) = MatchData(rule[2], NoToken, NoToken, rule[4].word, rule[6])
  BY DEF Value, MatchData
<1>5. /\ ~ (Long(rule) /\ (InSource(rule) \/ InDestination(rule) \/ Short(rule)))
      /\ ~ (InSource(rule) /\ (InDestination(rule) \/ Short(rule)))
      /\ ~ (InDestination(rule) /\ Short(rule))
  BY DEF Long, InSource, InDestination, Short
<1> HIDE DEF Fits, Data, long, source, destination, short
<1> QED BY <1>1, <1>2, <1>3, <1>4, <1>5

\* unpack_rule reads exactly these lists, each in one way.
LEMMA UnpackCases ==
  ASSUME NEW rule \in Rule
  PROVE  /\ Generic(rule) =>
              Unpack(rule) = {[rule_type |-> rule[1].word, pattern |-> rule[2]]}
         /\ Short(rule) =>
              Unpack(rule) = {MatchData(rule[2], NoToken, NoToken, rule[4].word, rule[6])}
         /\ InSource(rule) =>
              Unpack(rule) = {MatchData(rule[2], rule[4], NoToken, rule[6].word, rule[8])}
         /\ InDestination(rule) =>
              Unpack(rule) = {MatchData(rule[2], NoToken, rule[6], rule[4].word, rule[8])}
         /\ Long(rule) =>
              Unpack(rule) = {MatchData(rule[2], rule[4], rule[8], rule[6].word, rule[10])}
         /\ Unpack(rule) # {} =>
              \/ Generic(rule)
              \/ Short(rule) \/ InSource(rule) \/ InDestination(rule) \/ Long(rule)
<1>1. CASE rule[1].word \in GENERIC_RULES
  <2>1. rule[1].word # "match"
    BY <1>1 DEF GENERIC_RULES
  <2>2. ~ (Short(rule) \/ InSource(rule) \/ InDestination(rule) \/ Long(rule))
    BY <2>1 DEF Short, InSource, InDestination, Long
  <2>3. CASE Len(rule) = 2
    <3>1. {2} \cap {Len(rule)} = {2} /\ ~ (Len(rule) < 2)
      BY <2>3
    <3>2. Unpack(rule) = {[rule_type |-> rule[1].word, pattern |-> rule[2]]}
      BY <1>1, <3>1 DEF Unpack
    <3> QED BY <1>1, <2>2, <2>3, <3>2 DEF Generic
  <2>4. CASE Len(rule) # 2
    <3>1. {2} \cap {Len(rule)} = {}
      BY <2>4
    <3>2. Unpack(rule) = {}
      BY <1>1, <3>1 DEF Unpack
    <3> QED BY <2>2, <2>4, <3>2 DEF Generic
  <2> QED BY <2>3, <2>4
<1>2. CASE rule[1].word = "match"
  <2>1. ~ Generic(rule) /\ rule[1].word \notin GENERIC_RULES /\ rule[1].word \in COMPLEX_RULES
    BY <1>2 DEF Generic, GENERIC_RULES, COMPLEX_RULES
  <2>2. CASE Len(rule) < 2
    <3>1. Unpack(rule) = {}
      BY <2>2 DEF Unpack
    <3> QED BY <2>1, <2>2, <3>1 DEF Short, InSource, InDestination, Long
  <2>3. CASE ~ (Len(rule) < 2)
    <3>1. Unpack(rule) = UnpackMatch(rule)
      BY <2>1, <2>3 DEF Unpack
    <3> QED BY <1>2, <2>1, <3>1, UnpackMatchCases
  <2> QED BY <2>2, <2>3
<1>3. CASE rule[1].word \notin GENERIC_RULES /\ rule[1].word # "match"
  <2>1. Unpack(rule) = {}
    BY <1>3 DEF Unpack, COMPLEX_RULES
  <2> QED BY <1>3, <2>1 DEF Generic, Short, InSource, InDestination, Long
<1> QED BY <1>1, <1>2, <1>3

Readable(rule) ==
  Generic(rule) \/ Short(rule) \/ InSource(rule) \/ InDestination(rule) \/ Long(rule)

LEMMA UnpackReadable ==
  ASSUME NEW rule \in Rule
  PROVE  Unpack(rule) # {} <=> Readable(rule)
BY UnpackCases DEF Readable

\* What remains of a token list from position i on.
LEMMA FromFacts ==
  ASSUME NEW rule \in Rule, NEW i \in Nat \ {0}, i <= Len(rule) + 1
  PROVE  /\ Len(rule) \in Nat
         /\ From(rule, i) # << >> <=> i <= Len(rule)
         /\ i <= Len(rule) => /\ From(rule, i)[1] = rule[i]
                              /\ From(From(rule, i), 2) = From(rule, i + 1)
<1> DEFINE n == Len(rule)
<1>1. n \in Nat /\ (\A j \in i .. n : rule[j] \in Words)
  BY LenProperties, ElementOfSeq DEF Rule
<1>2. /\ From(rule, i) \in Seq(Words)
      /\ Len(From(rule, i)) = IF i <= n THEN n - i + 1 ELSE 0
      /\ \A j \in 1 .. n - i + 1 : From(rule, i)[j] = rule[i + j - 1]
  BY <1>1, SubSeqProperties DEF From
<1>3. From(rule, i) # << >> <=> i <= n
  BY <1>1, <1>2, EmptySeq
<1>4. ASSUME i <= n PROVE From(From(rule, i), 2) = From(rule, i + 1)
  <2> DEFINE s == From(rule, i)
             t == From(s, 2)
             u == From(rule, i + 1)
  <2>1. Len(s) = n - i + 1 /\ Len(s) \in Nat /\ (\A j \in 1 .. Len(s) : s[j] \in Words)
    BY <1>1, <1>2, <1>4
  <2>2. /\ t \in Seq(Words) /\ Len(t) = n - i
        /\ \A j \in 1 .. n - i : t[j] = s[2 + j - 1]
    BY <1>1, <1>4, <2>1, SubSeqProperties DEF From
  <2>3. /\ u \in Seq(Words) /\ Len(u) = n - i
        /\ \A j \in 1 .. n - i : u[j] = rule[i + 1 + j - 1]
    BY <1>1, <1>4, SubSeqProperties DEF From
  <2>4. \A j \in 1 .. n - i : t[j] = u[j]
    BY <1>1, <1>2, <1>4, <2>2, <2>3
  <2> QED BY <2>2, <2>3, <2>4, SeqEqual
<1> QED BY <1>1, <1>2, <1>3, <1>4

LEMMA AfterKeywordFrom ==
  ASSUME NEW rule \in Rule, NEW i \in Nat \ {0}, i <= Len(rule) + 1, NEW keyword
  PROVE  /\ AfterKeyword(From(rule, i), keyword) =
              IF i <= Len(rule) /\ rule[i].word = keyword THEN {From(rule, i + 1)} ELSE {}
         /\ AfterAny(From(rule, i)) = IF i <= Len(rule) THEN {From(rule, i + 1)} ELSE {}
BY FromFacts DEF AfterKeyword, AfterAny

\* The optional IN part, the WITH part and the FROM part, by position.
LEMMA AfterParts ==
  ASSUME NEW rule \in Rule, NEW i \in Nat \ {0}, i <= Len(rule) + 1
  PROVE  /\ AfterIn(From(rule, i)) =
              {From(rule, i)} \cup IF i + 1 <= Len(rule) /\ rule[i].word = "in"
                                   THEN {From(rule, i + 2)} ELSE {}
         /\ AfterWith(From(rule, i)) =
              IF /\ i + 1 <= Len(rule) /\ rule[i].word = "with"
                 /\ rule[i + 1].word \in DestTypes
              THEN {From(rule, i + 2)} ELSE {}
         /\ << >> \in AfterFrom(From(rule, i)) <=> Len(rule) = i + 1 /\ rule[i].word = "from"
<1> DEFINE n == Len(rule)
           s == From(rule, i)
<1>1. n \in Nat
  BY FromFacts
<1>2. \A keyword :
        AfterKeyword(s, keyword) =
          IF i <= n /\ rule[i].word = keyword THEN {From(rule, i + 1)} ELSE {}
  BY AfterKeywordFrom
<1>3. CASE i <= n
  <2>1. i + 1 \in Nat \ {0} /\ i + 1 <= n + 1 /\ (i + 1) + 1 = i + 2
    BY <1>1, <1>3
  <2>2. AfterAny(From(rule, i + 1)) = IF i + 1 <= n THEN {From(rule, i + 2)} ELSE {}
    BY <2>1, AfterKeywordFrom
  <2>3. \A keyword :
          AfterKeyword(From(rule, i + 1), keyword) =
            IF i + 1 <= n /\ rule[i + 1].word = keyword THEN {From(rule, i + 2)} ELSE {}
    BY <2>1, AfterKeywordFrom
  <2>4. AfterIn(s) = {s} \cup IF i + 1 <= n /\ rule[i].word = "in"
                              THEN {From(rule, i + 2)} ELSE {}
    BY <1>2, <1>3, <2>2 DEF AfterIn
  <2>5. AfterWith(s) =
          IF i + 1 <= n /\ rule[i].word = "with" /\ rule[i + 1].word \in DestTypes
          THEN {From(rule, i + 2)} ELSE {}
    <3> DEFINE Type(r) == AfterKeyword(r, "materials") \cup AfterKeyword(r, "products")
    <3>1. AfterWith(s) = UNION {Type(r) : r \in AfterKeyword(s, "with")}
      BY DEF AfterWith
    <3>2. Type(From(rule, i + 1)) =
            IF i + 1 <= n /\ rule[i + 1].word \in DestTypes THEN {From(rule, i + 2)} ELSE {}
      BY <2>3 DEF DestTypes
    <3>3. AfterKeyword(s, "with") = IF rule[i].word = "with" THEN {From(rule, i + 1)} ELSE {}
      BY <1>2, <1>3
    <3> HIDE DEF Type
    <3> QED BY <3>1, <3>2, <3>3
  <2>6. i + 1 <= n => (From(rule, i + 2) = << >> <=> n = i + 1)
    <3>1. i + 1 <= n => i + 2 \in Nat \ {0} /\ i + 2 <= n + 1
      BY <1>1
    <3> QED BY <1>1, <3>1, FromFacts
  <2>7. << >> \in AfterFrom(s) <=> n = i + 1 /\ rule[i].word = "from"
    BY <1>1, <1>2, <1>3, <2>2, <2>6 DEF AfterFrom
  <2> QED BY <2>4, <2>5, <2>7
<1>4. CASE ~ (i <= n)
  <2>1. \A keyword : AfterKeyword(s, keyword) = {}
    BY <1>2, <1>4
  <2>2. ~ (i + 1 <= n) /\ n # i + 1
    BY <1>1, <1>4
  <2>3. AfterIn(s) = {s} /\ AfterWith(s) = {} /\ AfterFrom(s) = {}
    BY <2>1 DEF AfterIn, AfterWith, AfterFrom
  <2> QED BY <2>2, <2>3
<1> QED BY <1>3, <1>4

\* The lists that can be read are those of the documented language.
LEMMA ReadableLanguage ==
  ASSUME NEW rule \in Rule
  PROVE  Readable(rule) <=> InLanguage(rule)
<1> DEFINE n == Len(rule)
           In(i) == i + 1 <= n /\ rule[i].word = "in"
           With(i) == i + 1 <= n /\ rule[i].word = "with" /\ rule[i + 1].word \in DestTypes
           Ends(i) == n = i + 1 /\ rule[i].word = "from"
           Tail1(i) == Ends(i) \/ (In(i) /\ Ends(i + 2))
           Tail2(i) == With(i) /\ Tail1(i + 2)
<1>1. n \in Nat
  BY LenProperties DEF Rule
<1> HIDE DEF n
<1>2. ASSUME NEW i \in Nat \ {0}, i <= n + 1
      PROVE  (\E c \in AfterIn(From(rule, i)) : << >> \in AfterFrom(c)) <=> Tail1(i)
  <2>1. /\ AfterIn(From(rule, i)) = {From(rule, i)} \cup IF In(i) THEN {From(rule, i + 2)} ELSE {}
        /\ << >> \in AfterFrom(From(rule, i)) <=> Ends(i)
    BY <1>2, AfterParts DEF n
  <2>2. In(i) => (<< >> \in AfterFrom(From(rule, i + 2)) <=> Ends(i + 2))
    <3> SUFFICES ASSUME In(i) PROVE << >> \in AfterFrom(From(rule, i + 2)) <=> Ends(i + 2)
      OBVIOUS
    <3>1. i + 2 \in Nat \ {0} /\ i + 2 <= n + 1
      BY <1>1
    <3> QED BY <3>1, AfterParts DEF n
  <2> QED BY <2>1, <2>2
<1>3. ASSUME NEW i \in Nat \ {0}, i <= n + 1
      PROVE  (\E b \in AfterWith(From(rule, i)) : \E c \in AfterIn(b) : << >> \in AfterFrom(c))
               <=> Tail2(i)
  <2>1. AfterWith(From(rule, i)) = IF With(i) THEN {From(rule, i + 2)} ELSE {}
    BY <1>3, AfterParts DEF n
  <2>2. With(i) => i + 2 \in Nat \ {0} /\ i + 2 <= n + 1
    BY <1>1
  <2> HIDE DEF With, Tail1
  <2> QED BY <1>2, <2>1, <2>2
<1>4. ASSUME n > 2
      PROVE  (\E a \in AfterIn(From(rule, 3)) : \E b \in AfterWith(a) : \E c \in AfterIn(b) :
                << >> \in AfterFrom(c))
               <=> Tail2(3) \/ (In(3) /\ Tail2(5))
  <2>1. 3 \in Nat \ {0} /\ 3 <= n + 1 /\ 3 + 2 = 5
    BY <1>1, <1>4
  <2>2. AfterIn(From(rule, 3)) = {From(rule, 3)} \cup IF In(3) THEN {From(rule, 5)} ELSE {}
    BY <2>1, AfterParts DEF n
  <2>3. In(3) => 5 \in Nat \ {0} /\ 5 <= n + 1
    BY <1>1
  <2> HIDE DEF In, Tail2
  <2> QED BY <1>3, <2>1, <2>2, <2>3
<1>5. InLanguage(rule) <=>
        \/ Generic(rule)
        \/ n > 2 /\ rule[1].word = "match" /\ (Tail2(3) \/ (In(3) /\ Tail2(5)))
  BY <1>4 DEF InLanguage, Generic, n
<1>6. n > 2 /\ rule[1].word = "match" /\ Tail2(3) <=> Short(rule) \/ InDestination(rule)
  BY <1>1 DEF Short, InDestination, n
<1>7. n > 2 /\ rule[1].word = "match" /\ In(3) /\ Tail2(5) <=> InSource(rule) \/ Long(rule)
  BY <1>1 DEF InSource, Long, n
<1> HIDE DEF In, Tail2
<1> QED BY <1>5, <1>6, <1>7 DEF Readable

\* The one spelling of the empty word, and those of keywords.
LEMMA WordFacts ==
  /\ NoToken \in Words
  /\ \A t \in Words : t.word = EmptyWord => t = NoToken
  /\ \A keyword \in KEYWORDS : /\ Upper(keyword) \in Words
                               /\ Upper(keyword).word = keyword /\ keyword # EmptyWord
<1>1. NoToken \in Words
  BY LayoutAssumption DEF NoToken, Lower, Token, Words
<1>2. ASSUME NEW t \in Words, t.word = EmptyWord PROVE t = NoToken
  <2>1. t = [word |-> t.word, upper |-> t.upper] /\ t.upper = FALSE
    BY <1>2 DEF Words
  <2> QED BY <1>2, <2>1 DEF NoToken, Lower, Token
<1>3. ASSUME NEW keyword \in KEYWORDS
      PROVE  /\ Upper(keyword) \in Words
             /\ Upper(keyword).word = keyword /\ keyword # EmptyWord
  <2>1. keyword \in STRING
    BY LayoutAssumption
  <2>3. keyword # EmptyWord
    BY LayoutAssumption
  <2>2. Upper(keyword) = [word |-> keyword, upper |-> TRUE]
    BY DEF Upper, Token
  <2> QED BY <2>1, <2>2, <2>3 DEF Words
<1> QED BY <1>1, <1>2, <1>3

\* A generic rule is written in two tokens.
LEMMA PackGeneric ==
  ASSUME NEW type \in GENERIC_RULES, NEW pattern \in Words
  PROVE  LET data == [rule_type |-> type, pattern |-> pattern]
             rule == <<Upper(type), pattern>>
         IN  Pack(data) = {rule} /\ Unpack(rule) = {data}
<1> DEFINE data == [rule_type |-> type, pattern |-> pattern]
           rule == <<Upper(type), pattern>>
<1>1. type \in KEYWORDS /\ type # "match"
  BY DEF KEYWORDS, ALL_RULES, GENERIC_RULES
<1>2. Upper(type) \in Words /\ Upper(type).word = type
  BY <1>1, WordFacts
<1>3. rule \in Rule /\ Generic(rule) /\ rule[1].word = type /\ rule[2] = pattern
  BY <1>2 DEF Rule, Generic
<1>4. Unpack(rule) = {data}
  BY <1>3, UnpackCases
<1>5. Pack(data) = {rule}
  BY <1>1 DEF Pack
<1> QED BY <1>4, <1>5

\* Three pairs of words with two lists in between.
HasParts(w, S, a, b, s, c, d, t, e, f) ==
  LET m == Len(s)
      n == Len(t)
  IN  /\ w \in Seq(S) /\ m \in Nat /\ n \in Nat /\ Len(w) = 6 + m + n
      /\ w[1] = a /\ w[2] = b
      /\ \A i \in 1 .. m : w[2 + i] = s[i]
      /\ w[3 + m] = c /\ w[4 + m] = d
      /\ \A i \in 1 .. n : w[4 + m + i] = t[i]
      /\ w[5 + m + n] = e /\ w[6 + m + n] = f

LEMMA FiveParts ==
  ASSUME NEW S, NEW a \in S, NEW b \in S, NEW c \in S, NEW d \in S, NEW e \in S, NEW f \in S,
         NEW s \in Seq(S), NEW t \in Seq(S)
  PROVE  HasParts(<<a, b>> \o s \o <<c, d>> \o t \o <<e, f>>, S, a, b, s, c, d, t, e, f)
<1> DEFINE m == Len(s)
           n == Len(t)
           x == <<a, b>> \o s
           y == x \o <<c, d>>
           z == y \o t
           w == z \o <<e, f>>
<1>1. m \in Nat /\ n \in Nat
  BY LenProperties
<1>2. \A p, q \in S : <<p, q>> \in Seq(S) /\ Len(<<p, q>>) = 2 /\ <<p, q>>[1] = p /\ <<p, q>>[2] = q
  OBVIOUS
<1> HIDE DEF m, n
<1>3. /\ x \in Seq(S) /\ Len(x) = 2 + m
      /\ x[1] = a /\ x[2] = b /\ \A i \in 1 .. m : x[2 + i] = s[i]
  <2>1. /\ x \in Seq(S) /\ Len(x) = 2 + m
        /\ \A i \in 1 .. 2 + m : x[i] = IF i <= 2 THEN <<a, b>>[i] ELSE s[i - 2]
    BY <1>2, ConcatProperties DEF m
  <2> QED BY <1>1, <1>2, <2>1
<1> HIDE DEF x
<1>4. /\ y \in Seq(S) /\ Len(y) = 4 + m /\ \A i \in 1 .. 2 + m : y[i] = x[i]
      /\ y[3 + m] = c /\ y[4 + m] = d
  <2>1. /\ y \in Seq(S) /\ Len(y) = (2 + m) + 2
        /\ \A i \in 1 .. (2 + m) + 2 : y[i] = IF i <= 2 + m THEN x[i] ELSE <<c, d>>[i - (2 + m)]
    BY <1>2, <1>3, ConcatProperties
  <2> QED BY <1>1, <1>2, <2>1
<1> HIDE DEF y
<1>5. /\ z \in Seq(S) /\ Len(z) = 4 + m + n /\ \A i \in 1 .. 4 + m : z[i] = y[i]
      /\ \A i \in 1 .. n : z[4 + m + i] = t[i]
  <2>1. /\ z \in Seq(S) /\ Len(z) = Len(y) + Len(t)
        /\ \A i \in 1 .. Len(y) + Len(t) : z[i] = IF i <= Len(y) THEN y[i] ELSE t[i - Len(y)]
    BY <1>4, ConcatProperties
  <2>2. Len(y) = 4 + m /\ Len(t) = n
    BY <1>4 DEF n
  <2> HIDE DEF z
  <2> QED BY <1>1, <2>1, <2>2
<1> HIDE DEF z
<1>6. /\ w \in Seq(S) /\ Len(w) = 6 + m + n /\ \A i \in 1 .. 4 + m + n : w[i] = z[i]
      /\ w[5 + m + n] = e /\ w[6 + m + n] = f
  <2> DEFINE q == <<e, f>>
  <2>1. q \in Seq(S) /\ Len(q) = 2 /\ q[1] = e /\ q[2] = f
    OBVIOUS
  <2> HIDE DEF q
  <2>2. /\ w \in Seq(S) /\ Len(w) = Len(z) + Len(q)
        /\ \A i \in 1 .. Len(z) + Len(q) : w[i] = IF i <= Len(z) THEN z[i] ELSE q[i - Len(z)]
    BY <1>5, <2>1, ConcatProperties DEF q
  <2>3. Len(z) = 4 + m + n
    BY <1>5
  <2> HIDE DEF w
  <2> QED BY <1>1, <2>1, <2>2, <2>3
<1> HIDE DEF w
<1>7. \A i \in 1 .. 2 + m : w[i] = x[i]
  <2> SUFFICES ASSUME NEW i \in 1 .. 2 + m PROVE w[i] = x[i]
    OBVIOUS
  <2>1. i \in 1 .. 4 + m /\ i \in 1 .. 4 + m + n
    BY <1>1
  <2> QED BY <1>4, <1>5, <1>6, <2>1
<1>8. w[1] = a /\ w[2] = b /\ \A i \in 1 .. m : w[2 + i] = s[i]
  BY <1>1, <1>3, <1>7
<1>9. w[3 + m] = c /\ w[4 + m] = d
  <2>1. 3 + m \in 1 .. 4 + m /\ 4 + m \in 1 .. 4 + m
        /\ 3 + m \in 1 .. 4 + m + n /\ 4 + m \in 1 .. 4 + m + n
    BY <1>1
  <2> QED BY <1>4, <1>5, <1>6, <2>1
<1>10. \A i \in 1 .. n : w[4 + m + i] = t[i]
  <2>1. \A i \in 1 .. n : 4 + m + i \in 1 .. 4 + m + n
    BY <1>1
  <2> QED BY <1>5, <1>6, <2>1
<1> QED BY <1>1, <1>6, <1>8, <1>9, <1>10 DEF HasParts, m, n, w, x, y, z

PacksAgain(data) ==
  /\ data.dest_name.word = EmptyWord => Pack(data) = {}
  /\ data.dest_name.word # EmptyWord =>
       \E rule \in Rule : Pack(data) = {rule} /\ Unpack(rule) = {data}

\* A MATCH rule is written in six to ten tokens.
LEMMA PackMatch ==
  ASSUME NEW pattern \in Words, NEW source_prefix \in Words, NEW dest_prefix \in Words,
         NEW dest_type \in DestTypes, NEW dest_name \in Words
  PROVE  PacksAgain(MatchData(pattern, source_prefix, dest_prefix, dest_type, dest_name))
<1> DEFINE data == MatchData(pattern, source_prefix, dest_prefix, dest_type, dest_name)
           match == Upper("match")
           in == Upper("in")
           with == Upper("with")
           from == Upper("from")
           type == Upper(dest_type)
           packed == <<match, pattern>> \o Optional(in, source_prefix) \o <<with, type>>
                       \o Optional(in, dest_prefix) \o <<from, dest_name>>
<1>1. data.rule_type = "match" /\ data.pattern = pattern /\ data.source_prefix = source_prefix
      /\ data.dest_prefix = dest_prefix /\ data.dest_type = dest_type
      /\ data.dest_name = dest_name
  BY DEF MatchData
<1>2. ASSUME dest_name.word = EmptyWord PROVE Pack(data) = {}
  BY <1>1, <1>2 DEF Pack
<1>3. ASSUME dest_name.word # EmptyWord
      PROVE  \E rule \in Rule : Pack(data) = {rule} /\ Unpack(rule) = {data}
  <2>1. Pack(data) = {packed}
    BY <1>1, <1>3 DEF Pack
  <2>2. /\ match \in Words /\ in \in Words /\ with \in Words /\ from \in Words /\ type \in Words
        /\ match.word = "match" /\ in.word = "in" /\ with.word = "with"
        /\ from.word = "from" /\ type.word = dest_type
    BY WordFacts DEF KEYWORDS, ALL_RULES, COMPLEX_RULES, DestTypes
  <2> HIDE DEF match, in, with, from, type
  <2> DEFINE s == Optional(in, source_prefix)
             t == Optional(in, dest_prefix)
  <2>3. s \in Seq(Words) /\ t \in Seq(Words)
    BY <2>2 DEF Optional
  <2> HIDE DEF s, t
  <2>4. LET m == Len(s)
            n == Len(t)
        IN  /\ packed \in Seq(Words) /\ m \in Nat /\ n \in Nat /\ Len(packed) = 6 + m + n
            /\ packed[1] = match /\ packed[2] = pattern
            /\ \A i \in 1 .. m : packed[2 + i] = s[i]
            /\ packed[3 + m] = with /\ packed[4 + m] = type
            /\ \A i \in 1 .. n : packed[4 + m + i] = t[i]
            /\ packed[5 + m + n] = from /\ packed[6 + m + n] = dest_name
    <3>1. <<match, pattern>> \o s \o <<with, type>> \o t \o <<from, dest_name>> = packed
      BY DEF s, t
    <3>2. dest_name \in Words /\ pattern \in Words
      OBVIOUS
    <3> HIDE DEF packed
    <3>3. HasParts(<<match, pattern>> \o s \o <<with, type>> \o t \o <<from, dest_name>>,
                   Words, match, pattern, s, with, type, t, from, dest_name)
      BY <2>2, <2>3, <3>2, FiveParts, Zenon
    <3>4. HasParts(packed, Words, match, pattern, s, with, type, t, from, dest_name)
      BY <3>1, <3>3
    <3> QED BY <3>4 DEF HasParts
  <2> HIDE DEF packed
  <2>5. CASE source_prefix.word = EmptyWord /\ dest_prefix.word = EmptyWord
    <3>1. Len(s) = 0 /\ Len(t) = 0
          /\ source_prefix = NoToken
          /\ dest_prefix = NoToken
      BY <2>5, WordFacts DEF Optional, s, t
    <3>2. Short(packed)
      BY <2>2, <2>4, <3>1 DEF Short
    <3>3. packed[2] = pattern /\ packed[4].word = dest_type /\ packed[6] = dest_name
      BY <2>2, <2>4, <3>1
    <3>4. Unpack(packed) = {data}
      BY <2>4, <3>1, <3>2, <3>3, UnpackCases DEF Rule
    <3> QED BY <1>3, <2>1, <2>4, <3>4 DEF Rule
  <2>6. CASE source_prefix.word # EmptyWord /\ dest_prefix.word = EmptyWord
    <3>1. Len(s) = 2 /\ Len(t) = 0
          /\ s[1] = in /\ s[2] = source_prefix
          /\ dest_prefix = NoToken
      BY <2>6, WordFacts DEF Optional, s, t
    <3>2. InSource(packed)
      BY <2>2, <2>4, <3>1 DEF InSource
    <3>3. packed[2] = pattern /\ packed[4] = source_prefix /\ packed[6].word = dest_type /\ packed[8] = dest_name
      BY <2>2, <2>4, <3>1
    <3>4. Unpack(packed) = {data}
      BY <2>4, <3>1, <3>2, <3>3, UnpackCases DEF Rule
    <3> QED BY <1>3, <2>1, <2>4, <3>4 DEF Rule
  <2>7. CASE source_prefix.word = EmptyWord /\ dest_prefix.word # EmptyWord
    <3>1. Len(s) = 0 /\ Len(t) = 2
          /\ t[1] = in /\ t[2] = dest_prefix
          /\ source_prefix = NoToken
      BY <2>7, WordFacts DEF Optional, s, t
    <3>2. InDestination(packed)
      BY <2>2, <2>4, <3>1 DEF InDestination
    <3>3. packed[2] = pattern /\ packed[4].word = dest_type /\ packed[6] = dest_prefix /\ packed[8] = dest_name
      BY <2>2, <2>4, <3>1
    <3>4. Unpack(packed) = {data}
      BY <2>4, <3>1, <3>2, <3>3, UnpackCases DEF Rule
    <3> QED BY <1>3, <2>1, <2>4, <3>4 DEF Rule
  <2>8. CASE source_prefix.word # EmptyWord /\ dest_prefix.word # EmptyWord
    <3>1. Len(s) = 2 /\ Len(t) = 2
          /\ s[1] = in /\ s[2] = source_prefix
          /\ t[1] = in /\ t[2] = dest_prefix
      BY <2>8, WordFacts DEF Optional, s, t
    <3>2. Long(packed)
      BY <2>2, <2>4, <3>1 DEF Long
    <3>3. packed[2] = pattern /\ packed[4] = source_prefix /\ packed[6].word = dest_type /\ packed[8] = dest_prefix /\ packed[10] = dest_name
      BY <2>2, <2>4, <3>1
    <3>4. Unpack(packed) = {data}
      BY <2>4, <3>1, <3>2, <3>3, UnpackCases DEF Rule
    <3> QED BY <1>3, <2>1, <2>4, <3>4 DEF Rule
  <2> QED BY <2>5, <2>6, <2>7, <2>8
<1> HIDE DEF data
<1> QED BY <1>1, <1>2, <1>3 DEF PacksAgain, data


\* What is read of a rule and written again reads the same, unless it names no step.
LEMMA RoundTrip ==
  ASSUME NEW rule \in Rule
  PROVE  /\ Cardinality(Unpack(rule)) <= 1
         /\ UNION {UNION {Unpack(r) : r \in Pack(d)} : d \in Unpack(rule)} =
              {d \in Unpack(rule) : d.rule_type = "match" => d.dest_name.word # EmptyWord}
<1> DEFINE Again(d) == UNION {Unpack(r) : r \in Pack(d)}
           Kept(d) == d.rule_type = "match" => d.dest_name.word # EmptyWord
<1>1. CASE Unpack(rule) = {}
  BY <1>1, FS_EmptySet
<1>2. ASSUME NEW d, Unpack(rule) = {d}, Again(d) = IF Kept(d) THEN {d} ELSE {}
      PROVE  /\ Cardinality(Unpack(rule)) <= 1
             /\ UNION {Again(e) : e \in Unpack(rule)} = {e \in Unpack(rule) : Kept(e)}
  <2>1. Cardinality(Unpack(rule)) = 1
    BY <1>2, FS_Singleton
  <2> HIDE DEF Again, Kept
  <2> QED BY <1>2, <2>1
<1>3. \A i \in 1 .. Len(rule) : rule[i] \in Words
  BY ElementOfSeq DEF Rule
<1>4. CASE Generic(rule)
  <2> DEFINE d == [rule_type |-> rule[1].word, pattern |-> rule[2]]
  <2>1. Unpack(rule) = {d}
    BY <1>4, UnpackCases
  <2>2. rule[1].word \in GENERIC_RULES /\ rule[2] \in Words /\ Kept(d)
    BY <1>3, <1>4 DEF Generic, GENERIC_RULES
  <2>3. LET r == <<Upper(rule[1].word), rule[2]>>
        IN  Pack(d) = {r} /\ Unpack(r) = {d}
    BY <2>2, PackGeneric, Zenon
  <2>4. Again(d) = {d}
    BY <2>3
  <2> HIDE DEF d, Again, Kept
  <2> QED BY <1>2, <2>1, <2>2, <2>4 DEF Again, Kept
<1>5. ASSUME NEW p \in Words, NEW source \in Words, NEW dest \in Words, NEW type \in DestTypes,
             NEW name \in Words, Unpack(rule) = {MatchData(p, source, dest, type, name)}
      PROVE  /\ Cardinality(Unpack(rule)) <= 1
             /\ UNION {Again(e) : e \in Unpack(rule)} = {e \in Unpack(rule) : Kept(e)}
  <2> DEFINE d == MatchData(p, source, dest, type, name)
  <2>1. d.rule_type = "match"
    BY DEF MatchData
  <2>2. PacksAgain(d)
    BY PackMatch, Zenon
  <2>3. Again(d) = IF Kept(d) THEN {d} ELSE {}
    <3> HIDE DEF d
    <3> QED BY <2>1, <2>2 DEF PacksAgain
  <2> HIDE DEF d, Again, Kept
  <2> QED BY <1>2, <1>5, <2>3 DEF d
<1>6. NoToken \in Words
  BY WordFacts
<1>7. CASE Short(rule)
  <2>1. rule[2] \in Words /\ rule[6] \in Words /\ rule[4].word \in DestTypes
    BY <1>3, <1>7 DEF Short
  <2>2. Unpack(rule) = {MatchData(rule[2], NoToken, NoToken, rule[4].word, rule[6])}
    BY <1>7, UnpackCases
  <2> QED BY <1>5, <1>6, <2>1, <2>2, Zenon
<1>8. CASE InSource(rule)
  <2>1. rule[2] \in Words /\ rule[4] \in Words /\ rule[8] \in Words /\ rule[6].word \in DestTypes
    BY <1>3, <1>8 DEF InSource
  <2>2. Unpack(rule) = {MatchData(rule[2], rule[4], NoToken, rule[6].word, rule[8])}
    BY <1>8, UnpackCases
  <2> QED BY <1>5, <1>6, <2>1, <2>2, Zenon
<1>9. CASE InDestination(rule)
  <2>1. rule[2] \in Words /\ rule[6] \in Words /\ rule[8] \in Words /\ rule[4].word \in DestTypes
    BY <1>3, <1>9 DEF InDestination
  <2>2. Unpack(rule) = {MatchData(rule[2], NoToken, rule[6], rule[4].word, rule[8])}
    BY <1>9, UnpackCases
  <2> QED BY <1>5, <1>6, <2>1, <2>2, Zenon
<1>10. CASE Long(rule)
  <2>1. rule[2] \in Words /\ rule[4] \in Words /\ rule[8] \in Words /\ rule[10] \in Words /\ rule[6].word \in DestTypes
    BY <1>3, <1>10 DEF Long
  <2>2. Unpack(rule) = {MatchData(rule[2], rule[4], rule[8], rule[6].word, rule[10])}
    BY <1>10, UnpackCases
  <2> QED BY <1>5, <2>1, <2>2, Zenon
<1> QED BY <1>1, <1>4, <1>7, <1>8, <1>9, <1>10, UnpackReadable DEF Readable


-----------------------------------------------------------------------------
(* Layouts *)

\* Steps and inspections in one list.
LEMMA ItemsFacts ==
  ASSUME NEW l \in Layout
  PROVE  LET m == Len(l.steps)
             n == Len(l.inspect)
         IN  /\ m \in Nat /\ n \in Nat
             /\ l.steps \in Seq(Item) /\ l.inspect \in Seq(Item)
             /\ DOMAIN l.steps = 1 .. m /\ DOMAIN l.inspect = 1 .. n
             /\ Items(l) \in Seq(Item) /\ DOMAIN Items(l) = 1 .. m + n
             /\ Len(Items(l)) = m + n
             /\ \A i \in 1 .. m : Items(l)[i] = l.steps[i]
             /\ \A i \in 1 .. n : Items(l)[m + i] = l.inspect[i]
             /\ \A i \in 1 .. m + n : i \in 1 .. m \/ (i - m \in 1 .. n /\ m + (i - m) = i)
<1> DEFINE s == l.steps
           t == l.inspect
<1>1. s \in Seq(Item) /\ t \in Seq(Item)
  BY DEF Layout
<1>2. Items(l) = s \o t
  BY DEF Items
<1> HIDE DEF s, t
<1>3. /\ Len(s) \in Nat /\ Len(t) \in Nat
      /\ DOMAIN s = 1 .. Len(s) /\ DOMAIN t = 1 .. Len(t)
      /\ s \o t \in Seq(Item) /\ Len(s \o t) = Len(s) + Len(t)
      /\ DOMAIN (s \o t) = 1 .. Len(s) + Len(t)
  BY <1>1, ConcatParts
<1>4. /\ \A i \in 1 .. Len(s) : (s \o t)[i] = s[i]
      /\ \A i \in 1 .. Len(t) : (s \o t)[Len(s) + i] = t[i]
  BY <1>1, ConcatParts
<1>5. \A i \in 1 .. Len(s) + Len(t) :
        i \in 1 .. Len(s) \/ (i - Len(s) \in 1 .. Len(t) /\ Len(s) + (i - Len(s)) = i)
  BY <1>3
<1> QED BY <1>1, <1>2, <1>3, <1>4, <1>5 DEF s, t

ReadableList(rules) == \A i \in DOMAIN rules : Readable(rules[i])

\* An item is valid when the rules of both of its lists can be read.
LEMMA ValidItemLists ==
  ASSUME NEW item \in Item
  PROVE  /\ \A r \in RuleLists : item[r] \in Seq(Rule)
         /\ ValidItem(item) <=> \A r \in RuleLists : ReadableList(item[r])
<1> DEFINE s == item.expected_materials
           t == item.expected_products
<1>1. s \in Seq(Rule) /\ t \in Seq(Rule)
  BY DEF Item
<1>2. \A r \in RuleLists : item[r] \in Seq(Rule)
  BY <1>1 DEF RuleLists
<1>3. RulesOf(item) = {s[i] : i \in DOMAIN s} \cup {t[i] : i \in DOMAIN t}
  BY <1>1, ConcatSet DEF RulesOf
<1>4. (\A i \in DOMAIN s : s[i] \in Rule) /\ (\A i \in DOMAIN t : t[i] \in Rule)
  BY <1>1, ElementOfSeq
<1> HIDE DEF s, t
<1>5. ValidItem(item) <=> ReadableList(s) /\ ReadableList(t)
  BY <1>3, <1>4, UnpackReadable DEF ValidItem, ReadableList
<1> QED BY <1>2, <1>5 DEF RuleLists, s, t

\* The lists of a layout with no rule that cannot be read.
ReadableItems(items) ==
  items \in Seq(Item) /\ \A i \in DOMAIN items : ValidItem(items[i])

LEMMA IsLayoutLists ==
  ASSUME NEW l \in Layout
  PROVE  IsLayout(l) <=> \A list \in Lists : ReadableItems(l[list])
<1> DEFINE m == Len(l.steps)
           n == Len(l.inspect)
<1>1. /\ m \in Nat /\ n \in Nat
      /\ l.steps \in Seq(Item) /\ l.inspect \in Seq(Item)
      /\ DOMAIN l.steps = 1 .. m /\ DOMAIN l.inspect = 1 .. n
      /\ DOMAIN Items(l) = 1 .. m + n
      /\ \A i \in 1 .. m : Items(l)[i] = l.steps[i]
      /\ \A i \in 1 .. n : Items(l)[m + i] = l.inspect[i]
      /\ \A i \in 1 .. m + n : i \in 1 .. m \/ (i - m \in 1 .. n /\ m + (i - m) = i)
  BY ItemsFacts
<1> HIDE DEF m, n
<1>2. /\ \A i \in 1 .. m : i \in 1 .. m + n
      /\ \A i \in 1 .. n : m + i \in 1 .. m + n
  BY <1>1
<1>3. (\A i \in DOMAIN Items(l) : ValidItem(Items(l)[i])) <=>
        /\ \A i \in DOMAIN l.steps : ValidItem(l.steps[i])
        /\ \A i \in DOMAIN l.inspect : ValidItem(l.inspect[i])
  BY <1>1, <1>2
<1> QED BY <1>1, <1>3 DEF IsLayout, ReadableItems, Lists


-----------------------------------------------------------------------------
(* Substitution *)

KnownToken(token, parameters) ==
  token.word \in Placeholders => token.word \in DOMAIN parameters
KnownList(tokens, parameters) == \A i \in DOMAIN tokens : KnownToken(tokens[i], parameters)

\* A keyword is no placeholder, and the value of a placeholder is a word.
LEMMA SubstituteToken ==
  ASSUME NEW parameters \in ParameterDicts, NEW token \in Words, KnownToken(token, parameters)
  PROVE  /\ Substitute(token, parameters) \in Words
         /\ token.word \in KEYWORDS => Substitute(token, parameters) = token
<1>1. CASE token.word \in Placeholders
  <2>1. parameters[token.word] \in STRING /\ token.word \notin KEYWORDS
    BY <1>1, LayoutAssumption DEF KnownToken
  <2>2. Substitute(token, parameters) = [word |-> parameters[token.word], upper |-> FALSE]
    BY <1>1 DEF Substitute, Lower, Token
  <2> QED BY <2>1, <2>2 DEF Words
<1>2. CASE token.word \notin Placeholders
  BY <1>2 DEF Substitute
<1> QED BY <1>1, <1>2

\* A rule that can be read can be read with values for its placeholders.
LEMMA SubstituteRule ==
  ASSUME NEW parameters \in ParameterDicts, NEW tokens \in Rule, KnownList(tokens, parameters)
  PROVE  /\ SubstituteList(tokens, parameters) \in Rule
         /\ Readable(tokens) => Readable(SubstituteList(tokens, parameters))
<1> DEFINE new == SubstituteList(tokens, parameters)
           n == Len(tokens)
<1>1. n \in Nat /\ DOMAIN tokens = 1 .. n /\ \A i \in 1 .. n : tokens[i] \in Words
  BY LenProperties, ElementOfSeq DEF Rule
<1>2. new = [i \in 1 .. n |-> Substitute(tokens[i], parameters)]
  BY <1>1 DEF SubstituteList
<1>3. \A i \in 1 .. n : /\ Substitute(tokens[i], parameters) \in Words
                        /\ tokens[i].word \in KEYWORDS =>
                             Substitute(tokens[i], parameters) = tokens[i]
  BY <1>1, SubstituteToken DEF KnownList
<1> HIDE DEF n, new
<1>4. new \in Rule /\ Len(new) = n
  BY <1>1, <1>2, <1>3, SeqDef, LenProperties DEF Rule
<1>5. \A i \in 1 .. n : tokens[i].word \in KEYWORDS => new[i] = tokens[i]
  BY <1>2, <1>3
<1>6. /\ GENERIC_RULES \subseteq KEYWORDS /\ DestTypes \subseteq KEYWORDS
      /\ "match" \in KEYWORDS /\ "in" \in KEYWORDS /\ "with" \in KEYWORDS /\ "from" \in KEYWORDS
  BY DEF KEYWORDS, ALL_RULES, COMPLEX_RULES
<1>7. Generic(tokens) => Generic(new)
  BY <1>1, <1>4, <1>5, <1>6 DEF Generic, n
<1>8. Short(tokens) => Short(new)
  BY <1>1, <1>4, <1>5, <1>6 DEF Short, n
<1>9. InSource(tokens) => InSource(new)
  BY <1>1, <1>4, <1>5, <1>6 DEF InSource, n
<1>10. InDestination(tokens) => InDestination(new)
  BY <1>1, <1>4, <1>5, <1>6 DEF InDestination, n
<1>11. Long(tokens) => Long(new)
  BY <1>1, <1>4, <1>5, <1>6 DEF Long, n
<1> QED BY <1>4, <1>7, <1>8, <1>9, <1>10, <1>11 DEF Readable, new

LEMMA SubstituteRules ==
  ASSUME NEW parameters \in ParameterDicts, NEW rules \in Seq(Rule),
         \A i \in DOMAIN rules : KnownList(rules[i], parameters)
  PROVE  /\ SubstituteLists(rules, parameters) \in Seq(Rule)
         /\ ReadableList(rules) => ReadableList(SubstituteLists(rules, parameters))
<1> DEFINE new == SubstituteLists(rules, parameters)
           n == Len(rules)
<1>1. n \in Nat /\ DOMAIN rules = 1 .. n /\ \A i \in 1 .. n : rules[i] \in Rule
  BY LenProperties, ElementOfSeq
<1>2. new = [i \in 1 .. n |-> SubstituteList(rules[i], parameters)]
  BY <1>1 DEF SubstituteLists
<1>3. \A i \in 1 .. n : /\ SubstituteList(rules[i], parameters) \in Rule
                        /\ Readable(rules[i]) => Readable(SubstituteList(rules[i], parameters))
  BY <1>1, SubstituteRule
<1> HIDE DEF n, new
<1>4. new \in Seq(Rule)
  BY <1>1, <1>2, <1>3, SeqDef
<1>5. ReadableList(rules) => ReadableList(new)
  BY <1>1, <1>2, <1>3 DEF ReadableList
<1> QED BY <1>4, <1>5 DEF new

\* All lists of an item whose words are known are known.
LEMMA KnownLists ==
  ASSUME NEW item \in Item, NEW parameters, Known(item, parameters)
  PROVE  /\ KnownList(item.command, parameters)
         /\ \A r \in RuleLists : \A i \in DOMAIN item[r] : KnownList(item[r][i], parameters)
<1> DEFINE s == item.expected_materials
           t == item.expected_products
<1>1. s \in Seq(Rule) /\ t \in Seq(Rule)
  BY DEF Item
<1>2. RulesOf(item) = {s[i] : i \in DOMAIN s} \cup {t[i] : i \in DOMAIN t}
  BY <1>1, ConcatSet DEF RulesOf
<1>3. \A w \in WordsOf(item) : w \in Placeholders => w \in DOMAIN parameters
  BY DEF Known
<1>4. \A i \in DOMAIN item.command : item.command[i].word \in WordsOf(item)
  BY DEF WordsOf, ToSet
<1>5. \A rule \in RulesOf(item) : \A i \in DOMAIN rule : rule[i].word \in WordsOf(item)
  BY DEF WordsOf, ToSet
<1>6. \A rule \in RulesOf(item) : KnownList(rule, parameters)
  BY <1>3, <1>5 DEF KnownList, KnownToken
<1>7. KnownList(item.command, parameters)
  BY <1>3, <1>4 DEF KnownList, KnownToken
<1> HIDE DEF s, t
<1>8. (\A i \in DOMAIN s : KnownList(s[i], parameters))
      /\ (\A i \in DOMAIN t : KnownList(t[i], parameters))
  BY <1>2, <1>6
<1> QED BY <1>7, <1>8 DEF RuleLists, s, t

LEMMA SubstituteItemValid ==
  ASSUME NEW parameters \in ParameterDicts, NEW item \in Item, ValidItem(item),
         Known(item, parameters)
  PROVE  SubstituteItem(item, parameters) \in Item /\ ValidItem(SubstituteItem(item, parameters))
<1> DEFINE new == SubstituteItem(item, parameters)
           s == item.expected_materials
           t == item.expected_products
<1>1. s \in Seq(Rule) /\ t \in Seq(Rule) /\ ReadableList(s) /\ ReadableList(t)
  BY ValidItemLists DEF RuleLists
<1>2. /\ KnownList(item.command, parameters)
      /\ \A i \in DOMAIN s : KnownList(s[i], parameters)
      /\ \A i \in DOMAIN t : KnownList(t[i], parameters)
  BY KnownLists DEF RuleLists
<1>3. /\ SubstituteLists(s, parameters) \in Seq(Rule)
      /\ ReadableList(SubstituteLists(s, parameters))
  BY <1>1, <1>2, SubstituteRules
<1>4. /\ SubstituteLists(t, parameters) \in Seq(Rule)
      /\ ReadableList(SubstituteLists(t, parameters))
  BY <1>1, <1>2, SubstituteRules
<1>5. item.command \in Rule
  BY DEF Item, Rule
<1>6. SubstituteList(item.command, parameters) \in Seq(Words)
  BY <1>2, <1>5, SubstituteRule DEF Rule
<1>7. new \in Item
  <2> DEFINE x == SubstituteLists(s, parameters)
             y == SubstituteLists(t, parameters)
             z == SubstituteList(item.command, parameters)
             R == Seq(Rule)
             C == Seq(Words)
  <2>1. new = [item EXCEPT !.expected_materials = x, !.expected_products = y, !.command = z]
    BY DEF SubstituteItem
  <2>2. Item = [name : Names, expected_materials : R, expected_products : R, command : C]
    BY DEF Item
  <2>3. x \in R /\ y \in R /\ z \in C
    BY <1>3, <1>4, <1>6
  <2> HIDE DEF x, y, z, new, R, C
  <2> QED BY <2>1, <2>2, <2>3
<1>8. new.expected_materials = SubstituteLists(s, parameters)
      /\ new.expected_products = SubstituteLists(t, parameters)
  BY DEF SubstituteItem, Item
<1> HIDE DEF new, s, t
<1>9. \A r \in RuleLists : ReadableList(new[r])
  BY <1>3, <1>4, <1>8 DEF RuleLists
<1>10. ValidItem(new)
  BY <1>7, <1>9, ValidItemLists
<1> QED BY <1>7, <1>10 DEF new


\* The items before the first with an unknown placeholder are rewritten, no other.
LEMMA RewritableKnown ==
  ASSUME NEW l \in Layout, NEW parameters
  PROVE  /\ Rewritable(l, parameters) \in Nat
         /\ \A i \in DOMAIN Items(l) :
              i <= Rewritable(l, parameters) => Known(Items(l)[i], parameters)
<1> DEFINE n == Len(Items(l))
           G == {i \in DOMAIN Items(l) : \A j \in 1..i : Known(Items(l)[j], parameters)}
<1>1. n \in Nat /\ DOMAIN Items(l) = 1 .. n
  BY ItemsFacts
<1>2. Rewritable(l, parameters) = Cardinality(G)
  BY DEF Rewritable
<1>3. G \subseteq 1 .. n /\ \A i \in G : \A j \in 1 .. n : j <= i => j \in G
  BY <1>1
<1>4. \A i \in G : Known(Items(l)[i], parameters)
  BY <1>1
<1> HIDE DEF n, G
<1>5. IsFiniteSet(G) /\ Cardinality(G) \in Nat
  <2>1. IsFiniteSet(1 .. n)
    BY <1>1, FS_Interval
  <2>2. IsFiniteSet(G)
    BY <1>3, <2>1, FS_Subset
  <2> QED BY <2>2, FS_CardinalityType
<1>6. ASSUME NEW i \in 1 .. n, i \notin G PROVE ~ (i <= Cardinality(G))
  <2>1. G \subseteq 1 .. i - 1
    BY <1>1, <1>3, <1>6
  <2>2. IsFiniteSet(1 .. i - 1) /\ Cardinality(1 .. i - 1) = i - 1
    BY <1>1, FS_Interval
  <2>3. Cardinality(G) <= Cardinality(1 .. i - 1)
    BY <2>1, <2>2, FS_Subset, Zenon
  <2> QED BY <1>1, <1>5, <2>2, <2>3
<1> QED BY <1>1, <1>2, <1>4, <1>5, <1>6

\* A list some of whose items are rewritten.
LEMMA SubstituteItems ==
  ASSUME NEW parameters \in ParameterDicts, NEW items, ReadableItems(items),
         NEW B \in SUBSET Nat, \A i \in DOMAIN items \cap B : Known(items[i], parameters)
  PROVE  ReadableItems([i \in DOMAIN items |->
                          IF i \in B THEN SubstituteItem(items[i], parameters) ELSE items[i]])
<1> DEFINE n == Len(items)
           new == [i \in DOMAIN items |->
                     IF i \in B THEN SubstituteItem(items[i], parameters) ELSE items[i]]
<1>1. /\ items \in Seq(Item) /\ n \in Nat /\ DOMAIN items = 1 .. n
      /\ \A i \in 1 .. n : items[i] \in Item /\ ValidItem(items[i])
  BY LenProperties, ElementOfSeq DEF ReadableItems
<1>2. \A i \in 1 .. n \cap B : /\ SubstituteItem(items[i], parameters) \in Item
                               /\ ValidItem(SubstituteItem(items[i], parameters))
  BY <1>1, SubstituteItemValid
<1>3. \A i \in 1 .. n : new[i] \in Item /\ ValidItem(new[i])
  BY <1>1, <1>2
<1>4. new = [i \in 1 .. n |-> new[i]] /\ DOMAIN new = 1 .. n
  BY <1>1
<1> HIDE DEF new, n
<1>5. new \in Seq(Item)
  BY <1>1, <1>3, <1>4, SeqDef
<1> QED BY <1>3, <1>4, <1>5 DEF ReadableItems, new

Substituted(l, parameters) ==
  [l EXCEPT !.steps = [i \in DOMAIN @ |-> SubstituteItem(@[i], parameters)],
            !.inspect = [i \in DOMAIN @ |-> SubstituteItem(@[i], parameters)]]

\* A layout stays one, whether or not the substitution is complete, and a complete one
\* rewrites every item.
LEMMA SubstituteLayout ==
  ASSUME NEW parameters \in ParameterDicts, NEW l, IsLayout(l)
  PROVE  /\ IsLayout(SubstituteParameters(l, parameters))
         /\ Rewritable(l, parameters) = Len(Items(l)) =>
              SubstituteParameters(l, parameters) = Substituted(l, parameters)
<1> DEFINE n == Rewritable(l, parameters)
           m == Len(l.steps)
           B == {i \in Nat : i <= n}
           C == {i \in Nat : m + i <= n}
           steps == [i \in DOMAIN l.steps |->
                       IF i <= n THEN SubstituteItem(l.steps[i], parameters) ELSE l.steps[i]]
           inspect == [i \in DOMAIN l.inspect |->
                         IF m + i <= n THEN SubstituteItem(l.inspect[i], parameters)
                         ELSE l.inspect[i]]
           new == SubstituteParameters(l, parameters)
<1>1. l \in Layout /\ ReadableItems(l.steps) /\ ReadableItems(l.inspect)
  BY IsLayoutLists DEF IsLayout, Lists
<1>2. new = [l EXCEPT !.steps = steps, !.inspect = inspect]
  BY DEF SubstituteParameters
<1>3. /\ m \in Nat /\ Len(l.inspect) \in Nat
      /\ DOMAIN l.steps = 1 .. m /\ DOMAIN l.inspect = 1 .. Len(l.inspect)
      /\ DOMAIN Items(l) = 1 .. m + Len(l.inspect) /\ Len(Items(l)) = m + Len(l.inspect)
      /\ \A i \in 1 .. m : Items(l)[i] = l.steps[i]
      /\ \A i \in 1 .. Len(l.inspect) : Items(l)[m + i] = l.inspect[i]
  BY <1>1, ItemsFacts
<1>4. n \in Nat /\ \A i \in DOMAIN Items(l) : i <= n => Known(Items(l)[i], parameters)
  BY <1>1, RewritableKnown
<1> HIDE DEF n, m
<1>5. ReadableItems(steps)
  <2>1. \A i \in DOMAIN l.steps \cap B : Known(l.steps[i], parameters)
    BY <1>3, <1>4
  <2>2. steps = [i \in DOMAIN l.steps |->
                   IF i \in B THEN SubstituteItem(l.steps[i], parameters) ELSE l.steps[i]]
    BY <1>3
  <2> HIDE DEF steps
  <2>3. B \in SUBSET Nat
    OBVIOUS
  <2> HIDE DEF B
  <2> QED BY <1>1, <2>1, <2>2, <2>3, SubstituteItems
<1>6. ReadableItems(inspect)
  <2>1. \A i \in DOMAIN l.inspect \cap C : Known(l.inspect[i], parameters)
    BY <1>3, <1>4
  <2>2. inspect = [i \in DOMAIN l.inspect |->
                     IF i \in C THEN SubstituteItem(l.inspect[i], parameters) ELSE l.inspect[i]]
    BY <1>3
  <2> HIDE DEF inspect
  <2>3. C \in SUBSET Nat
    OBVIOUS
  <2> HIDE DEF C
  <2> QED BY <1>1, <2>1, <2>2, <2>3, SubstituteItems
<1>7. IsLayout(new)
  <2>1. steps \in Seq(Item) /\ inspect \in Seq(Item)
    BY <1>5, <1>6 DEF ReadableItems
  <2> HIDE DEF steps, inspect, new
  <2>2. new \in Layout /\ new.steps = steps /\ new.inspect = inspect
    BY <1>1, <1>2, <2>1 DEF Layout
  <2> QED BY <1>5, <1>6, <2>2, IsLayoutLists DEF Lists
<1>8. ASSUME n = Len(Items(l)) PROVE new = Substituted(l, parameters)
  <2> DEFINE s == [i \in DOMAIN l.steps |-> SubstituteItem(l.steps[i], parameters)]
             t == [i \in DOMAIN l.inspect |-> SubstituteItem(l.inspect[i], parameters)]
  <2>1. steps = s
    BY <1>3, <1>8
  <2>2. inspect = t
    BY <1>3, <1>8
  <2>3. Substituted(l, parameters) = [l EXCEPT !.steps = s, !.inspect = t]
    BY DEF Substituted
  <2> HIDE DEF steps, inspect, s, t, new
  <2> QED BY <1>2, <2>1, <2>2, <2>3
<1> QED BY <1>7, <1>8 DEF n


-----------------------------------------------------------------------------
(* Removing by name *)

\* Everything but the element at one position.
LEMMA RemoveAtFacts ==
  ASSUME NEW S, NEW s \in Seq(S), NEW k \in 1 .. Len(s)
  PROVE  /\ RemoveAt(s, k) \in Seq(S) /\ Len(RemoveAt(s, k)) = Len(s) - 1
         /\ \A i \in 1 .. Len(s) - 1 : RemoveAt(s, k)[i] = s[IF i < k THEN i ELSE i + 1]
<1> DEFINE n == Len(s)
           x == SubSeq(s, 1, k - 1)
           y == SubSeq(s, k + 1, n)
<1>1. n \in Nat /\ k \in Nat /\ 1 <= k /\ k <= n /\ \A i \in 1 .. n : s[i] \in S
  BY LenProperties, ElementOfSeq
<1>2. RemoveAt(s, k) = x \o y
  BY DEF RemoveAt
<1> HIDE DEF n
<1>3. /\ x \in Seq(S) /\ Len(x) = k - 1
      /\ \A i \in 1 .. k - 1 : x[i] = s[i]
  <2>1. /\ x \in Seq(S) /\ Len(x) = IF 1 <= k - 1 THEN k - 1 - 1 + 1 ELSE 0
        /\ \A i \in 1 .. k - 1 - 1 + 1 : x[i] = s[1 + i - 1]
    BY <1>1, SubSeqProperties
  <2> HIDE DEF x
  <2> QED BY <1>1, <2>1
<1>4. /\ y \in Seq(S) /\ Len(y) = n - k
      /\ \A i \in 1 .. n - k : y[i] = s[k + i]
  <2>1. /\ y \in Seq(S) /\ Len(y) = IF k + 1 <= n THEN n - (k + 1) + 1 ELSE 0
        /\ \A i \in 1 .. n - (k + 1) + 1 : y[i] = s[k + 1 + i - 1]
    BY <1>1, SubSeqProperties
  <2> HIDE DEF y
  <2> QED BY <1>1, <2>1
<1> HIDE DEF x, y
<1>5. /\ x \o y \in Seq(S) /\ Len(x \o y) = Len(x) + Len(y)
      /\ \A i \in 1 .. Len(x) + Len(y) : (x \o y)[i] = IF i <= Len(x) THEN x[i] ELSE y[i - Len(x)]
  BY <1>3, <1>4, ConcatProperties
<1>6. Len(x) + Len(y) = n - 1
  BY <1>1, <1>3, <1>4
<1>7. ASSUME NEW i \in 1 .. n - 1 PROVE (x \o y)[i] = s[IF i < k THEN i ELSE i + 1]
  <2>1. CASE i < k
    BY <1>1, <1>3, <1>5, <1>6, <2>1
  <2>2. CASE ~ (i < k)
    <3>1. ~ (i <= Len(x)) /\ i - Len(x) \in 1 .. n - k /\ k + (i - Len(x)) = i + 1
      BY <1>1, <1>3, <2>2
    <3> QED BY <1>4, <1>5, <1>6, <2>2, <3>1
  <2> QED BY <2>1, <2>2
<1> QED BY <1>2, <1>5, <1>6, <1>7 DEF n

\* list.remove(x) takes the first element that equals x.
LEMMA RemoveFirstFacts ==
  ASSUME NEW S, NEW s \in Seq(S), NEW i \in 1 .. Len(s)
  PROVE  \E k \in 1 .. i : s[k] = s[i] /\ RemoveFirst(s, s[i]) = RemoveAt(s, k)
<1> DEFINE e == s[i]
           I == {j \in 1 .. Len(s) : s[j] = e}
<1>1. Len(s) \in Nat /\ i \in I /\ I \in SUBSET Nat
  BY LenProperties
<1>2. \E k \in I : \A j \in I : k <= j
  BY <1>1, FirstIndex
<1>3. Min(I) \in I /\ \A j \in I : Min(I) <= j
  BY <1>2, Zenon DEF Min
<1>4. SelectInSeq(s, LAMBDA v : v = e) = Min(I)
  BY <1>1 DEF SelectInSeq
<1>5. RemoveFirst(s, e) = RemoveAt(s, Min(I))
  BY <1>1, <1>4 DEF RemoveFirst
<1>6. Min(I) \in 1 .. i /\ s[Min(I)] = e
  BY <1>1, <1>3
<1> QED BY <1>5, <1>6


LEMMA KeepsAll ==
  ASSUME NEW s \in Seq(Item), NEW name
  PROVE  KeepsOthers(s, s, name)
<1> DEFINE at == [i \in DOMAIN s |-> i]
<1>1. at \in [DOMAIN s -> DOMAIN s] /\ \A i \in DOMAIN s : at[i] = i
  OBVIOUS
<1> HIDE DEF at
<1> QED BY <1>1 DEF KeepsOthers

\* One more element of that name may go.
LEMMA KeepsLess ==
  ASSUME NEW s \in Seq(Item), NEW old, NEW name, KeepsOthers(s, old, name),
         NEW k \in 1 .. Len(s), s[k].name = name
  PROVE  KeepsOthers(RemoveAt(s, k), old, name)
<1> DEFINE n == Len(s)
           new == RemoveAt(s, k)
           P(i) == IF i < k THEN i ELSE i + 1
<1>1. n \in Nat /\ DOMAIN s = 1 .. n /\ k \in 1 .. n
  BY LenProperties
<1>2. /\ new \in Seq(Item) /\ Len(new) = n - 1
      /\ \A i \in 1 .. n - 1 : new[i] = s[P(i)]
  BY RemoveAtFacts
<1>3. DOMAIN new = 1 .. n - 1
  BY <1>2, LenProperties
<1>4. PICK at \in [DOMAIN s -> DOMAIN old] :
        /\ \A i, j \in DOMAIN s : i < j => at[i] < at[j]
        /\ \A i \in DOMAIN s : s[i] = old[at[i]]
        /\ \A m \in DOMAIN old : old[m].name # name => \E i \in DOMAIN s : at[i] = m
  BY DEF KeepsOthers
<1> HIDE DEF n, new
<1>5. \A i \in 1 .. n - 1 : P(i) \in 1 .. n
  BY <1>1
<1>6. \A i, j \in 1 .. n - 1 : i < j => P(i) < P(j)
  BY <1>1
<1>7. \A i \in 1 .. n : i # k => \E j \in 1 .. n - 1 : P(j) = i
  <2> SUFFICES ASSUME NEW i \in 1 .. n, i # k PROVE \E j \in 1 .. n - 1 : P(j) = i
    OBVIOUS
  <2>1. CASE i < k
    BY <1>1, <2>1
  <2>2. CASE ~ (i < k)
    <3>1. i - 1 \in 1 .. n - 1 /\ P(i - 1) = i
      BY <1>1, <2>2
    <3> QED BY <3>1
  <2> QED BY <2>1, <2>2
<1> DEFINE at2 == [i \in DOMAIN new |-> at[P(i)]]
<1>8. at2 \in [DOMAIN new -> DOMAIN old] /\ \A i \in DOMAIN new : at2[i] = at[P(i)]
  BY <1>1, <1>3, <1>4, <1>5
<1> HIDE DEF at2, P
<1>9. \A i, j \in DOMAIN new : i < j => at2[i] < at2[j]
  BY <1>1, <1>3, <1>4, <1>5, <1>6, <1>8
<1>10. \A i \in DOMAIN new : new[i] = old[at2[i]]
  BY <1>1, <1>2, <1>3, <1>4, <1>5, <1>8
<1>11. ASSUME NEW m \in DOMAIN old, old[m].name # name PROVE \E i \in DOMAIN new : at2[i] = m
  <2>1. PICK i \in DOMAIN s : at[i] = m
    BY <1>4, <1>11
  <2>2. i # k
    BY <1>4, <1>11, <2>1
  <2>3. PICK j \in 1 .. n - 1 : P(j) = i
    BY <1>1, <1>7, <2>1, <2>2
  <2> QED BY <1>3, <1>8, <2>1, <2>3
<1> QED BY <1>8, <1>9, <1>10, <1>11 DEF KeepsOthers, new

NamedIn(items, name) == {i \in DOMAIN items : items[i].name = name}
Behind(items, name) == {i \in NamedIn(items, name) : i - 1 \in NamedIn(items, name)}

\* After i turns, r of which removed an item: what is ahead has moved by r places; the
\* turns met the old positions E, and any other of that name so far is right behind one.
Met(items, old, name, i, r, E) ==
  /\ items \in Seq(Item) /\ Len(items) + r = Len(old)
  /\ E \subseteq 1 .. (i + r) /\ Cardinality(E) = r
  /\ \A j \in (i + 1) .. Len(items) : items[j] = old[j + r]
  /\ \A m \in NamedIn(old, name) : m <= i + r => m \in E \cup Behind(old, name)
  /\ KeepsOthers(items, old, name)
Walked(items, old, name, i) ==
  \E r \in Nat : \E E \in SUBSET Nat : Met(items, old, name, i, r, E)

LEMMA WalkedStep ==
  ASSUME NEW old \in Seq(Item), NEW name, NEW s, NEW i \in Nat, Walked(s, old, name, i)
  PROVE  Walked(RemoveTurn(s, name, i + 1), old, name, i + 1)
<1> DEFINE N == Len(old)
           n == Len(s)
           new == RemoveTurn(s, name, i + 1)
<1>1. PICK r \in Nat : \E E \in SUBSET Nat : Met(s, old, name, i, r, E)
  BY DEF Walked
<1>2. PICK E \in SUBSET Nat : Met(s, old, name, i, r, E)
  BY <1>1
<1>3. /\ s \in Seq(Item) /\ n \in Nat /\ N \in Nat /\ n + r = N
      /\ DOMAIN s = 1 .. n /\ DOMAIN old = 1 .. N
      /\ \A j \in 1 .. n : s[j] \in Item
  BY <1>2, LenProperties, ElementOfSeq DEF Met
<1>4. /\ E \subseteq 1 .. (i + r) /\ Cardinality(E) = r
      /\ \A j \in (i + 1) .. n : s[j] = old[j + r]
      /\ \A m \in NamedIn(old, name) : m <= i + r => m \in E \cup Behind(old, name)
      /\ KeepsOthers(s, old, name)
  BY <1>2 DEF Met
<1> HIDE DEF N, n, new
<1>5. CASE i + 1 \in DOMAIN s /\ s[i + 1].name = name
  <2>1. PICK k \in 1 .. i + 1 : s[k] = s[i + 1] /\ new = RemoveAt(s, k)
    BY <1>3, <1>5, RemoveFirstFacts DEF RemoveTurn, n, new
  <2>2. k \in 1 .. n /\ i + 1 \in 1 .. n /\ i + 1 + r \in 1 .. N
    BY <1>3, <1>5
  <2>3. /\ new \in Seq(Item) /\ Len(new) = n - 1
        /\ \A j \in 1 .. n - 1 : new[j] = s[IF j < k THEN j ELSE j + 1]
    BY <1>3, <2>1, <2>2, RemoveAtFacts DEF n
  <2>4. KeepsOthers(new, old, name)
    BY <1>3, <1>4, <1>5, <2>1, <2>2, KeepsLess DEF n
  <2>5. \A j \in ((i + 1) + 1) .. Len(new) : new[j] = old[j + (r + 1)]
    <3> SUFFICES ASSUME NEW j \in ((i + 1) + 1) .. Len(new) PROVE new[j] = old[j + (r + 1)]
      OBVIOUS
    <3>1. j \in 1 .. n - 1 /\ ~ (j < k) /\ j + 1 \in (i + 1) .. n
      BY <1>3, <2>2, <2>3
    <3>2. new[j] = s[j + 1] /\ s[j + 1] = old[(j + 1) + r]
      BY <1>4, <2>3, <3>1
    <3>3. (j + 1) + r = j + (r + 1)
      OBVIOUS
    <3> QED BY <3>2, <3>3
  <2> DEFINE e == i + 1 + r
             F == E \cup {e}
  <2>6. e \in NamedIn(old, name)
    BY <1>3, <1>4, <1>5, <2>2 DEF NamedIn
  <2>7. F \in SUBSET Nat /\ F \subseteq 1 .. ((i + 1) + (r + 1)) /\ e \notin E /\ e \in Nat
    BY <1>4
  <2>8. Cardinality(F) = r + 1
    <3>1. IsFiniteSet(1 .. (i + r))
      BY FS_Interval
    <3>2. IsFiniteSet(E)
      BY <1>4, <3>1, FS_Subset
    <3> QED BY <1>4, <2>7, <3>2, FS_AddElement
  <2>9. ASSUME NEW m \in NamedIn(old, name), m <= (i + 1) + (r + 1)
        PROVE  m \in F \cup Behind(old, name)
    <3>0. m \in Nat
      BY <1>3 DEF NamedIn
    <3>1. CASE m <= i + r
      BY <1>4, <3>1
    <3>2. CASE m = e
      BY <3>2
    <3>3. CASE m = e + 1
      <4>1. m - 1 = e
        BY <3>3, <2>7
      <4> QED BY <2>6, <4>1 DEF Behind
    <3>4. m <= i + r \/ m = e \/ m = e + 1
      BY <2>9, <3>0
    <3> QED BY <3>1, <3>2, <3>3, <3>4
  <2>10. Len(new) + (r + 1) = N
    BY <1>3, <2>3
  <2> HIDE DEF F
  <2>11. Met(new, old, name, i + 1, r + 1, F)
    BY <2>3, <2>4, <2>5, <2>7, <2>8, <2>9, <2>10 DEF Met, N
  <2>12. r + 1 \in Nat
    OBVIOUS
  <2> QED BY <2>7, <2>11, <2>12 DEF Walked, new
<1>6. CASE ~ (i + 1 \in DOMAIN s /\ s[i + 1].name = name)
  <2>1. new = s
    BY <1>6 DEF RemoveTurn, new
  <2>2. E \subseteq 1 .. ((i + 1) + r)
    BY <1>4
  <2>3. \A j \in ((i + 1) + 1) .. n : s[j] = old[j + r]
    BY <1>4
  <2>4. ASSUME NEW m \in NamedIn(old, name), m <= (i + 1) + r
        PROVE  m \in E \cup Behind(old, name)
    <3>1. m \in 1 .. N /\ old[m].name = name
      BY <1>3 DEF NamedIn
    <3>2. CASE m <= i + r
      BY <1>4, <3>2
    <3>3. CASE m = (i + 1) + r
      <4>1. i + 1 \in 1 .. n
        BY <1>3, <3>1, <3>3
      <4>2. s[i + 1] = old[(i + 1) + r]
        BY <1>3, <1>4, <4>1
      <4> QED BY <1>3, <1>6, <3>1, <3>3, <4>1, <4>2
    <3> QED BY <2>4, <3>1, <3>2, <3>3
  <2>5. Met(s, old, name, i + 1, r, E)
    BY <1>3, <1>4, <2>2, <2>3, <2>4 DEF Met, n, N
  <2> QED BY <2>1, <2>5 DEF Walked, new
<1> QED BY <1>5, <1>6


\* The list after every turn of the loop.
LEMMA RestExists ==
  ASSUME NEW items, NEW name, NEW n \in Nat
  PROVE  \E f : f = [i \in 0 .. n |-> IF i = 0 THEN items ELSE RemoveTurn(f[i - 1], name, i)]
<1> DEFINE Is(f, m) ==
             f = [i \in 0 .. m |-> IF i = 0 THEN items ELSE RemoveTurn(f[i - 1], name, i)]
           Missing == {m \in Nat : ~ \E f : Is(f, m)}
<1>1. SUFFICES ASSUME Missing # {} PROVE FALSE
  OBVIOUS
<1>2. PICK m \in Missing : \A j \in Missing : m <= j
  BY <1>1, FirstIndex
<1>3. CASE m = 0
  <2> DEFINE f == [i \in 0 .. 0 |-> items]
  <2>1. f = [i \in 0 .. 0 |-> IF i = 0 THEN items ELSE RemoveTurn(f[i - 1], name, i)]
    <3> HIDE DEF f
    <3>1. \A i \in 0 .. 0 : i = 0
      OBVIOUS
    <3> QED BY <3>1 DEF f
  <2> HIDE DEF f
  <2> QED BY <1>2, <1>3, <2>1
<1>4. CASE m # 0
  <2>1. m \in Nat /\ m - 1 \in Nat /\ m - 1 \notin Missing
    <3>1. m \in Nat
      OBVIOUS
    <3> HIDE DEF Missing
    <3> QED BY <1>2, <1>4, <3>1
  <2>2. PICK f : Is(f, m - 1)
    BY <2>1
  <2> DEFINE g == [i \in 0 .. m |-> IF i = m THEN RemoveTurn(f[m - 1], name, m) ELSE f[i]]
  <2>3. \A i \in 0 .. m : i # 0 => g[i - 1] = f[i - 1]
    BY <2>1
  <2>4. \A i \in 0 .. m : g[i] = IF i = 0 THEN items ELSE RemoveTurn(g[i - 1], name, i)
    <3> SUFFICES ASSUME NEW i \in 0 .. m
                 PROVE  g[i] = IF i = 0 THEN items ELSE RemoveTurn(g[i - 1], name, i)
      OBVIOUS
    <3>1. CASE i = m
      BY <1>4, <2>3, <3>1
    <3>2. CASE i # m
      <4>1. i \in 0 .. m - 1
        BY <2>1, <3>2
      <4>2. f[i] = IF i = 0 THEN items ELSE RemoveTurn(f[i - 1], name, i)
        BY <2>2, <4>1
      <4> QED BY <2>3, <3>2, <4>2
    <3> QED BY <3>1, <3>2
  <2>5. g = [i \in 0 .. m |-> g[i]]
    OBVIOUS
  <2> HIDE DEF g
  <2>6. Is(g, m)
    BY <2>4, <2>5
  <2> QED BY <1>2, <2>6
<1> QED BY <1>3, <1>4

LEMMA RemoveNamedWalked ==
  ASSUME NEW old \in Seq(Item), NEW name
  PROVE  Walked(RemoveNamed(old, name), old, name, Len(old))
<1> DEFINE n == Len(old)
           rest == CHOOSE f : f = [i \in 0 .. Len(old) |->
                                     IF i = 0 THEN old ELSE RemoveTurn(f[i - 1], name, i)]
           Wrong == {i \in 0 .. n : ~ Walked(rest[i], old, name, i)}
<1>1. n \in Nat
  BY LenProperties
<1>2. RemoveNamed(old, name) = rest[n]
  BY DEF RemoveNamed
<1>3. rest = [i \in 0 .. n |-> IF i = 0 THEN old ELSE RemoveTurn(rest[i - 1], name, i)]
  BY <1>1, RestExists
<1> HIDE DEF n, rest
<1>4. \A i \in 0 .. n : rest[i] = IF i = 0 THEN old ELSE RemoveTurn(rest[i - 1], name, i)
  BY <1>3
<1>5. Walked(old, old, name, 0)
  <2>1. KeepsOthers(old, old, name)
    BY KeepsAll
  <2>2. Cardinality({}) = 0
    BY FS_EmptySet
  <2>3. \A m \in NamedIn(old, name) : ~ (m <= 0)
    BY LenProperties DEF NamedIn
  <2>4. Len(old) + 0 = Len(old) /\ \A j \in (0 + 1) .. Len(old) : old[j] = old[j + 0]
    BY LenProperties
  <2>5. Met(old, old, name, 0, 0, {})
    BY <2>1, <2>2, <2>3, <2>4 DEF Met
  <2> QED BY <2>5 DEF Walked
<1>6. SUFFICES ASSUME Wrong # {} PROVE FALSE
  BY <1>1, <1>2 DEF n
<1>7. PICK i \in Wrong : \A j \in Wrong : i <= j
  <2>1. Wrong \in SUBSET Nat
    BY <1>1
  <2> HIDE DEF Wrong
  <2> QED BY <1>6, <2>1, FirstIndex
<1>8. CASE i = 0
  BY <1>1, <1>4, <1>5, <1>7, <1>8
<1>9. CASE i # 0
  <2>1. i \in 0 .. n /\ i - 1 \in Nat /\ i - 1 \in 0 .. n /\ (i - 1) + 1 = i /\ i - 1 \notin Wrong
    BY <1>1, <1>7, <1>9
  <2>2. Walked(rest[i - 1], old, name, i - 1)
    BY <2>1
  <2>3. Walked(RemoveTurn(rest[i - 1], name, (i - 1) + 1), old, name, (i - 1) + 1)
    BY <2>1, <2>2, WalkedStep
  <2>4. Walked(rest[i], old, name, i)
    BY <1>4, <1>9, <2>1, <2>3
  <2> QED BY <1>7, <2>4
<1> QED BY <1>8, <1>9


\* Removing by name keeps all other items, and leaves no more of the name than stood right
\* behind another of it.
LEMMA Removed ==
  ASSUME NEW old \in Seq(Item), NEW name
  PROVE  LET new == RemoveNamed(old, name)
         IN  /\ new \in Seq(Item)
             /\ KeepsOthers(new, old, name)
             /\ Cardinality(NamedIn(new, name)) <= Cardinality(Behind(old, name))
<1> DEFINE new == RemoveNamed(old, name)
           n == Len(new)
           N == Len(old)
           Named == NamedIn(old, name)
           After == NamedIn(new, name)
           B == Behind(old, name)
<1>1. PICK r \in Nat : \E E \in SUBSET Nat : Met(new, old, name, N, r, E)
  BY RemoveNamedWalked DEF Walked
<1>2. PICK E \in SUBSET Nat : Met(new, old, name, N, r, E)
  BY <1>1
<1>3. /\ new \in Seq(Item) /\ n \in Nat /\ N \in Nat /\ n + r = N
      /\ DOMAIN new = 1 .. n /\ DOMAIN old = 1 .. N
      /\ KeepsOthers(new, old, name)
  BY <1>2, LenProperties DEF Met
<1>4. /\ E \subseteq 1 .. (N + r) /\ Cardinality(E) = r
      /\ \A m \in NamedIn(old, name) : m <= N + r => m \in E \cup Behind(old, name)
  BY <1>2 DEF Met
<1> HIDE DEF new, n, N
<1>5. Named \subseteq 1 .. N /\ B \subseteq Named /\ After \subseteq 1 .. n
  BY <1>3 DEF NamedIn, Behind
<1>6. /\ IsFiniteSet(1 .. N) /\ Cardinality(1 .. N) = N
      /\ IsFiniteSet(1 .. n) /\ Cardinality(1 .. n) = n
  BY <1>3, FS_Interval
<1>7. /\ IsFiniteSet(Named) /\ IsFiniteSet(B) /\ IsFiniteSet(After)
      /\ Cardinality(Named) \in Nat /\ Cardinality(B) \in Nat /\ Cardinality(After) \in Nat
  <2>1. IsFiniteSet(Named)
    BY <1>5, <1>6, FS_Subset
  <2>2. IsFiniteSet(B)
    BY <1>5, <2>1, FS_Subset
  <2>3. IsFiniteSet(After)
    BY <1>5, <1>6, FS_Subset
  <2> QED BY <2>1, <2>2, <2>3, FS_CardinalityType
<1>8. Cardinality(Named) <= r + Cardinality(B)
  <2>1. \A m \in Named : m <= N + r
    BY <1>3, <1>5
  <2>2. Named \subseteq E \cup B
    BY <1>4, <2>1
  <2>3. IsFiniteSet(1 .. (N + r))
    BY <1>3, FS_Interval
  <2>4. IsFiniteSet(E)
    BY <1>4, <2>3, FS_Subset
  <2> HIDE DEF Named, B
  <2>5. /\ IsFiniteSet(E \cup B)
        /\ Cardinality(E \cup B) = r + Cardinality(B) - Cardinality(E \cap B)
    BY <1>4, <1>7, <2>4, FS_Union
  <2>6. Cardinality(E \cap B) \in Nat
    BY <2>4, FS_Intersection, FS_CardinalityType
  <2>7. Cardinality(Named) <= Cardinality(E \cup B)
    BY <2>2, <2>5, FS_Subset
  <2> QED BY <1>7, <2>5, <2>6, <2>7
<1> DEFINE S == (1 .. n) \ After
           T == (1 .. N) \ Named
<1>9. /\ IsFiniteSet(S) /\ Cardinality(S) = n - Cardinality(After)
      /\ IsFiniteSet(T) /\ Cardinality(T) = N - Cardinality(Named)
  <2>1. (1 .. n) \cap After = After /\ (1 .. N) \cap Named = Named
    BY <1>5
  <2> HIDE DEF After, Named
  <2>2. /\ IsFiniteSet(S)
        /\ Cardinality(S) = Cardinality(1 .. n) - Cardinality((1 .. n) \cap After)
    BY <1>6, FS_Difference, Zenon
  <2>3. /\ IsFiniteSet(T)
        /\ Cardinality(T) = Cardinality(1 .. N) - Cardinality((1 .. N) \cap Named)
    BY <1>6, FS_Difference, Zenon
  <2> HIDE DEF S, T
  <2> QED BY <1>6, <2>1, <2>2, <2>3
<1>10. Cardinality(T) <= Cardinality(S)
  <2>1. PICK at \in [DOMAIN new -> DOMAIN old] :
          /\ \A i \in DOMAIN new : new[i] = old[at[i]]
          /\ \A m \in DOMAIN old : old[m].name # name => \E i \in DOMAIN new : at[i] = m
    BY <1>3 DEF KeepsOthers
  <2> DEFINE f == [i \in S |-> at[i]]
  <2>2. \A i \in S : at[i] \in T
    BY <1>3, <2>1 DEF NamedIn
  <2>3. \A m \in T : \E i \in S : at[i] = m
    BY <1>3, <2>1 DEF NamedIn
  <2> HIDE DEF S, T
  <2>4. f \in Surjection(S, T)
    BY <2>2, <2>3 DEF Surjection
  <2> HIDE DEF f
  <2> QED BY <1>9, <2>4, FS_Surjection
<1> HIDE DEF After, B, Named, S, T
<1>11. Cardinality(After) <= Cardinality(B)
  BY <1>3, <1>7, <1>8, <1>9, <1>10
<1> QED BY <1>3, <1>11 DEF After, B, new

\* What is left are items of the old list, all of which could be read.
LEMMA RemovedReadable ==
  ASSUME NEW old, ReadableItems(old), NEW name
  PROVE  ReadableItems(RemoveNamed(old, name))
<1>1. old \in Seq(Item)
  BY DEF ReadableItems
<1>2. RemoveNamed(old, name) \in Seq(Item) /\ KeepsOthers(RemoveNamed(old, name), old, name)
  BY <1>1, Removed
<1> DEFINE new == RemoveNamed(old, name)
<1> HIDE DEF new
<1>3. PICK at \in [DOMAIN new -> DOMAIN old] : \A i \in DOMAIN new : new[i] = old[at[i]]
  BY <1>2 DEF KeepsOthers, new
<1> QED BY <1>2, <1>3 DEF ReadableItems, new


-----------------------------------------------------------------------------
(* The inductive invariant *)

Container == [kind : {"none", "metablock", "envelope"}, bytes : Layout \cup {None},
              signatures : Seq(Layout)]

ReadableContainer(c) ==
  c \in Container /\ \A i \in DOMAIN c.signatures : IsLayout(c.signatures[i])

\* TypeOK with the exact types of the containers; a removal is an edit.
IInv ==
  /\ IsLayout(layout)
  /\ ReadableContainer(box) /\ (box.kind = "envelope" => IsLayout(box.bytes))
  /\ ReadableContainer(file) /\ (file.kind # "none" => IsLayout(file.bytes))
  /\ edits \in 0 .. MaxEdits
  /\ edits = 0 => last = None
  /\ GrammarExact
  /\ UsedAsSigned


\* An edit that leaves a layout keeps the invariant.
LEMMA EditKeeps ==
  ASSUME IInv, NEW new, IsLayout(new), Edit(new)
  PROVE  IInv'
<1>1. /\ edits < MaxEdits /\ edits' = edits + 1 /\ layout' = new /\ used' = None
      /\ box' = box /\ file' = file /\ parsed' = parsed
  BY DEF Edit
<1>2. edits' \in 0 .. MaxEdits /\ edits' # 0
  BY <1>1, LayoutAssumption DEF IInv
<1>3. IsLayout(layout)'
  BY <1>1
<1>4. /\ (ReadableContainer(box) /\ (box.kind = "envelope" => IsLayout(box.bytes)))'
      /\ (ReadableContainer(file) /\ (file.kind # "none" => IsLayout(file.bytes)))'
  BY <1>1 DEF IInv
<1>5. GrammarExact' /\ UsedAsSigned'
  BY <1>1 DEF IInv, GrammarExact, UsedAsSigned
<1> QED BY <1>2, <1>3, <1>4, <1>5 DEF IInv

\* What the lists of a layout may be replaced by.
LEMMA ReplacedList ==
  ASSUME NEW l, IsLayout(l), NEW list \in Lists, NEW items, ReadableItems(items)
  PROVE  IsLayout([l EXCEPT ![list] = items])
<1> DEFINE new == [l EXCEPT ![list] = items]
<1>1. l \in Layout /\ \A x \in Lists : ReadableItems(l[x])
  BY IsLayoutLists DEF IsLayout
<1>2. new \in Layout /\ \A x \in Lists : new[x] = IF x = list THEN items ELSE l[x]
  BY <1>1 DEF Layout, Lists, ReadableItems
<1> HIDE DEF new
<1>3. IsLayout(new)
  BY <1>1, <1>2, IsLayoutLists
<1> QED BY <1>3 DEF new

LEMMA ReplacedItem ==
  ASSUME NEW items, ReadableItems(items), NEW i \in DOMAIN items,
         NEW item \in Item, ValidItem(item)
  PROVE  ReadableItems([items EXCEPT ![i] = item])
<1> DEFINE new == [items EXCEPT ![i] = item]
<1>1. items \in Seq(Item) /\ \A j \in DOMAIN items : ValidItem(items[j])
  BY DEF ReadableItems
<1>2. new \in Seq(Item)
  BY <1>1
<1>3. DOMAIN new = DOMAIN items /\ \A j \in DOMAIN items : new[j] = IF j = i THEN item ELSE items[j]
  OBVIOUS
<1> HIDE DEF new
<1>4. ReadableItems(new)
  BY <1>1, <1>2, <1>3 DEF ReadableItems
<1> QED BY <1>4 DEF new

LEMMA AppendedItem ==
  ASSUME NEW items, ReadableItems(items), NEW item \in Item, ValidItem(item)
  PROVE  ReadableItems(Append(items, item))
<1> DEFINE n == Len(items)
           new == Append(items, item)
<1>1. items \in Seq(Item) /\ \A j \in DOMAIN items : ValidItem(items[j])
  BY DEF ReadableItems
<1>2. n \in Nat /\ DOMAIN items = 1 .. n
  BY <1>1, LenProperties
<1>3. new \in Seq(Item) /\ Len(new) = n + 1
      /\ \A j \in 1 .. n + 1 : new[j] = IF j <= n THEN items[j] ELSE item
  BY <1>1, AppendProperties
<1>4. DOMAIN new = 1 .. n + 1
  BY <1>3, LenProperties
<1> HIDE DEF new, n
<1>5. \A j \in DOMAIN new : ValidItem(new[j])
  BY <1>1, <1>2, <1>3, <1>4
<1> QED BY <1>3, <1>5 DEF ReadableItems, new

\* One more rule that can be read.
LEMMA AppendedRule ==
  ASSUME NEW item \in Item, ValidItem(item), NEW rules \in RuleLists, NEW rule \in Rule,
         Unpack(rule) # {}
  PROVE  LET new == [item EXCEPT ![rules] = Append(@, rule)]
         IN  new \in Item /\ ValidItem(new)
<1> DEFINE list == item[rules]
           n == Len(list)
           longer == Append(list, rule)
           new == [item EXCEPT ![rules] = Append(@, rule)]
<1>1. list \in Seq(Rule) /\ \A r \in RuleLists : ReadableList(item[r])
  BY ValidItemLists
<1>2. n \in Nat /\ DOMAIN list = 1 .. n
  BY <1>1, LenProperties
<1>3. longer \in Seq(Rule) /\ Len(longer) = n + 1
      /\ \A j \in 1 .. n + 1 : longer[j] = IF j <= n THEN list[j] ELSE rule
  <2> HIDE DEF list
  <2> QED BY <1>1, AppendProperties
<1>4. DOMAIN longer = 1 .. n + 1
  BY <1>3, LenProperties
<1>5. new = [item EXCEPT ![rules] = longer]
  OBVIOUS
<1>6. Readable(rule)
  BY UnpackReadable
<1>7. ReadableList(list)
  BY <1>1
<1> HIDE DEF n, longer, list, new
<1>8. ReadableList(longer)
  BY <1>2, <1>3, <1>4, <1>6, <1>7 DEF ReadableList
<1>9. new \in Item /\ \A r \in RuleLists : new[r] = IF r = rules THEN longer ELSE item[r]
  BY <1>3, <1>5 DEF Item, RuleLists
<1>10. ValidItem(new)
  BY <1>1, <1>8, <1>9, ValidItemLists
<1> QED BY <1>9, <1>10 DEF new

LEMMA AppendItemStep ==
  ASSUME IInv, NEW list \in Lists, NEW item \in NewItems, AppendItem(list, item)
  PROVE  IInv'
<1> DEFINE items == Append(layout[list], item)
<1>1. item \in Item /\ ValidItem(item) /\ IsLayout(layout) /\ ReadableItems(layout[list])
  BY LayoutAssumption, IsLayoutLists DEF IInv, AppendItem, IsLayout
<1>2. ReadableItems(items)
  BY <1>1, AppendedItem
<1>3. Edit([layout EXCEPT ![list] = items])
  BY DEF AppendItem
<1> HIDE DEF items
<1> QED BY <1>1, <1>2, <1>3, ReplacedList, EditKeeps

LEMMA RemoveStep ==
  ASSUME IInv, NEW list \in Lists, NEW name \in Names, RemoveByName(list, name)
  PROVE  IInv'
<1> DEFINE items == RemoveNamed(layout[list], name)
<1>1. IsLayout(layout) /\ ReadableItems(layout[list])
  BY IsLayoutLists DEF IInv, IsLayout
<1>2. ReadableItems(items)
  BY <1>1, RemovedReadable
<1>3. Edit([layout EXCEPT ![list] = items])
  BY DEF RemoveByName
<1> HIDE DEF items
<1> QED BY <1>1, <1>2, <1>3, ReplacedList, EditKeeps

LEMMA AddRuleStep ==
  ASSUME IInv, NEW list \in Lists, NEW i \in Positions(list), NEW new \in NewRules,
         AddRule(list, i, new.rules, new.rule)
  PROVE  IInv'
<1> DEFINE item == [layout[list][i] EXCEPT ![new.rules] = Append(@, new.rule)]
           items == [layout[list] EXCEPT ![i] = item]
<1>1. IsLayout(layout) /\ ReadableItems(layout[list]) /\ i \in DOMAIN layout[list]
  BY IsLayoutLists DEF IInv, IsLayout, Positions
<1>2. layout[list][i] \in Item /\ ValidItem(layout[list][i])
  BY <1>1, ElementOfSeq, LenProperties DEF ReadableItems
<1>3. new.rules \in RuleLists /\ new.rule \in Rule /\ Unpack(new.rule) # {}
  BY LayoutAssumption DEF AddRule
<1>4. item \in Item /\ ValidItem(item)
  BY <1>2, <1>3, AppendedRule
<1>5. Edit([layout EXCEPT ![list] = items])
  BY DEF AddRule
<1> HIDE DEF item
<1>6. ReadableItems(items)
  BY <1>1, <1>4, ReplacedItem
<1> HIDE DEF items
<1> QED BY <1>1, <1>5, <1>6, ReplacedList, EditKeeps

LEMMA SetCommandStep ==
  ASSUME IInv, NEW list \in Lists, NEW i \in Positions(list), NEW command \in NewCommands,
         SetCommand(list, i, command)
  PROVE  IInv'
<1> DEFINE old == layout[list][i]
           item == [old EXCEPT !.command = command]
           items == [layout[list] EXCEPT ![i] = item]
<1>1. IsLayout(layout) /\ ReadableItems(layout[list]) /\ i \in DOMAIN layout[list]
  BY IsLayoutLists DEF IInv, IsLayout, Positions
<1>2. old \in Item /\ ValidItem(old)
  BY <1>1, ElementOfSeq, LenProperties DEF ReadableItems
<1>3. command \in Seq(Words)
  BY LayoutAssumption
<1>4. Edit([layout EXCEPT ![list] = items])
  BY DEF SetCommand
<1> HIDE DEF old
<1>5. item \in Item /\ \A r \in RuleLists : item[r] = old[r]
  BY <1>2, <1>3 DEF Item, RuleLists
<1> HIDE DEF item
<1>6. ValidItem(item)
  BY <1>2, <1>5, ValidItemLists
<1>7. ReadableItems(items)
  BY <1>1, <1>5, <1>6, ReplacedItem
<1> HIDE DEF items
<1> QED BY <1>1, <1>4, <1>7, ReplacedList, EditKeeps

\* The other attributes say nothing of the items.
LEMMA SameItems ==
  ASSUME NEW l, IsLayout(l), NEW new \in Layout, new.steps = l.steps, new.inspect = l.inspect
  PROVE  IsLayout(new)
BY DEF IsLayout, Items

LEMMA OtherAttributesStep ==
  ASSUME IInv,
         \/ \E paths \in KeyLists : AddFunctionaryKeys(paths)
         \/ AssignExpires
         \/ SetRelativeExpiration
  PROVE  IInv'
<1>1. IsLayout(layout) /\ layout \in Layout
  BY DEF IInv, IsLayout
<1>2. ASSUME NEW paths \in KeyLists, AddFunctionaryKeys(paths) PROVE IInv'
  <2> DEFINE loaded == {i \in DOMAIN paths : \A j \in 1..i : paths[j] # MissingKey}
             new == [layout EXCEPT !.keys = @ \cup {paths[i] : i \in loaded}]
  <2>1. Edit(new)
    BY <1>2 DEF AddFunctionaryKeys
  <2>2. paths \in Seq(Keys \cup {MissingKey})
    BY LayoutAssumption
  <2>3. \A i \in DOMAIN paths : i \in Nat /\ i \in 1 .. i /\ paths[i] \in Keys \cup {MissingKey}
    BY <2>2, LenProperties, ElementOfSeq
  <2>4. \A i \in loaded : paths[i] \in Keys
    BY <2>3
  <2> HIDE DEF loaded
  <2>5. new \in Layout /\ new.steps = layout.steps /\ new.inspect = layout.inspect
    BY <1>1, <2>4 DEF Layout
  <2> HIDE DEF new
  <2> QED BY <1>1, <2>1, <2>5, SameItems, EditKeeps
<1>3. ASSUME NEW e \in {"later", Malformed}, Edit([layout EXCEPT !.expires = e]) PROVE IInv'
  <2> DEFINE new == [layout EXCEPT !.expires = e]
  <2>1. new \in Layout /\ new.steps = layout.steps /\ new.inspect = layout.inspect
    BY <1>1 DEF Layout
  <2>2. Edit(new)
    BY <1>3
  <2> HIDE DEF new
  <2> QED BY <1>1, <2>1, <2>2, SameItems, EditKeeps
<1>4. ASSUME AssignExpires PROVE IInv'
  BY <1>3, <1>4 DEF AssignExpires
<1>5. ASSUME SetRelativeExpiration PROVE IInv'
  BY <1>3, <1>5 DEF SetRelativeExpiration
<1> QED BY <1>2, <1>4, <1>5


\* unpack_rule and pack_rule agree with the documented language.
LEMMA ParseStep ==
  ASSUME IInv, NEW rule \in RuleStrings, ParseRule(rule)
  PROVE  IInv'
<1>1. rule \in Rule
  BY LayoutAssumption
<1> DEFINE again == UNION {UNION {Unpack(r) : r \in Pack(d)} : d \in Unpack(rule)}
<1>2. /\ Unpack(rule) # {} <=> InLanguage(rule)
      /\ Cardinality(Unpack(rule)) <= 1
  BY <1>1, UnpackReadable, ReadableLanguage, RoundTrip
<1>3. again = {d \in Unpack(rule) : d.rule_type = "match" => d.dest_name.word # EmptyWord}
  BY <1>1, RoundTrip
<1>4. /\ parsed' = [rule |-> rule, data |-> Unpack(rule), again |-> again]
      /\ layout' = layout /\ box' = box /\ file' = file /\ edits' = edits
      /\ last' = last /\ used' = used
  BY DEF ParseRule
<1> HIDE DEF again
<1>5. parsed'.rule = rule /\ parsed'.data = Unpack(rule) /\ parsed'.again = again
  BY <1>4
<1>6. GrammarExact'
  BY <1>2, <1>3, <1>5 DEF GrammarExact
<1>7. UsedAsSigned'
  BY <1>4 DEF IInv, UsedAsSigned
<1> QED BY <1>4, <1>6, <1>7 DEF IInv

\* What the other operations on containers leave alone.
LEMMA QuietKeeps ==
  ASSUME IInv, edits' = edits, parsed' = parsed, last' = None, used' = None
  PROVE  /\ edits' \in 0 .. MaxEdits /\ (edits' = 0 => last' = None)
         /\ GrammarExact' /\ UsedAsSigned'
BY DEF IInv, GrammarExact, UsedAsSigned

LEMMA PayloadIsLayout ==
  ASSUME IInv
  PROVE  IsLayout(Payload)
BY DEF IInv, Payload

LEMMA WrapStep ==
  ASSUME IInv, WrapInMetablock \/ WrapInEnvelope
  PROVE  IInv'
<1>1. /\ layout' = layout /\ file' = file /\ edits' = edits /\ parsed' = parsed
      /\ last' = None /\ used' = None
      /\ box' = Metablock(None, << >>) \/ box' = Envelope(layout, << >>)
  BY DEF WrapInMetablock, WrapInEnvelope
<1>2. layout \in Layout /\ IsLayout(layout)
  BY DEF IInv, IsLayout
<1>3. ASSUME NEW kind \in {"metablock", "envelope"}, NEW bytes \in Layout \cup {None}
      PROVE  ReadableContainer([kind |-> kind, bytes |-> bytes, signatures |-> << >>])
  <2> DEFINE empty == << >>
  <2>1. empty \in Seq(Layout) /\ DOMAIN empty = {}
    OBVIOUS
  <2> HIDE DEF empty
  <2>2. ReadableContainer([kind |-> kind, bytes |-> bytes, signatures |-> empty])
    BY <2>1 DEF ReadableContainer, Container
  <2> QED BY <2>2 DEF empty
<1>4. ReadableContainer(Metablock(None, << >>)) /\ ReadableContainer(Envelope(layout, << >>))
  BY <1>2, <1>3 DEF Metablock, Envelope
<1>5. Metablock(None, << >>).kind = "metablock" /\ Envelope(layout, << >>).bytes = layout
  BY DEF Metablock, Envelope
<1>6. ReadableContainer(box') /\ (box'.kind = "envelope" => IsLayout(box'.bytes))
  BY <1>1, <1>2, <1>4, <1>5
<1> QED BY <1>1, <1>6, QuietKeeps DEF IInv

LEMMA CreateSignatureStep ==
  ASSUME IInv, CreateSignature
  PROVE  IInv'
<1> DEFINE old == box.signatures
           n == Len(old)
           new == Append(old, Payload)
<1>1. /\ layout' = layout /\ file' = file /\ edits' = edits /\ parsed' = parsed
      /\ last' = None /\ used' = None
      /\ box' = [box EXCEPT !.signatures = new]
  BY DEF CreateSignature, SignableBytes
<1>2. IsLayout(Payload) /\ Payload \in Layout
  BY PayloadIsLayout DEF IsLayout
<1>3. old \in Seq(Layout) /\ \A i \in DOMAIN old : IsLayout(old[i])
  BY DEF IInv, ReadableContainer, Container
<1>4. n \in Nat /\ DOMAIN old = 1 .. n
  BY <1>3, LenProperties
<1> HIDE DEF old
<1>5. new \in Seq(Layout) /\ Len(new) = n + 1
      /\ \A j \in 1 .. n + 1 : new[j] = IF j <= n THEN old[j] ELSE Payload
  BY <1>2, <1>3, AppendProperties
<1>6. DOMAIN new = 1 .. n + 1
  BY <1>5, LenProperties
<1> HIDE DEF new, n
<1>7. \A i \in DOMAIN new : IsLayout(new[i])
  BY <1>2, <1>3, <1>4, <1>5, <1>6
<1>8. box' \in Container /\ box'.kind = box.kind /\ box'.bytes = box.bytes
      /\ box'.signatures = new
  BY <1>1, <1>5 DEF IInv, ReadableContainer, Container
<1>9. ReadableContainer(box') /\ (box'.kind = "envelope" => IsLayout(box'.bytes))
  BY <1>7, <1>8 DEF IInv, ReadableContainer
<1> QED BY <1>1, <1>9, QuietKeeps DEF IInv

LEMMA DumpStep ==
  ASSUME IInv, Dump
  PROVE  IInv'
<1>1. /\ layout' = layout /\ box' = box /\ edits' = edits /\ parsed' = parsed
      /\ last' = None /\ used' = None
      /\ file' = [box EXCEPT !.bytes = Payload]
  BY DEF Dump
<1>2. IsLayout(Payload) /\ Payload \in Layout
  BY PayloadIsLayout DEF IsLayout
<1>3. file' \in Container /\ file'.bytes = Payload /\ file'.signatures = box.signatures
  BY <1>1, <1>2 DEF IInv, ReadableContainer, Container
<1>4. ReadableContainer(file') /\ (file'.kind # "none" => IsLayout(file'.bytes))
  BY <1>2, <1>3 DEF IInv, ReadableContainer
<1> QED BY <1>1, <1>4, QuietKeeps DEF IInv

LEMMA LoadStep ==
  ASSUME IInv, LoadMetablock \/ LoadEnvelope \/ GetPayload
  PROVE  IInv'
<1>1. /\ file' = file /\ edits' = edits /\ parsed' = parsed /\ last' = None /\ used' = None
  BY DEF LoadMetablock, LoadEnvelope, GetPayload
<1>2. CASE LoadMetablock
  <2>1. layout' = file.bytes /\ box' = Metablock(None, file.signatures) /\ file.kind # "none"
    BY <1>2 DEF LoadMetablock
  <2>2. ReadableContainer(file) /\ IsLayout(file.bytes)
    BY <2>1 DEF IInv
  <2>3. ReadableContainer(box') /\ box'.kind = "metablock"
    BY <2>1, <2>2 DEF ReadableContainer, Container, Metablock
  <2> QED BY <1>1, <2>1, <2>2, <2>3, QuietKeeps DEF IInv
<1>3. CASE LoadEnvelope
  <2>1. layout' = layout /\ box' = file /\ file.kind # "none"
    BY <1>3 DEF LoadEnvelope
  <2> QED BY <1>1, <2>1, QuietKeeps DEF IInv
<1>4. CASE GetPayload
  <2>1. layout' = box.bytes /\ box' = box /\ box.kind = "envelope"
    BY <1>4 DEF GetPayload
  <2> QED BY <1>1, <2>1, QuietKeeps DEF IInv
<1> QED BY <1>2, <1>3, <1>4

\* A verification goes on with what was signed.
LEMMA VerifyStep ==
  ASSUME IInv, NEW parameters \in ParameterDicts \cup {None}, VerifyLayout(parameters)
  PROVE  IInv'
<1> DEFINE l == Payload
           new == IF parameters = None THEN l ELSE SubstituteParameters(l, parameters)
           complete == parameters = None \/ Rewritable(l, parameters) = Len(Items(l))
<1>1. /\ box.kind # "none"
      /\ VerifySignature
      /\ box.kind = "envelope" => Validate(l)
      /\ l.expires # Malformed
      /\ used' = IF complete THEN [layout |-> new, parameters |-> parameters] ELSE None
      /\ layout' = IF box.kind = "metablock" THEN new ELSE layout
      /\ last' = None
      /\ box' = box /\ file' = file /\ edits' = edits /\ parsed' = parsed
  BY DEF VerifyLayout
<1>2. IsLayout(l)
  BY PayloadIsLayout
<1>3. /\ IsLayout(new)
      /\ complete => new = IF parameters = None THEN l ELSE Substituted(l, parameters)
  BY <1>2, SubstituteLayout
<1>4. l \in ToSet(box.signatures)
  <2>1. CASE box.kind = "envelope"
    BY <1>1, <2>1 DEF VerifySignature, Payload, SignableBytes
  <2>2. CASE box.kind = "metablock"
    <3>1. box.signatures \in Seq(Layout) /\ box.signatures # << >>
          /\ Head(box.signatures) = layout
      BY <1>1, <2>2 DEF VerifySignature, SignableBytes, IInv, ReadableContainer, Container
    <3>2. 1 \in DOMAIN box.signatures /\ Head(box.signatures) = box.signatures[1]
      <4> DEFINE s == box.signatures
      <4> HIDE DEF s
      <4>1. s \in Seq(Layout) /\ s # << >>
        BY <3>1 DEF s
      <4>2. 1 \in DOMAIN s /\ Head(s) = s[1]
        BY <4>1
      <4> QED BY <4>2 DEF s
    <3> QED BY <2>2, <3>1, <3>2 DEF Payload, ToSet
  <2>3. box.kind \in {"none", "metablock", "envelope"}
    BY DEF IInv, ReadableContainer, Container
  <2> QED BY <1>1, <2>1, <2>2, <2>3
<1>5. GrammarExact' /\ edits' \in 0 .. MaxEdits /\ (edits' = 0 => last' = None)
  BY <1>1 DEF IInv, GrammarExact
<1>6. IsLayout(layout')
  BY <1>1, <1>3 DEF IInv
<1>7. UsedAsSigned'
  <2> SUFFICES ASSUME used' # None PROVE UsedAsSigned'
    BY DEF UsedAsSigned
  <2>1. complete
    BY <1>1
  <2>2. used' = [layout |-> new, parameters |-> parameters]
    BY <1>1, <2>1
  <2>3. new = IF parameters = None THEN l ELSE Substituted(l, parameters)
    BY <1>3, <2>1
  <2> HIDE DEF new, complete
  <2>4. used'.layout = (IF parameters = None THEN l ELSE Substituted(l, parameters))
        /\ used'.parameters = parameters
    BY <2>2, <2>3
  <2>5. used'.layout = IF used'.parameters = None THEN l ELSE Substituted(l, used'.parameters)
    BY <2>4
  <2>6. l \in ToSet(box'.signatures) /\ (box'.kind = "envelope" => Validate(l))
    BY <1>1, <1>4
  <2> HIDE DEF l
  <2> QED BY <2>5, <2>6 DEF UsedAsSigned, Substituted
<1> HIDE DEF l, new, complete
<1> QED BY <1>1, <1>5, <1>6, <1>7 DEF IInv


LEMMA InitInvariant == Init => IInv
<1> SUFFICES ASSUME Init PROVE IInv
  OBVIOUS
<1>1. IsLayout(layout)
  BY LayoutAssumption DEF Init, IsLayout, Validate
<1>2. box = NoBox /\ file = NoBox /\ edits = 0 /\ parsed = None /\ last = None /\ used = None
  BY DEF Init, NoFile
<1>3. ReadableContainer(NoBox) /\ NoBox.kind = "none"
  <2> DEFINE empty == << >>
  <2>1. empty \in Seq(Layout) /\ DOMAIN empty = {}
    OBVIOUS
  <2> HIDE DEF empty
  <2>2. LET c == [kind |-> "none", bytes |-> None, signatures |-> empty]
        IN  ReadableContainer(c) /\ c.kind = "none"
    BY <2>1 DEF ReadableContainer, Container
  <2> QED BY <2>2 DEF NoBox, empty
<1> QED BY <1>1, <1>2, <1>3, LayoutAssumption DEF IInv, GrammarExact, UsedAsSigned

LEMMA StutterInvariant ==
  ASSUME IInv, UNCHANGED vars
  PROVE  IInv'
BY DEF IInv, GrammarExact, UsedAsSigned, vars

LEMMA StepInvariant ==
  ASSUME IInv, Next
  PROVE  IInv'
<1>1. ASSUME NEW list \in Lists, NEW item \in NewItems, AppendItem(list, item) PROVE IInv'
  BY <1>1, AppendItemStep
<1>2. ASSUME NEW list \in Lists, NEW name \in Names, RemoveByName(list, name) PROVE IInv'
  BY <1>2, RemoveStep
<1>3. ASSUME NEW list \in Lists, NEW i \in Positions(list), NEW new \in NewRules,
             AddRule(list, i, new.rules, new.rule)
      PROVE  IInv'
  BY <1>3, AddRuleStep
<1>4. ASSUME NEW list \in Lists, NEW i \in Positions(list), NEW command \in NewCommands,
             SetCommand(list, i, command)
      PROVE  IInv'
  BY <1>4, SetCommandStep
<1>5. ASSUME \/ \E paths \in KeyLists : AddFunctionaryKeys(paths)
             \/ AssignExpires
             \/ SetRelativeExpiration
      PROVE  IInv'
  BY <1>5, OtherAttributesStep
<1>6. ASSUME NEW rule \in RuleStrings, ParseRule(rule) PROVE IInv'
  BY <1>6, ParseStep
<1>7. ASSUME WrapInMetablock \/ WrapInEnvelope PROVE IInv'
  BY <1>7, WrapStep
<1>8. ASSUME CreateSignature PROVE IInv'
  BY <1>8, CreateSignatureStep
<1>9. ASSUME Dump PROVE IInv'
  BY <1>9, DumpStep
<1>10. ASSUME LoadMetablock \/ LoadEnvelope \/ GetPayload PROVE IInv'
  BY <1>10, LoadStep
<1>11. ASSUME NEW parameters \in ParameterDicts \cup {None}, VerifyLayout(parameters) PROVE IInv'
  BY <1>11, VerifyStep
<1> QED
  BY <1>1, <1>2, <1>3, <1>4, <1>5, <1>6, <1>7, <1>8, <1>9, <1>10, <1>11, Zenon DEF Next

-----------------------------------------------------------------------------
(* Theorems *)

\* The inductive invariant holds in every reachable state.
THEOREM LayoutInvariance == Spec => []IInv
<1>1. Init => IInv
  BY InitInvariant
<1>2. IInv /\ [Next]_vars => IInv'
  BY StepInvariant, StutterInvariant
<1> QED BY <1>1, <1>2, PTL DEF Spec

\* Layout, Step and Inspection: whatever is edited, substituted, stored and loaded, all
\* rules of a layout in hand, in a container, signed or on disk can be unpacked.
THEOREM LayoutTypeCorrect == Spec => []TypeOK
<1>1. IInv => TypeOK
  BY DEF IInv, TypeOK, ReadableContainer, Container
<1> QED BY <1>1, LayoutInvariance, PTL

\* unpack_rule and pack_rule: for every token list, not only those TLC enumerates.
THEOREM GrammarCorrect == Spec => []GrammarExact
<1>1. IInv => GrammarExact
  BY DEF IInv
<1> QED BY <1>1, LayoutInvariance, PTL

\* in_toto_verify and substitute_parameters: a verification goes on with what was signed,
\* with the parameters of this call, whatever earlier calls rewrote of the same object.
THEOREM SubstitutionCorrect == Spec => []UsedAsSigned
<1>1. IInv => UsedAsSigned
  BY DEF IInv
<1> QED BY <1>1, LayoutInvariance, PTL

\* The property of one removal.
RemovesWell ==
  LET old == layout[last'.list]
      new == layout'[last'.list]
      Named(items) == {i \in DOMAIN items : items[i].name = last'.name}
  IN  /\ KeepsOthers(new, old, last'.name)
      /\ (\A i \in Named(old) : i - 1 \notin Named(old)) => Named(new) = {}
      /\ layout' = [layout EXCEPT ![last'.list] = new]

LEMMA RemovesWellStep ==
  ASSUME IInv, NEW list \in Lists, NEW name \in Names, RemoveByName(list, name)
  PROVE  RemovesWell
<1> DEFINE old == layout[list]
           new == RemoveNamed(old, name)
<1>1. layout' = [layout EXCEPT ![list] = new] /\ last' = [list |-> list, name |-> name]
  BY DEF RemoveByName, Edit
<1>2. layout \in Layout /\ old \in Seq(Item)
  BY DEF IInv, IsLayout, Layout, Lists
<1>3. /\ KeepsOthers(new, old, name)
      /\ (\A i \in NamedIn(old, name) : i - 1 \notin NamedIn(old, name)) =>
           NamedIn(new, name) = {}
  <2>1. /\ new \in Seq(Item) /\ KeepsOthers(new, old, name)
        /\ Cardinality(NamedIn(new, name)) <= Cardinality(Behind(old, name))
    BY <1>2, Removed
  <2> HIDE DEF new, old
  <2>2. ASSUME \A i \in NamedIn(old, name) : i - 1 \notin NamedIn(old, name)
        PROVE  NamedIn(new, name) = {}
    <3>1. Cardinality(Behind(old, name)) = 0
      BY <2>2, FS_EmptySet DEF Behind
    <3>2. IsFiniteSet(NamedIn(new, name))
      <4>1. NamedIn(new, name) \subseteq 1 .. Len(new) /\ Len(new) \in Nat
        BY <2>1, LenProperties DEF NamedIn
      <4>2. IsFiniteSet(1 .. Len(new))
        BY <4>1, FS_Interval
      <4> QED BY <4>1, <4>2, FS_Subset
    <3>3. Cardinality(NamedIn(new, name)) = 0
      BY <2>1, <3>1, <3>2, FS_CardinalityType
    <3> QED BY <3>2, <3>3, FS_EmptySet
  <2> QED BY <2>1, <2>2
<1> HIDE DEF new
<1>4. layout'[list] = new
  BY <1>1, <1>2 DEF Layout, Lists
<1>5. last'.list = list /\ last'.name = name
  BY <1>1
<1> HIDE DEF old
<1> QED BY <1>1, <1>3, <1>4, <1>5 DEF RemovesWell, NamedIn, old

\* remove_step_by_name and remove_inspection_by_name: for lists of any length and any
\* number of items of the name.
THEOREM RemovesCorrect == Spec => RemovesNamed
<1>1. IInv /\ [Next]_vars => [last' # None => RemovesWell]_vars
  <2> SUFFICES ASSUME IInv, Next, last' # None PROVE RemovesWell
    OBVIOUS
  <2>1. ASSUME NEW rule \in RuleStrings, ParseRule(rule) PROVE FALSE
    BY <2>1 DEF ParseRule, IInv
  <2>2. \E list \in Lists : \E name \in Names : RemoveByName(list, name)
    BY <2>1 DEF Next, AppendItem, AddRule, SetCommand, AddFunctionaryKeys, AssignExpires,
       SetRelativeExpiration, WrapInMetablock, WrapInEnvelope, CreateSignature, Dump,
       LoadMetablock, LoadEnvelope, GetPayload, VerifyLayout
  <2> QED BY <2>2, RemovesWellStep
<1> QED BY <1>1, LayoutInvariance, PTL DEF Spec, RemovesNamed, RemovesWell
=============================================================================
