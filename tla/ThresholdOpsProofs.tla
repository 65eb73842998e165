------------------------- MODULE ThresholdOpsProofs -------------------------
(***************************************************************************)
(* What the operators of ThresholdOps preserve and bound: dicts list their *)
(* keys in order, and who counts towards a threshold is authorized.        *)
(***************************************************************************)
EXTENDS ThresholdOps, FiniteSetTheorems, SequenceTheorems, TLAPS

\* A set of indices has a first one.
LEMMA FirstIndex ==
  ASSUME NEW I \in SUBSET Nat, I # {}
  PROVE  \E i \in I : \A j \in I : i <= j
<1>1. PICK i \in I : \A j \in I : ~ (<<j, i>> \in OpToRel(<, Nat))
  BY NatLessThanWellFounded, WFMin
<1>2. \A j \in I : ~ (j < i)
  BY <1>1 DEF OpToRel
<1> QED BY <1>2

\* The numbers up to n are n.
LEMMA UpTo ==
  ASSUME NEW n \in Nat
  PROVE  IsFiniteSet(1 .. n) /\ Cardinality(1 .. n) = n
<1>1. 1 \in Int /\ n \in Int
  OBVIOUS
<1>2. IsFiniteSet(1 .. n) /\ Cardinality(1 .. n) = IF 1 > n THEN 0 ELSE n - 1 + 1
  BY <1>1, FS_Interval, Zenon
<1> QED BY <1>2

\* Finitely many values, no more than indices.
LEMMA ElementsFinite ==
  ASSUME NEW S, NEW s \in Seq(S)
  PROVE  IsFiniteSet(Elements(s)) /\ Cardinality(Elements(s)) <= Len(s)
<1>1. s \in Surjection(1 .. Len(s), Elements(s))
  BY LenProperties DEF Surjection, Elements
<1>2. IsFiniteSet(1 .. Len(s)) /\ Cardinality(1 .. Len(s)) = Len(s)
  BY UpTo, LenProperties
<1> QED BY <1>1, <1>2, FS_Surjection

\* If f maps A into B injectively, B has at least as many elements.
LEMMA NoMoreThan ==
  ASSUME NEW A, NEW B, IsFiniteSet(B), NEW f \in [A -> B],
         \A x, y \in A : f[x] = f[y] => x = y
  PROVE  IsFiniteSet(A) /\ Cardinality(A) <= Cardinality(B)
<1>1. f \in Injection(A, B)
  BY DEF Injection, IsInjective
<1> QED BY <1>1, FS_Injection

-----------------------------------------------------------------------------
(* Dicts *)

\* A list of distinct keys.
Distinct(s) == \A i, j \in DOMAIN s : s[i] = s[j] => i = j

\* order lists the keys of dict, once each.
Listed(dict) ==
  /\ dict.order \in Seq(Keyids)
  /\ Distinct(dict.order)
  /\ Elements(dict.order) = KeysOf(dict)

\* Counting the keys is measuring the list.
LEMMA ListedCount ==
  ASSUME NEW dict, Listed(dict)
  PROVE  /\ IsFiniteSet(KeysOf(dict)) /\ KeysOf(dict) \subseteq Keyids
         /\ Len(dict.order) = Cardinality(KeysOf(dict))
<1> DEFINE s == dict.order
<1>1. s \in [1 .. Len(s) -> Keyids] /\ Len(s) \in Nat
  BY LenProperties DEF Listed
<1>2. s \in Bijection(1 .. Len(s), KeysOf(dict))
  BY <1>1 DEF Listed, Distinct, Elements, Bijection, Surjection, Injection, IsInjective
<1>3. ExistsBijection(1 .. Len(s), KeysOf(dict))
  BY <1>2 DEF ExistsBijection
<1>4. IsFiniteSet(1 .. Len(s)) /\ Cardinality(1 .. Len(s)) = Len(s)
  BY <1>1, UpTo
<1>5. IsFiniteSet(KeysOf(dict)) /\ Len(s) = Cardinality(KeysOf(dict))
  BY <1>3, <1>4, FS_Bijection
<1> QED BY <1>1, <1>5 DEF Listed, Elements

LEMMA EmptyListed == Listed(EmptyDict) /\ KeysOf(EmptyDict) = {}
<1>1. EmptyDict.order = << >> /\ KeysOf(EmptyDict) = {}
  BY DEF EmptyDict, KeysOf
<1> QED BY <1>1, EmptySeq DEF Listed, Distinct, Elements

\* Assigning to a key adds it, or keeps its place.
LEMMA PutListed ==
  ASSUME NEW dict, Listed(dict), NEW k \in Keyids, NEW v
  PROVE  /\ Listed(Put(dict, k, v))
         /\ KeysOf(Put(dict, k, v)) = KeysOf(dict) \cup {k}
         /\ Put(dict, k, v).at[k] = v
         /\ \A x \in KeysOf(dict) \ {k} : Put(dict, k, v).at[x] = dict.at[x]
<1> DEFINE new == Put(dict, k, v)
<1>1. /\ KeysOf(new) = KeysOf(dict) \cup {k}
      /\ new.at[k] = v
      /\ \A x \in KeysOf(dict) \ {k} : new.at[x] = dict.at[x]
  BY DEF Put, KeysOf
<1>2. CASE k \in KeysOf(dict)
  <2>1. new.order = dict.order
    BY <1>2 DEF Put
  <2> QED BY <1>1, <1>2, <2>1 DEF Listed
<1>3. CASE k \notin KeysOf(dict)
  <2>1. new.order = Append(dict.order, k)
    BY <1>3 DEF Put
  <2>2. dict.order \in Seq(Keyids) /\ Len(dict.order) \in Nat
    BY LenProperties DEF Listed
  <2>3. /\ new.order \in Seq(Keyids) /\ Len(new.order) = Len(dict.order) + 1
        /\ \A i \in 1 .. Len(dict.order) : new.order[i] = dict.order[i]
        /\ new.order[Len(dict.order) + 1] = k
    BY <2>1, <2>2, AppendProperties
  <2>4. DOMAIN new.order = 1 .. Len(dict.order) + 1 /\ DOMAIN dict.order = 1 .. Len(dict.order)
    BY <2>2, <2>3, LenProperties
  <2>5. \A i \in 1 .. Len(dict.order) : dict.order[i] # k
    BY <1>3, <2>4 DEF Listed, Elements
  <2>6. Distinct(new.order)
    <3> SUFFICES ASSUME NEW i \in DOMAIN new.order, NEW j \in DOMAIN new.order,
                        new.order[i] = new.order[j]
                 PROVE  i = j
      BY DEF Distinct
    <3>1. CASE i \in 1 .. Len(dict.order) /\ j \in 1 .. Len(dict.order)
      BY <2>3, <2>4, <3>1 DEF Listed, Distinct
    <3>2. CASE i = Len(dict.order) + 1 \/ j = Len(dict.order) + 1
      BY <2>2, <2>3, <2>4, <2>5, <3>2
    <3> QED BY <2>2, <2>4, <3>1, <3>2
  <2>7. Elements(new.order) = Elements(dict.order) \cup {k}
    <3> DEFINE old == dict.order
               m == Len(dict.order)
    <3>1. \A x \in Elements(old) : \E i \in 1 .. m : x = new.order[i]
      BY <2>3, <2>4 DEF Elements
    <3>2. 1 .. m + 1 = (1 .. m) \cup {m + 1}
      BY <2>2
    <3>3. Elements(new.order) \subseteq Elements(old) \cup {k}
      BY <2>3, <2>4, <3>2 DEF Elements
    <3>4. Elements(old) \cup {k} \subseteq Elements(new.order)
      BY <2>3, <2>4, <3>1, <3>2 DEF Elements
    <3> QED BY <3>3, <3>4
  <2> QED BY <1>1, <2>3, <2>6, <2>7 DEF Listed
<1> QED BY <1>1, <1>2, <1>3

\* Sorting a set lists its elements, once each.
LEMMA SortedListed ==
  ASSUME NEW S, IsFiniteSet(S), NEW R,
         \A x, y \in S : <<x, y>> \in R \/ <<y, x>> \in R,
         \A x, y \in S : <<x, y>> \in R /\ <<y, x>> \in R => x = y,
         \A x, y, z \in S : <<x, y>> \in R /\ <<y, z>> \in R => <<x, z>> \in R
  PROVE  /\ Sorted(S, R) \in Seq(S)
         /\ Distinct(Sorted(S, R))
         /\ Elements(Sorted(S, R)) = S
<1> DEFINE low(x) == {y \in S : <<y, x>> \in R}
           Rank(x) == Cardinality(low(x))
           rank == [x \in S |-> Rank(x)]
           n == Cardinality(S)
<1>1. n \in Nat
  BY FS_CardinalityType
<1>2. \A x \in S : IsFiniteSet(low(x)) /\ Rank(x) \in 1 .. n
  <2> TAKE x \in S
  <2>1. IsFiniteSet(low(x)) /\ Cardinality(low(x)) <= n /\ Cardinality(low(x)) \in Nat
    BY <1>1, FS_Subset, FS_CardinalityType
  <2>2. x \in low(x)
    OBVIOUS
  <2>3. Cardinality(low(x)) # 0
    BY <2>1, <2>2, FS_EmptySet
  <2> QED BY <1>1, <2>1, <2>3
<1>3. \A x, y \in S : Rank(x) = Rank(y) => x = y
  <2>1. ASSUME NEW x \in S, NEW y \in S, <<x, y>> \in R, x # y PROVE Rank(x) # Rank(y)
    <3>1. low(x) \in SUBSET low(y) /\ y \in low(y) /\ y \notin low(x)
      BY <2>1
    <3>2. IsFiniteSet(low(y))
      BY <1>2
    <3>3. Cardinality(low(y)) = Cardinality(low(x)) => low(y) = low(x)
      BY <3>1, <3>2, FS_Subset
    <3> QED BY <3>1, <3>3
  <2> HIDE DEF Rank
  <2> QED BY <2>1
<1> HIDE DEF Rank
<1>4. rank \in Injection(S, 1 .. n)
  BY <1>2, <1>3 DEF Injection, IsInjective
<1>5. IsFiniteSet(1 .. n) /\ Cardinality(1 .. n) = n
  BY <1>1, UpTo
<1>6. rank \in Surjection(S, 1 .. n)
  BY <1>4, <1>5, FS_Injection
<1>7. \A m \in 1 .. n : \E x \in S : Rank(x) = m
  BY <1>6 DEF Surjection
<1> DEFINE At(m) == CHOOSE x \in S : Rank(x) = m
<1>8. \A m \in 1 .. n : At(m) \in S /\ Rank(At(m)) = m
  BY <1>7
<1>9. \A x \in S : Rank(x) \in 1 .. n /\ At(Rank(x)) = x
  BY <1>2, <1>3, <1>8
<1> DEFINE t == [m \in 1 .. n |-> At(m)]
<1>10. Sorted(S, R) = t
  BY DEF Sorted, Rank
<1> HIDE DEF n, At
<1>11. t \in Seq(S)
  BY <1>1, <1>8, SeqDef
<1>12. Distinct(t)
  BY <1>8 DEF Distinct
<1>13. Elements(t) = S
  BY <1>8, <1>9 DEF Elements
<1> QED BY <1>10, <1>11, <1>12, <1>13

\* What is kept of a list of distinct keys is a list of the keys to keep.
LEMMA InOrderListed ==
  ASSUME NEW s \in Seq(Keyids), Distinct(s), NEW keep
  PROVE  /\ InOrder(s, keep) \in Seq(Keyids)
         /\ Distinct(InOrder(s, keep))
         /\ Elements(InOrder(s, keep)) = Elements(s) \cap keep
<1> DEFINE kept == {i \in DOMAIN s : s[i] \in keep}
           R == {p \in kept \X kept : p[1] <= p[2]}
           positions == Sorted(kept, R)
           t == [n \in DOMAIN positions |-> s[positions[n]]]
<1>1. /\ DOMAIN s = 1 .. Len(s) /\ Len(s) \in Nat /\ kept \subseteq Nat
      /\ \A i \in DOMAIN s : s[i] \in Keyids
  BY LenProperties, ElementOfSeq
<1>2. IsFiniteSet(kept)
  BY <1>1, UpTo, FS_Subset
<1>3. \A i, j \in kept : <<i, j>> \in R <=> i <= j
  OBVIOUS
<1> HIDE DEF R
<1>4. positions \in Seq(kept) /\ Distinct(positions) /\ Elements(positions) = kept
  <2>1. \A i \in kept : i \in Int
    BY <1>1
  <2> HIDE DEF kept
  <2>2. \A i, j \in kept : <<i, j>> \in R \/ <<j, i>> \in R
    <3> TAKE i, j \in kept
    <3> QED BY <1>3, <2>1
  <2>3. \A i, j \in kept : <<i, j>> \in R /\ <<j, i>> \in R => i = j
    BY <1>3, <2>1
  <2>4. \A i, j, k \in kept : <<i, j>> \in R /\ <<j, k>> \in R => <<i, k>> \in R
    BY <1>3, <2>1
  <2> QED BY <1>2, <2>2, <2>3, <2>4, SortedListed
<1>5. InOrder(s, keep) = t
  BY DEF InOrder, R
<1> HIDE DEF positions
<1>6. /\ Len(positions) \in Nat /\ DOMAIN positions = 1 .. Len(positions)
      /\ \A n \in DOMAIN positions : positions[n] \in kept
  BY <1>4, LenProperties, ElementOfSeq
<1>7. t \in Seq(Keyids)
  BY <1>1, <1>6, SeqDef
<1>8. Distinct(t)
  BY <1>4, <1>6 DEF Distinct
<1>9. Elements(t) = Elements(s) \cap keep
  BY <1>4, <1>6 DEF Elements
<1> QED BY <1>5, <1>7, <1>8, <1>9

\* Keeping some keys of a dict keeps their values and their order.
LEMMA KeepingListed ==
  ASSUME NEW dict, Listed(dict), NEW keep
  PROVE  /\ Listed(Keeping(dict, keep))
         /\ KeysOf(Keeping(dict, keep)) = KeysOf(dict) \cap keep
         /\ \A k \in KeysOf(dict) \cap keep : Keeping(dict, keep).at[k] = dict.at[k]
<1>1. /\ Keeping(dict, keep).order = InOrder(dict.order, KeysOf(dict) \cap keep)
      /\ KeysOf(Keeping(dict, keep)) = KeysOf(dict) \cap keep
      /\ \A k \in KeysOf(dict) \cap keep : Keeping(dict, keep).at[k] = dict.at[k]
  BY DEF Keeping, KeysOf
<1> QED BY <1>1, InOrderListed DEF Listed

\* The first value of a dict that is not empty is the value of one of its keys.
LEMMA FirstIsAValue ==
  ASSUME NEW dict, Listed(dict), KeysOf(dict) # {}
  PROVE  \E k \in KeysOf(dict) : FirstValue(dict) = dict.at[k]
<1>1. DOMAIN dict.order = 1 .. Len(dict.order) /\ Len(dict.order) \in Nat
  BY LenProperties DEF Listed
<1>2. 1 \in DOMAIN dict.order
  BY <1>1 DEF Listed, Elements
<1>3. dict.order[1] \in KeysOf(dict)
  BY <1>2 DEF Listed, Elements
<1> QED BY <1>3 DEF FirstValue

-----------------------------------------------------------------------------
(* Keys *)

\* The key that a link is verified with is one the step authorizes, itself or by
\* one of its subkeys; and the link is filed under its keyid or a subkey's.
LEMMA VerificationKeyAuthorized ==
  ASSUME NEW lay, NEW st, st.pubkeys \in Seq(Keyids), NEW k,
         NEW m \in VerificationKey(lay, st.pubkeys, k)
  PROVE  m \in AuthorizedMains(lay, st) /\ k \in KeyWithSubkeys(lay, m)
<1> DEFINE finds == {i \in DOMAIN st.pubkeys : Responsible(lay, st.pubkeys[i], k) # {}}
           first == CHOOSE i \in finds : \A j \in finds : i <= j
<1>1. finds # {} /\ m \in Responsible(lay, st.pubkeys[first], k)
  BY DEF VerificationKey
<1>2. finds \in SUBSET Nat
  BY LenProperties
<1>3. \E i \in finds : \A j \in finds : i <= j
  BY <1>1, <1>2, FirstIndex
<1>4. first \in finds
  BY <1>3
<1>5. st.pubkeys[first] \in Elements(st.pubkeys)
  BY <1>4 DEF Elements
<1>6. m \in DOMAIN lay.keys /\ st.pubkeys[first] \in KeyWithSubkeys(lay, m)
  BY <1>1 DEF Responsible, MainOfSubkey, KeyWithSubkeys
<1>7. k \in KeyWithSubkeys(lay, m)
  BY <1>1 DEF Responsible, MainOfSubkey, KeyWithSubkeys
<1> QED BY <1>5, <1>6, <1>7 DEF AuthorizedMains

\* A link that verifies with a main key is signed by it or one of its subkeys.
LEMMA VerifiedIsSigned ==
  ASSUME NEW lay, NEW m, NEW doc, VerifySignature(doc, KeyWithSubkeys(lay, m), m)
  PROVE  Signed(lay, m, doc)
BY DEF VerifySignature, Signed, Elements, KeyWithSubkeys

\* No keyid belongs to two main keys.
LEMMA OneMainKey ==
  ASSUME NEW lay, WellFormed(lay), NEW m \in DOMAIN lay.keys, NEW n \in DOMAIN lay.keys,
         NEW k \in KeyWithSubkeys(lay, m) \cap KeyWithSubkeys(lay, n)
  PROVE  m = n
<1> SUFFICES ASSUME m # n PROVE FALSE
  OBVIOUS
<1>1. SubkeysOf(lay, m) = Elements(lay.keys[m]) /\ SubkeysOf(lay, n) = Elements(lay.keys[n])
  BY DEF SubkeysOf
<1>2. /\ Elements(lay.keys[m]) \cap DOMAIN lay.keys = {}
      /\ Elements(lay.keys[n]) \cap DOMAIN lay.keys = {}
  BY DEF WellFormed, Validated, SubkeysApart
<1>3. Elements(lay.keys[m]) \cap Elements(lay.keys[n]) = {}
  BY DEF WellFormed, Validated, SubkeysApart
<1>4. k \in {m} \cup Elements(lay.keys[m]) /\ k \in {n} \cup Elements(lay.keys[n])
  BY <1>1 DEF KeyWithSubkeys
<1> QED BY <1>2, <1>3, <1>4

\* At most one key is found for a link.
LEMMA OneVerificationKey ==
  ASSUME NEW lay, WellFormed(lay), NEW st, st.pubkeys \in Seq(Keyids), NEW k,
         NEW m \in VerificationKey(lay, st.pubkeys, k),
         NEW n \in VerificationKey(lay, st.pubkeys, k)
  PROVE  m = n
<1>1. m \in AuthorizedMains(lay, st) /\ k \in KeyWithSubkeys(lay, m)
  BY VerificationKeyAuthorized
<1>2. n \in AuthorizedMains(lay, st) /\ k \in KeyWithSubkeys(lay, n)
  BY VerificationKeyAuthorized
<1>3. m \in DOMAIN lay.keys /\ n \in DOMAIN lay.keys
  BY <1>1, <1>2 DEF AuthorizedMains
<1> QED BY <1>1, <1>2, <1>3, OneMainKey

\* Hence a step authorizes finitely many main keys, each by a keyid of its own.
LEMMA AuthorizedFinite ==
  ASSUME NEW lay, WellFormed(lay), NEW st, st.pubkeys \in Seq(Keyids)
  PROVE  IsFiniteSet(AuthorizedMains(lay, st))
<1> DEFINE By(m) == CHOOSE k \in KeyWithSubkeys(lay, m) : k \in Elements(st.pubkeys)
           f == [m \in AuthorizedMains(lay, st) |-> By(m)]
<1>1. \A m \in AuthorizedMains(lay, st) :
        By(m) \in KeyWithSubkeys(lay, m) /\ By(m) \in Elements(st.pubkeys)
  BY DEF AuthorizedMains
<1>2. \A m, n \in AuthorizedMains(lay, st) : f[m] = f[n] => m = n
  BY <1>1, OneMainKey DEF AuthorizedMains
<1>3. IsFiniteSet(Elements(st.pubkeys))
  BY ElementsFinite
<1>4. f \in [AuthorizedMains(lay, st) -> Elements(st.pubkeys)]
  BY <1>1
<1> HIDE DEF f
<1> QED BY <1>2, <1>3, <1>4, NoMoreThan

\* Who is counted in used_main_keyids is authorized and has signed a kept link.
LEMMA UsedAreVouchers ==
  ASSUME NEW lay, WellFormed(lay), NEW st, st.pubkeys \in Seq(Keyids), NEW dict
  PROVE  LET used == UsedMainKeyids(lay, st.pubkeys, dict)
             kept == Keeping(dict, Verified(lay, st.pubkeys, dict))
             vouchers == {m \in AuthorizedMains(lay, st) :
                            \E k \in KeysOf(kept) : Signed(lay, m, kept.at[k])}
         IN  /\ IsFiniteSet(vouchers) /\ used \subseteq vouchers
             /\ Cardinality(used) \in Nat /\ Cardinality(vouchers) \in Nat
             /\ Cardinality(used) <= Cardinality(vouchers)
<1> DEFINE verified == Verified(lay, st.pubkeys, dict)
           used == UsedMainKeyids(lay, st.pubkeys, dict)
           kept == Keeping(dict, verified)
           vouchers == {m \in AuthorizedMains(lay, st) :
                          \E k \in KeysOf(kept) : Signed(lay, m, kept.at[k])}
<1>1. AuthorizedMains(lay, st) \subseteq DOMAIN lay.keys
  BY DEF AuthorizedMains
<1>2. /\ verified \subseteq KeysOf(dict)
      /\ KeysOf(kept) = verified
      /\ \A k \in verified : kept.at[k] = dict.at[k]
  BY DEF Verified, Keeping, KeysOf
<1>3. ASSUME NEW m \in used PROVE m \in vouchers
  <2>1. PICK k \in verified : m \in VerificationKey(lay, st.pubkeys, k)
    BY <1>3 DEF UsedMainKeyids
  <2>2. PICK n \in VerificationKey(lay, st.pubkeys, k) :
          VerifySignature(dict.at[k], KeyWithSubkeys(lay, n), n)
    BY <2>1 DEF Verified
  <2>3. m = n
    BY <2>1, <2>2, OneVerificationKey
  <2>4. Signed(lay, m, dict.at[k])
    BY <2>2, <2>3, VerifiedIsSigned
  <2> QED BY <1>2, <2>1, <2>4, VerificationKeyAuthorized
<1>4. vouchers \in SUBSET AuthorizedMains(lay, st) /\ used \in SUBSET vouchers
  BY <1>3
<1>5. IsFiniteSet(vouchers)
  BY <1>4, AuthorizedFinite, FS_Subset
<1>6. IsFiniteSet(used) /\ Cardinality(used) <= Cardinality(vouchers)
  BY <1>4, <1>5, FS_Subset
<1> QED BY <1>4, <1>5, <1>6, FS_CardinalityType
=============================================================================
