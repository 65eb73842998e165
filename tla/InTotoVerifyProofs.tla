------------------------- MODULE InTotoVerifyProofs -------------------------
(***************************************************************************)
(* Safety of InTotoVerify for every call, directory of metadata and        *)
(* behaviour of the inspections' commands.                                 *)
(***************************************************************************)
EXTENDS InTotoVerify, ThresholdOpsProofs

(***************************************************************************)
(* The inductive invariant says of every frame what the phases it has been *)
(* through have established and that no later phase undoes it (Sound).  It *)
(* keeps that for the frames that have returned, and connects each frame   *)
(* with the entry of the one below that it was entered for (Delegated) and *)
(* the first one with the caller (Rooted).  A command that is started is   *)
(* then trusted because of what the frames below it have passed.           *)
(***************************************************************************)
Fields ==
  {"metadata", "layout_key_dict", "link_dir_path", "step_name", "substitution_parameters",
   "persist", "pc", "layout", "steps_metadata", "chain", "step", "key", "reduced",
   "inspection", "inspection_links", "base_path_backup", "materials"}

Unexpired == Phases \ {"layout signatures", "expiration"}
Loaded == Unexpired \ {"substitution", "load"}
LinksChecked == Loaded \ {"link signatures"}
Compared == LinksChecked \ {"sublayouts", "constraints"}
RulesChecked == {"inspections", "command", "return"}

Typed(f) ==
  /\ DOMAIN f = Fields /\ f.pc \in Phases
  /\ f.metadata \in Doc /\ IsLayout(f.metadata.payload)
  /\ IsLayout(f.layout) /\ Valid(f.layout)
  /\ f.substitution_parameters \in {NoParams} \cup DOMAIN Format
  /\ f.inspection \in Nat \ {0}
  /\ f.pc \notin LinksChecked => f.step = 1 /\ f.key = 1
  /\ f.pc \in {"layout signatures", "expiration"} => f.layout = f.metadata.payload
  /\ f.pc \in Unexpired => f.metadata.payload.expires > 0

\* A step's dict lists metadata files.
Filed(f) ==
  f.pc \in Loaded =>
    /\ DOMAIN f.steps_metadata = NamesOf(f.layout)
    /\ \A n \in NamesOf(f.layout) :
         /\ Listed(f.steps_metadata[n])
         /\ \A k \in KeysOf(f.steps_metadata[n]) : f.steps_metadata[n].at[k] \in Doc

Signers(f, st) ==
  {m \in AuthorizedMains(f.layout, st) :
     \E k \in KeysOf(f.steps_metadata[st.name]) :
       Signed(f.layout, m, f.steps_metadata[st.name].at[k])}

\* Every file in it is signed by an authorized functionary, and there are enough of them.
Authorized(f) ==
  f.pc \in LinksChecked =>
    \A st \in Elements(f.layout.steps) :
      /\ \A k \in KeysOf(f.steps_metadata[st.name]) :
           \E m \in AuthorizedMains(f.layout, st) :
             Signed(f.layout, m, f.steps_metadata[st.name].at[k])
      /\ Cardinality(Signers(f, st)) >= st.threshold

\* The entry j of the dict of the i-th step has been dealt with.
Visited(f, i, j) == f.pc = "sublayouts" => i < f.step \/ (i = f.step /\ j < f.key)

\* The chain has a link for every entry dealt with.
Chained(f) ==
  f.pc \in LinksChecked =>
    /\ f.step \in Nat \ {0} /\ f.key \in Nat \ {0}
    /\ DOMAIN f.chain = NamesOf(f.layout)
    /\ \A n \in NamesOf(f.layout) :
         /\ Listed(f.chain[n])
         /\ KeysOf(f.chain[n]) \subseteq KeysOf(f.steps_metadata[n])
         /\ \A k \in KeysOf(f.chain[n]) : ~IsLayout(f.chain[n].at[k])
    /\ \A i \in DOMAIN f.layout.steps :
         LET n == f.layout.steps[i].name
         IN  \A j \in DOMAIN f.steps_metadata[n].order :
               Visited(f, i, j) => f.steps_metadata[n].order[j] \in KeysOf(f.chain[n])

\* The links of a step with a threshold agree, and the first one stands for them.
Agreed(f) ==
  f.pc \in Compared =>
    \A st \in Elements(f.layout.steps) : st.threshold > 1 => ~Disagree(f.chain[st.name])

FirstOnes(f) ==
  Reduced(f) =>
    /\ DOMAIN f.reduced = NamesOf(f.layout)
    /\ \A n \in NamesOf(f.layout) :
         KeysOf(f.chain[n]) # {} /\ f.reduced[n] = FirstValue(f.chain[n])

RulesHeld(f) ==
  f.pc \in RulesChecked => \A st \in Elements(f.layout.steps) : ItemHolds(st, f.reduced)

\* Vouches, with the frames that have returned.
VouchesIn(ret, frame, st, k, payload) ==
  LET doc == frame.steps_metadata[st.name].at[k]
  IN  \/ doc.payload = payload
      \/ /\ IsLayout(doc.payload)
         /\ \E i \in DOMAIN ret : Delivers(ret[i].frame, frame, st, k, payload)

Vouched(f, ret) ==
  f.pc \in LinksChecked =>
    \A st \in Elements(f.layout.steps) : \A k \in KeysOf(f.chain[st.name]) :
      VouchesIn(ret, f, st, k, f.chain[st.name].at[k])

\* The command of inspection n of this frame has been started on these artifacts.
StartedOn(f, lg, n, artifacts) ==
  \E j \in DOMAIN lg :
    LET caller == Seqs!Last(lg[j].stack)
    IN  /\ caller.link_dir_path = f.link_dir_path
        /\ caller.layout.inspect[caller.inspection].name = n
        /\ lg[j].cwd = artifacts

Inspected(f, lg) ==
  /\ \A n \in DOMAIN f.inspection_links :
       StartedOn(f, lg, n, f.inspection_links[n].materials)
  /\ f.pc = "command" =>
       /\ f.inspection <= Len(f.layout.inspect)
       /\ StartedOn(f, lg, f.layout.inspect[f.inspection].name, f.materials)

Sound(f, ret, lg) ==
  /\ Typed(f) /\ Filed(f) /\ Authorized(f) /\ Chained(f)
  /\ Agreed(f) /\ FirstOnes(f) /\ RulesHeld(f)
  /\ Vouched(f, ret) /\ Inspected(f, lg)

\* f is in verify_sublayouts, at the entry k of step st.
Entry(f, st, k) ==
  LET dict == f.steps_metadata[st.name]
  IN  /\ f.pc = "sublayouts"
      /\ f.step \in DOMAIN f.layout.steps /\ st = f.layout.steps[f.step]
      /\ f.key \in DOMAIN dict.order /\ k = dict.order[f.key]

\* f waits there for g, which was entered for that entry.
Delegated(f, g) ==
  \E st \in Elements(f.layout.steps) : \E k \in Keyids :
    /\ Entry(f, st, k)
    /\ g.metadata = f.steps_metadata[st.name].at[k] /\ g.step_name = st.name
    /\ g.link_dir_path = Append(f.link_dir_path, <<st.name, Short[k]>>)

\* f is the outermost call, and the layout is signed by all keys it was given.
Rooted(f, c) ==
  /\ f.metadata = c.metadata /\ f.layout_key_dict = c.keys
  /\ f.pc # "layout signatures" =>
       /\ DOMAIN c.keys # {}
       /\ \A key \in UNION {c.keys[k] : k \in DOMAIN c.keys} :
            \E s \in Elements(f.metadata.signatures) :
              s.good /\ s.keyid \in {key.keyid} \cup Elements(key.subkeys)

BasePath ==
  /\ base_path \in {"unset", call.base_path}
  /\ status = "passed" => Top.pc = "return"
  /\ status \in {"working", "passed"} =>
       IF Top.pc = "command"
       THEN base_path = "unset" /\ Top.base_path_backup = call.base_path
       ELSE base_path = call.base_path

Frames ==
  /\ stack \in Seq(Elements(stack)) /\ stack # << >>
  /\ \A i \in DOMAIN stack : Sound(stack[i], returned, log)
  /\ \A i \in DOMAIN stack : i < Len(stack) => Delegated(stack[i], stack[i + 1])
  /\ Rooted(stack[1], call)

Past ==
  /\ log \in Seq(Elements(log)) /\ returned \in Seq(Elements(returned))
  /\ OnlyTrustedCommands /\ OwnRulesFirst
  /\ \A i \in DOMAIN returned : /\ Sound(returned[i].frame, returned, log)
                                /\ returned[i].frame.pc = "return"

IInv ==
  /\ call \in Calls /\ now \in 0 .. MaxTime /\ cwd \in Artifacts
  /\ status \in {"working", "passed"} \cup Errors
  /\ Frames /\ BasePath /\ Past

-----------------------------------------------------------------------------
(* Layouts, metadata files and the stack *)

\* What validation has made sure of.
LEMMA LayoutFacts ==
  ASSUME NEW lay, Valid(lay)
  PROVE  /\ WellFormed(lay) /\ lay.expires \in Int
         /\ Len(lay.steps) \in Nat /\ DOMAIN lay.steps = 1 .. Len(lay.steps)
         /\ Len(lay.inspect) \in Nat /\ DOMAIN lay.inspect = 1 .. Len(lay.inspect)
         /\ \A i \in DOMAIN lay.inspect : lay.inspect[i].run \in DOMAIN Commands
         /\ \A i \in DOMAIN lay.steps :
              /\ lay.steps[i] \in Elements(lay.steps)
              /\ StepNamed(lay, lay.steps[i].name) = lay.steps[i]
         /\ \A st \in Elements(lay.steps) :
              /\ st.pubkeys \in Seq(Keyids) /\ st.threshold \in Int
              /\ st.name \in NamesOf(lay)
              /\ StepNamed(lay, st.name) = st
         /\ \A n \in NamesOf(lay) : \E st \in Elements(lay.steps) : st.name = n
<1>1. WellFormed(lay) /\ lay.expires \in Int
  BY DEF Valid
<1>2. /\ Len(lay.steps) \in Nat /\ DOMAIN lay.steps = 1 .. Len(lay.steps)
      /\ Len(lay.inspect) \in Nat /\ DOMAIN lay.inspect = 1 .. Len(lay.inspect)
  BY LenProperties DEF Valid
<1>3. \A i \in DOMAIN lay.inspect : lay.inspect[i].run \in DOMAIN Commands
  BY DEF Valid
<1>4. \A st \in Elements(lay.steps) : \A other \in Elements(lay.steps) :
        st.name = other.name => st = other
  BY <1>1 DEF WellFormed, Validated, SubkeysApart, Elements
<1>5. \A st \in Elements(lay.steps) :
        st.pubkeys \in Seq(Keyids) /\ st.threshold \in Int /\ st.name \in NamesOf(lay)
  BY <1>1 DEF WellFormed, Validated, SubkeysApart, Elements, NamesOf
<1>6. \A st \in Elements(lay.steps) : StepNamed(lay, st.name) = st
  BY <1>4 DEF StepNamed
<1>7. \A i \in DOMAIN lay.steps : lay.steps[i] \in Elements(lay.steps)
  BY DEF Elements
<1>8. \A n \in NamesOf(lay) : \E st \in Elements(lay.steps) : st.name = n
  BY DEF Elements, NamesOf
<1> QED BY <1>1, <1>2, <1>3, <1>5, <1>6, <1>7, <1>8

LEMMA DocFacts ==
  ASSUME NEW doc \in Doc, IsLayout(doc.payload)
  PROVE  Valid(doc.payload)
<1>1. doc.payload \in Payloads
  BY DEF Doc
<1> QED BY <1>1, VerifyAssumption

\* A link is no layout.
LEMMA LinkFacts ==
  ASSUME NEW materials, NEW products
  PROVE  LET link == LinkOf(materials, products)
         IN ~IsLayout(link) /\ link.materials = materials /\ link.products = products
BY DEF LinkOf, IsLayout

LEMMA StackFacts ==
  ASSUME Frames
  PROVE  /\ Len(stack) \in Nat \ {0} /\ DOMAIN stack = 1 .. Len(stack)
         /\ Len(stack) \in DOMAIN stack /\ 1 \in DOMAIN stack
         /\ Sound(Top, returned, log)
<1>1. stack \in Seq(Elements(stack)) /\ stack # << >>
  BY DEF Frames
<1>2. Len(stack) \in Nat /\ DOMAIN stack = 1 .. Len(stack) /\ Len(stack) # 0
  BY <1>1, LenProperties, EmptySeq
<1> QED BY <1>2 DEF Frames, Top

\* Replacing the innermost frame touches no other.
LEMMA BecomesFacts ==
  ASSUME Frames, NEW frame, Becomes(frame)
  PROVE  /\ stack' \in Seq(Elements(stack')) /\ stack' # << >>
         /\ Len(stack') = Len(stack) /\ DOMAIN stack' = DOMAIN stack
         /\ stack'[Len(stack)] = frame
         /\ \A i \in DOMAIN stack : i # Len(stack) => stack'[i] = stack[i]
<1>1. /\ Len(stack) \in Nat \ {0} /\ DOMAIN stack = 1 .. Len(stack)
  BY StackFacts
<1>2. stack' = [stack EXCEPT ![Len(stack)] = frame]
  BY DEF Becomes
<1>3. /\ DOMAIN stack' = 1 .. Len(stack)
      /\ stack'[Len(stack)] = frame
      /\ \A i \in DOMAIN stack : i # Len(stack) => stack'[i] = stack[i]
  BY <1>1, <1>2
<1>4. \A i \in 1 .. Len(stack) : stack'[i] \in Elements(stack')
  BY <1>3 DEF Elements
<1>5. stack' \in [1 .. Len(stack) -> Elements(stack')]
  <2>1. stack' = [i \in 1 .. Len(stack) |-> IF i = Len(stack) THEN frame ELSE stack[i]]
    BY <1>1, <1>2
  <2> QED BY <1>3, <1>4, <2>1
<1>6. stack' \in Seq(Elements(stack'))
  BY <1>1, <1>5, SeqDef
<1>7. Len(stack') = Len(stack) /\ stack' # << >>
  BY <1>1, <1>3, <1>6, LenProperties, EmptySeq
<1> QED BY <1>1, <1>3, <1>6, <1>7

-----------------------------------------------------------------------------
(* What loading a step's files makes *)

\* A directory holds metadata files.
LEMMA FilesFacts ==
  ASSUME call \in Calls, NEW path
  PROVE  \A file \in DOMAIN FilesIn(path) : FilesIn(path)[file] \in Doc
BY VerifyAssumption DEF FilesIn

\* Its dict lists the keyids whose files exist, in the order they are looked for.
LEMMA LoadedListed ==
  ASSUME call \in Calls, NEW lay, WellFormed(lay), NEW st, st.pubkeys \in Seq(Keyids), NEW path
  PROVE  /\ Listed(LoadedFor(lay, st, path))
         /\ \A k \in KeysOf(LoadedFor(lay, st, path)) : LoadedFor(lay, st, path).at[k] \in Doc
<1> DEFINE subkeys(k) == IF k \in DOMAIN lay.keys THEN lay.keys[k] ELSE << >>
           at(i) == {i} \X (0 .. Len(subkeys(st.pubkeys[i])))
           lookups == UNION {at(i) : i \in DOMAIN st.pubkeys}
           keyid(p) == IF p[2] = 0 THEN st.pubkeys[p[1]] ELSE subkeys(st.pubkeys[p[1]])[p[2]]
           NotAfter(p, q) == p[1] < q[1] \/ (p[1] = q[1] /\ p[2] <= q[2])
           first(k) == CHOOSE p \in lookups :
                         keyid(p) = k /\ \A q \in lookups : keyid(q) = k => NotAfter(p, q)
           file(k) == <<st.name, Short[k]>>
           found == {k \in {keyid(p) : p \in lookups} : file(k) \in DOMAIN FilesIn(path)}
           R == {r \in found \X found : NotAfter(first(r[1]), first(r[2]))}
           dict == [order |-> Sorted(found, R), at |-> [k \in found |-> FilesIn(path)[file(k)]]]
<1>1. LoadedFor(lay, st, path) = dict
  BY DEF LoadedFor
<1>2. /\ DOMAIN st.pubkeys = 1 .. Len(st.pubkeys) /\ Len(st.pubkeys) \in Nat
      /\ \A i \in DOMAIN st.pubkeys : st.pubkeys[i] \in Keyids
  BY LenProperties, ElementOfSeq
<1>3. \A k : /\ subkeys(k) \in Seq(Keyids) /\ Len(subkeys(k)) \in Nat
             /\ \A j \in 1 .. Len(subkeys(k)) : subkeys(k)[j] \in Keyids
  <2> TAKE k
  <2>1. subkeys(k) \in Seq(Keyids)
    BY EmptySeq DEF WellFormed, Validated, SubkeysApart
  <2> HIDE DEF subkeys
  <2> QED BY <2>1, LenProperties, ElementOfSeq
<1> HIDE DEF subkeys
<1>4. \A p \in lookups : /\ p = <<p[1], p[2]>> /\ p[1] \in DOMAIN st.pubkeys /\ p[2] \in Nat
                         /\ p[2] <= Len(subkeys(st.pubkeys[p[1]]))
  BY <1>3
<1>5. \A p \in lookups : keyid(p) \in Keyids
  BY <1>2, <1>3, <1>4
<1>6. IsFiniteSet(lookups)
  <2> DEFINE family == {at(i) : i \in DOMAIN st.pubkeys}
             make == [i \in DOMAIN st.pubkeys |-> at(i)]
  <2>1. \A i \in DOMAIN st.pubkeys : IsFiniteSet(at(i))
    <3> TAKE i \in DOMAIN st.pubkeys
    <3>1. IsFiniteSet({i})
      BY FS_Singleton
    <3>2. IsFiniteSet(0 .. Len(subkeys(st.pubkeys[i])))
      BY <1>3, FS_Interval
    <3> QED BY <3>1, <3>2, FS_Product
  <2> HIDE DEF at
  <2>2. make \in Surjection(DOMAIN st.pubkeys, family)
    BY DEF Surjection
  <2>3. IsFiniteSet(DOMAIN st.pubkeys)
    BY <1>2, UpTo
  <2>4. IsFiniteSet(family)
    BY <2>2, <2>3, FS_Surjection
  <2>5. \A T \in family : IsFiniteSet(T)
    BY <2>1
  <2> QED BY <2>4, <2>5, FS_UNION
<1> HIDE DEF lookups, keyid
<1>7. IsFiniteSet(found) /\ found \subseteq Keyids
  <2> DEFINE image == {keyid(p) : p \in lookups}
             make == [p \in lookups |-> keyid(p)]
  <2>1. make \in Surjection(lookups, image)
    BY DEF Surjection
  <2>2. IsFiniteSet(image)
    BY <1>6, <2>1, FS_Surjection
  <2>3. found \in SUBSET image
    OBVIOUS
  <2> QED BY <1>5, <2>2, <2>3, FS_Subset
<1>8. \A k \in found : first(k) \in lookups /\ keyid(first(k)) = k
  <2> SUFFICES ASSUME NEW k \in found
               PROVE  \E p \in lookups :
                        keyid(p) = k /\ \A q \in lookups : keyid(q) = k => NotAfter(p, q)
    OBVIOUS
  <2> DEFINE mine == {p \in lookups : keyid(p) = k}
             I == {p[1] : p \in mine}
  <2>1. mine # {} /\ \A p \in mine : /\ p = <<p[1], p[2]>> /\ p[1] \in Nat /\ p[2] \in Nat
    BY <1>2, <1>4
  <2>2. I # {} /\ I \in SUBSET Nat
    BY <2>1
  <2>3. PICK i \in I : \A x \in I : i <= x
    BY <2>2, FirstIndex
  <2> DEFINE J == {p[2] : p \in {q \in mine : q[1] = i}}
  <2>4. J # {} /\ J \in SUBSET Nat
    BY <2>1
  <2>5. PICK j \in J : \A x \in J : j <= x
    BY <2>4, FirstIndex
  <2>6. PICK p \in mine : p[1] = i /\ p[2] = j
    BY <2>5
  <2>7. ASSUME NEW q \in mine PROVE NotAfter(p, q)
    <3>1. q[1] \in I /\ p[1] <= q[1] /\ p[1] \in Nat /\ q[1] \in Nat
      BY <2>1, <2>3, <2>6
    <3>2. q[1] = i => p[2] <= q[2]
      BY <2>5, <2>6
    <3> QED BY <2>6, <3>1, <3>2
  <2> QED BY <2>7
<1> HIDE DEF found, first
<1>9. \A k \in found : /\ first(k) = <<first(k)[1], first(k)[2]>>
                       /\ first(k)[1] \in Int /\ first(k)[2] \in Int
  BY <1>2, <1>4, <1>8
<1>10. \A x, y \in found : first(x)[1] = first(y)[1] /\ first(x)[2] = first(y)[2] => x = y
  <2> TAKE x, y \in found
  <2>1. keyid(first(x)) = x /\ keyid(first(y)) = y
    BY <1>8
  <2> QED BY <1>9, <2>1
<1>11. \A x, y \in found : <<x, y>> \in R <=> NotAfter(first(x), first(y))
  OBVIOUS
<1> HIDE DEF R
<1>12. /\ Sorted(found, R) \in Seq(found) /\ Distinct(Sorted(found, R))
       /\ Elements(Sorted(found, R)) = found
  <2>1. \A x, y \in found : <<x, y>> \in R \/ <<y, x>> \in R
    <3> TAKE x, y \in found
    <3> QED BY <1>9, <1>11
  <2>2. \A x, y \in found : <<x, y>> \in R /\ <<y, x>> \in R => x = y
    <3> TAKE x, y \in found
    <3> QED BY <1>9, <1>10, <1>11
  <2>3. \A x, y, z \in found : <<x, y>> \in R /\ <<y, z>> \in R => <<x, z>> \in R
    <3> TAKE x, y, z \in found
    <3> QED BY <1>9, <1>11
  <2> QED BY <1>7, <2>1, <2>2, <2>3, SortedListed
<1>13. Sorted(found, R) \in Seq(Keyids)
  BY <1>7, <1>12, SeqDef
<1>14. Listed(dict)
  BY <1>12, <1>13 DEF Listed, KeysOf
<1>15. \A k \in KeysOf(dict) : dict.at[k] \in Doc
  BY FilesFacts DEF KeysOf, found
<1> QED BY <1>1, <1>14, <1>15

-----------------------------------------------------------------------------
(* What is established stays so *)

\* More calls return, more commands are started.
LEMMA SoundLater ==
  ASSUME NEW f, NEW ret, NEW lg, Sound(f, ret, lg),
         NEW ret2, NEW lg2,
         \A i \in DOMAIN ret : i \in DOMAIN ret2 /\ ret2[i] = ret[i],
         \A i \in DOMAIN lg : i \in DOMAIN lg2 /\ lg2[i] = lg[i]
  PROVE  Sound(f, ret2, lg2)
<1>1. \A st, k, payload : VouchesIn(ret, f, st, k, payload) => VouchesIn(ret2, f, st, k, payload)
  BY DEF VouchesIn
<1>2. Vouched(f, ret2)
  <2>1. Vouched(f, ret)
    BY DEF Sound
  <2> QED BY <1>1, <2>1 DEF Vouched
<1>3. \A n, artifacts : StartedOn(f, lg, n, artifacts) => StartedOn(f, lg2, n, artifacts)
  BY DEF StartedOn
<1>4. Inspected(f, lg2)
  <2>1. Inspected(f, lg)
    BY DEF Sound
  <2> QED BY <1>3, <2>1 DEF Inspected
<1> QED BY <1>2, <1>4 DEF Sound

LEMMA AppendKeeps ==
  ASSUME NEW s, s \in Seq(Elements(s)), NEW e
  PROVE  LET t == Append(s, e)
         IN  /\ t \in Seq(Elements(t)) /\ Len(s) \in Nat /\ Len(t) = Len(s) + 1
             /\ DOMAIN s = 1 .. Len(s) /\ DOMAIN t = 1 .. Len(s) + 1
             /\ \A i \in DOMAIN s : i \in DOMAIN t /\ t[i] = s[i]
             /\ t[Len(s) + 1] = e
<1> DEFINE S == Elements(s) \cup {e}
           t == Append(s, e)
<1>1. s \in Seq(S) /\ e \in S /\ Len(s) \in Nat /\ DOMAIN s = 1 .. Len(s)
  BY LenProperties, SeqDef
<1>2. /\ t \in Seq(S) /\ Len(t) = Len(s) + 1
      /\ \A i \in 1 .. Len(s) : t[i] = s[i]
      /\ t[Len(s) + 1] = e
  BY <1>1, AppendProperties
<1>3. DOMAIN t = 1 .. Len(s) + 1
  BY <1>2, LenProperties
<1>4. t \in [1 .. Len(s) + 1 -> S]
  BY <1>2, LenProperties
<1>5. \A i \in 1 .. Len(s) + 1 : t[i] \in Elements(t)
  BY <1>3 DEF Elements
<1>6. t \in [1 .. Len(s) + 1 -> Elements(t)]
  BY <1>4, <1>5
<1> HIDE DEF t
<1>7. t \in Seq(Elements(t))
  <2>1. Len(s) + 1 \in Nat
    BY <1>1
  <2> QED BY <1>6, <2>1, SeqDef
<1> QED BY <1>1, <1>2, <1>3, <1>7 DEF t

\* f is still the call that g is.
SameCall(f, g) ==
  /\ f.metadata = g.metadata /\ f.layout_key_dict = g.layout_key_dict
  /\ f.link_dir_path = g.link_dir_path /\ f.step_name = g.step_name

LEMMA FramesStep ==
  ASSUME Frames, NEW f, Becomes(f), SameCall(f, Top), Sound(f, returned, log'),
         UNCHANGED <<call, returned>>,
         \A i \in DOMAIN log : i \in DOMAIN log' /\ log'[i] = log[i],
         Len(stack) = 1 => Rooted(f, call)
  PROVE  Frames' /\ Top' = f
<1> DEFINE n == Len(stack)
<1>1. /\ n \in Nat \ {0} /\ DOMAIN stack = 1 .. n
      /\ stack' \in Seq(Elements(stack')) /\ stack' # << >>
      /\ Len(stack') = n /\ DOMAIN stack' = 1 .. n
      /\ stack'[n] = f
      /\ \A i \in 1 .. n : i # n => stack'[i] = stack[i]
  BY StackFacts, BecomesFacts
<1>2. Top' = f
  BY <1>1 DEF Top
<1> HIDE DEF n
<1>3. \A i \in 1 .. n : Sound(stack'[i], returned', log')
  <2> TAKE i \in 1 .. n
  <2>1. Sound(stack[i], returned, log)
    BY <1>1 DEF Frames
  <2>2. Sound(stack[i], returned, log')
    BY <2>1, SoundLater
  <2> QED BY <1>1, <2>2
<1>4. \A i \in 1 .. n : i < n => Delegated(stack'[i], stack'[i + 1])
  <2> SUFFICES ASSUME NEW i \in 1 .. n, i < n PROVE Delegated(stack'[i], stack'[i + 1])
    OBVIOUS
  <2>1. Delegated(stack[i], stack[i + 1])
    BY <1>1 DEF Frames, n
  <2>2. stack'[i] = stack[i]
    BY <1>1
  <2>3. CASE i + 1 # n
    <3>1. i + 1 \in 1 .. n
      BY <1>1
    <3>2. stack'[i + 1] = stack[i + 1]
      BY <1>1, <2>3, <3>1
    <3> QED BY <2>1, <2>2, <3>2
  <2>4. CASE i + 1 = n
    <3>1. stack'[i + 1] = f /\ stack[i + 1] = Top
      BY <1>1, <2>4 DEF Top, n
    <3> QED BY <2>1, <2>2, <3>1 DEF Delegated, SameCall
  <2> QED BY <2>3, <2>4
<1>5. Rooted(stack'[1], call')
  <2>1. call' = call
    OBVIOUS
  <2>2. CASE n = 1
    <3>1. stack'[1] = f
      BY <1>1, <2>2
    <3> QED BY <2>1, <2>2, <3>1 DEF n
  <2>3. CASE n # 1
    <3>1. stack'[1] = stack[1]
      BY <1>1, <2>3
    <3> QED BY <2>1, <3>1 DEF Frames
  <2> QED BY <2>2, <2>3
<1> QED BY <1>1, <1>2, <1>3, <1>4, <1>5 DEF Frames, n

\* Signatures need not be checked again.
LEMMA RootedStays ==
  ASSUME Frames, NEW f, SameCall(f, Top), Top.pc # "layout signatures"
  PROVE  Len(stack) = 1 => Rooted(f, call)
<1> SUFFICES ASSUME Len(stack) = 1 PROVE Rooted(f, call)
  OBVIOUS
<1>1. Rooted(Top, call)
  BY DEF Frames, Top
<1> QED BY <1>1 DEF Rooted, SameCall

LEMMA PastSame ==
  ASSUME Past, UNCHANGED <<call, log, returned>>
  PROVE  Past'
<1>1. OnlyTrustedCommands'
  <2> SUFFICES ASSUME NEW i \in DOMAIN log PROVE Trusted(log[i].stack)'
    BY DEF OnlyTrustedCommands
  <2>1. Trusted(log[i].stack)
    BY DEF Past, OnlyTrustedCommands
  <2> QED BY <2>1 DEF Trusted
<1>2. OwnRulesFirst'
  BY DEF Past, OwnRulesFirst
<1> QED BY <1>1, <1>2 DEF Past

\* A phase in which no command runs ends, and the next one begins or goes on.
LEMMA ProceedStep ==
  ASSUME IInv, status = "working", NEW f, Proceed(f), OnStack,
         SameCall(f, Top), Sound(f, returned, log), Len(stack) = 1 => Rooted(f, call),
         Top.pc # "command", f.pc # "command"
  PROVE  IInv'
<1>1. /\ Becomes(f) /\ status' = status
      /\ UNCHANGED <<call, now, cwd, base_path, log, returned>>
  BY DEF Proceed, OnStack, world, history
<1>2. Frames' /\ Top' = f
  BY <1>1, FramesStep DEF IInv
<1>3. BasePath'
  BY <1>1, <1>2 DEF IInv, BasePath
<1>4. Past'
  BY <1>1, PastSame DEF IInv
<1> QED BY <1>1, <1>2, <1>3, <1>4 DEF IInv

LEMMA SameFrames ==
  ASSUME Frames, UNCHANGED <<call, stack, log, returned>>
  PROVE  Frames' /\ Top' = Top
BY DEF Frames, Top

\* Raising freezes everything.
LEMMA RaiseStep ==
  ASSUME IInv, NEW error \in Errors, Raise(error), OnStack
  PROVE  IInv'
<1>1. /\ status' = error
      /\ UNCHANGED <<call, stack, now, cwd, base_path, log, returned>>
  BY DEF Raise, OnStack, world, history
<1>2. Frames'
  BY <1>1, SameFrames DEF IInv
<1>3. BasePath'
  BY <1>1 DEF IInv, BasePath, Errors
<1>4. Past'
  BY <1>1, PastSame DEF IInv
<1> QED BY <1>1, <1>2, <1>3, <1>4 DEF IInv

-----------------------------------------------------------------------------
(* One lemma per action *)

\* Entering in_toto_verify with a layout.
LEMMA EnteredSound ==
  ASSUME NEW metadata \in Doc, IsLayout(metadata.payload),
         NEW params \in {NoParams} \cup DOMAIN Format,
         NEW keys, NEW path, NEW name, NEW persist, NEW ret, NEW lg
  PROVE  /\ Sound(Frame(metadata, keys, path, name, params, persist), ret, lg)
         /\ Frame(metadata, keys, path, name, params, persist).pc = "layout signatures"
<1> DEFINE f == Frame(metadata, keys, path, name, params, persist)
<1>1. /\ DOMAIN f = Fields /\ f.pc = "layout signatures"
      /\ f.metadata = metadata /\ f.layout = metadata.payload
      /\ f.substitution_parameters = params /\ f.inspection = 1 /\ f.step = 1 /\ f.key = 1
      /\ DOMAIN f.inspection_links = {}
  BY DEF Frame, Fields, NoLinks
<1> HIDE DEF f
<1>2. Typed(f)
  <2>1. f.pc \in Phases /\ f.pc \notin Unexpired
    BY <1>1 DEF Phases, Unexpired
  <2>2. Valid(f.layout)
    BY <1>1, DocFacts
  <2>3. f.inspection \in Nat \ {0}
    <3>1. 1 \in Nat \ {0}
      OBVIOUS
    <3>2. f.inspection = 1
      BY <1>1, Zenon
    <3> QED BY <3>1, <3>2, Zenon
  <2> QED BY <1>1, <2>1, <2>2, <2>3 DEF Typed
<1>3. Sound(f, ret, lg)
  BY <1>1, <1>2
     DEF Sound, Filed, Authorized, Chained, Agreed, FirstOnes, RulesHeld, Vouched, Reduced,
         Inspected, Unexpired, Loaded, LinksChecked, Compared, RulesChecked
<1> QED BY <1>1, <1>3 DEF f

LEMMA InitIInv == Init => IInv
<1> SUFFICES ASSUME Init PROVE IInv
  OBVIOUS
<1> DEFINE f == Frame(call.metadata, call.keys, << >>, "unnamed", call.params, call.persist)
<1>1. /\ call \in Calls /\ stack = <<f>> /\ now = 0 /\ cwd = call.cwd
      /\ base_path = call.base_path /\ status = "working" /\ log = << >> /\ returned = << >>
  BY DEF Init
<1>2. now \in 0 .. MaxTime /\ cwd \in Artifacts
  BY <1>1, VerifyAssumption
<1>3. Sound(f, returned, log)
  <2>1. /\ call.metadata \in Doc /\ IsLayout(call.metadata.payload)
        /\ call.params \in {NoParams} \cup DOMAIN Format
    BY <1>1, VerifyAssumption
  <2> HIDE DEF f
  <2> QED BY <2>1, EnteredSound DEF f
<1>4. Rooted(f, call)
  BY DEF Rooted, Frame
<1>5. Len(stack) = 1 /\ DOMAIN stack = {1} /\ stack[1] = f
  BY <1>1
<1>6. Frames
  <2>1. stack \in Seq(Elements(stack)) /\ stack # << >>
    <3>1. f \in Elements(stack)
      BY <1>5 DEF Elements
    <3> HIDE DEF f
    <3> QED BY <1>1, <3>1
  <2> QED BY <1>3, <1>4, <1>5, <2>1 DEF Frames
<1>7. BasePath
  <2>1. Top = f
    BY <1>5 DEF Top
  <2>2. f.pc = "layout signatures"
    BY DEF Frame
  <2>3. Top.pc # "command"
    BY <2>1, <2>2
  <2> QED BY <1>1, <2>3 DEF BasePath
<1>8. Past
  <2>1. log \in Seq(Elements(log)) /\ returned \in Seq(Elements(returned))
    BY <1>1
  <2>2. DOMAIN log = {} /\ DOMAIN returned = {}
    BY <1>1
  <2> QED BY <2>1, <2>2 DEF Past, OnlyTrustedCommands, OwnRulesFirst
<1> QED BY <1>1, <1>2, <1>6, <1>7, <1>8 DEF IInv

\* What is known of the innermost frame.
LEMMA TopFacts ==
  ASSUME IInv
  PROVE  /\ Typed(Top) /\ Filed(Top) /\ Authorized(Top) /\ Chained(Top) /\ Agreed(Top)
         /\ FirstOnes(Top) /\ RulesHeld(Top) /\ Vouched(Top, returned) /\ Inspected(Top, log)
         /\ Valid(Top.layout) /\ DOMAIN Top = Fields
         /\ Len(stack) \in Nat \ {0} /\ DOMAIN stack = 1 .. Len(stack)
<1>1. Sound(Top, returned, log) /\ Len(stack) \in Nat \ {0} /\ DOMAIN stack = 1 .. Len(stack)
  BY StackFacts DEF IInv
<1> QED BY <1>1 DEF Sound, Typed

LEMMA InspectedStays ==
  ASSUME IInv, NEW f, f.link_dir_path = Top.link_dir_path,
         f.inspection_links = Top.inspection_links, f.pc # "command"
  PROVE  Inspected(f, log)
<1>1. \A n, artifacts : StartedOn(Top, log, n, artifacts) => StartedOn(f, log, n, artifacts)
  BY DEF StartedOn
<1>2. Inspected(Top, log)
  BY TopFacts
<1> QED BY <1>1, <1>2 DEF Inspected

LEMMA VerifyLayoutSignaturesStep == ASSUME IInv, VerifyLayoutSignatures PROVE IInv'
<1> DEFINE keys == UNION {Top.layout_key_dict[k] : k \in DOMAIN Top.layout_key_dict}
           f == [Top EXCEPT !.pc = "expiration"]
           accepted == keys # {} /\ \A key \in keys : KeyAccepts(key, Top.metadata)
<1>1. /\ status = "working" /\ Top.pc = "layout signatures" /\ OnStack
      /\ \/ Raise("FormatError")
         \/ Raise("SignatureVerificationError")
         \/ Raise("ValueError")
         \/ accepted /\ Proceed(f)
  BY DEF VerifyLayoutSignatures, At
<1>2. CASE Raise("FormatError") \/ Raise("SignatureVerificationError") \/ Raise("ValueError")
  BY <1>1, <1>2, RaiseStep DEF Errors
<1>3. CASE accepted /\ Proceed(f)
  <2>1. /\ DOMAIN f = Fields /\ f.pc = "expiration" /\ SameCall(f, Top)
        /\ f.metadata = Top.metadata /\ f.layout = Top.layout
        /\ f.substitution_parameters = Top.substitution_parameters
        /\ f.link_dir_path = Top.link_dir_path
        /\ f.inspection = Top.inspection /\ f.inspection_links = Top.inspection_links
        /\ f.step = Top.step /\ f.key = Top.key
    BY TopFacts DEF Fields, SameCall
  <2> HIDE DEF f
  <2>2. Typed(f)
    BY <1>1, <2>1, TopFacts DEF Typed, Phases, Unexpired, Loaded, LinksChecked
  <2>3. Inspected(f, log)
    BY <2>1, InspectedStays
  <2>4. Sound(f, returned, log)
    BY <2>1, <2>2, <2>3
       DEF Sound, Filed, Authorized, Chained, Agreed, FirstOnes, RulesHeld, Vouched, Reduced,
           Unexpired, Loaded, LinksChecked, Compared, RulesChecked
  <2>5. Len(stack) = 1 => Rooted(f, call)
    <3> SUFFICES ASSUME Len(stack) = 1 PROVE Rooted(f, call)
      OBVIOUS
    <3>1. Rooted(Top, call)
      BY DEF IInv, Frames, Top
    <3>2. /\ f.metadata = call.metadata /\ f.layout_key_dict = call.keys
          /\ Top.layout_key_dict = call.keys
      BY <2>1, <3>1 DEF Rooted, SameCall
    <3>3. ASSUME NEW key \in keys
          PROVE  \E s \in Elements(f.metadata.signatures) :
                   s.good /\ s.keyid \in {key.keyid} \cup Elements(key.subkeys)
      <4>1. KeyAccepts(key, f.metadata)
        BY <1>3, <2>1
      <4> QED BY <4>1 DEF KeyAccepts, Own, VerifySignature, Elements
    <3> QED BY <1>3, <3>2, <3>3 DEF Rooted
  <2> QED BY <1>1, <1>3, <2>1, <2>4, <2>5, ProceedStep
<1> QED BY <1>1, <1>2, <1>3

LEMMA VerifyExpirationStep == ASSUME IInv, VerifyExpiration PROVE IInv'
<1> DEFINE f == [Top EXCEPT !.pc = "substitution"]
<1>1. /\ status = "working" /\ Top.pc = "expiration" /\ OnStack
      /\ \/ Raise("LayoutExpiredError")
         \/ ~ (Top.layout.expires <= now) /\ Proceed(f)
  BY DEF VerifyExpiration, At
<1>2. CASE Raise("LayoutExpiredError")
  BY <1>1, <1>2, RaiseStep DEF Errors
<1>3. CASE ~ (Top.layout.expires <= now) /\ Proceed(f)
  <2>1. /\ DOMAIN f = Fields /\ f.pc = "substitution" /\ SameCall(f, Top)
        /\ f.metadata = Top.metadata /\ f.layout = Top.layout
        /\ f.substitution_parameters = Top.substitution_parameters
        /\ f.link_dir_path = Top.link_dir_path
        /\ f.inspection = Top.inspection /\ f.inspection_links = Top.inspection_links
        /\ f.step = Top.step /\ f.key = Top.key
    BY TopFacts DEF Fields, SameCall
  <2> HIDE DEF f
  <2>2. f.metadata.payload.expires > 0
    <3>1. Top.layout.expires \in Int /\ now \in Nat
      BY TopFacts, LayoutFacts, VerifyAssumption DEF IInv
    <3>2. f.metadata.payload = Top.layout
      BY <1>1, <2>1, TopFacts DEF Typed
    <3> QED BY <1>3, <3>1, <3>2
  <2>3. Typed(f)
    BY <1>1, <2>1, <2>2, TopFacts DEF Typed, Phases, Unexpired, Loaded, LinksChecked
  <2>4. Inspected(f, log)
    BY <2>1, InspectedStays
  <2>5. Sound(f, returned, log)
    BY <2>1, <2>3, <2>4
       DEF Sound, Filed, Authorized, Chained, Agreed, FirstOnes, RulesHeld, Vouched, Reduced,
           Unexpired, Loaded, LinksChecked, Compared, RulesChecked
  <2>6. Len(stack) = 1 => Rooted(f, call)
    BY <1>1, <2>1, RootedStays DEF IInv
  <2> QED BY <1>1, <1>3, <2>1, <2>5, <2>6, ProceedStep
<1> QED BY <1>1, <1>2, <1>3

LEMMA SubstituteParametersStep == ASSUME IInv, SubstituteParameters PROVE IInv'
<1> DEFINE params == Top.substitution_parameters
           f == [Top EXCEPT !.pc = "load"]
           g == [Top EXCEPT !.pc = "load", !.layout = Format[params][Top.layout]]
<1>1. /\ status = "working" /\ Top.pc = "substitution" /\ OnStack
      /\ \/ Raise("KeyError")
         \/ Proceed(f)
         \/ params # NoParams /\ Top.layout \in DOMAIN Format[params] /\ Proceed(g)
  BY DEF SubstituteParameters, At
<1>2. CASE Raise("KeyError")
  BY <1>1, <1>2, RaiseStep DEF Errors
<1>3. ASSUME NEW h, Proceed(h), DOMAIN h = Fields, h.pc = "load", SameCall(h, Top),
             h.substitution_parameters = params, h.metadata = Top.metadata,
             h.link_dir_path = Top.link_dir_path, h.inspection = Top.inspection,
             h.inspection_links = Top.inspection_links, h.step = Top.step, h.key = Top.key,
             IsLayout(h.layout), Valid(h.layout)
      PROVE  IInv'
  <2>1. Typed(h)
    <3>1. h.metadata.payload.expires > 0
      BY <1>1, <1>3, TopFacts DEF Typed, Unexpired, Phases
    <3> QED BY <1>1, <1>3, <3>1, TopFacts DEF Typed, Phases, Unexpired, Loaded, LinksChecked
  <2>2. Inspected(h, log)
    BY <1>3, InspectedStays
  <2>3. Sound(h, returned, log)
    BY <1>3, <2>1, <2>2
       DEF Sound, Filed, Authorized, Chained, Agreed, FirstOnes, RulesHeld, Vouched, Reduced,
           Unexpired, Loaded, LinksChecked, Compared, RulesChecked
  <2>4. Len(stack) = 1 => Rooted(h, call)
    BY <1>1, <1>3, RootedStays DEF IInv
  <2> QED BY <1>1, <1>3, <2>3, <2>4, ProceedStep
<1>4. CASE Proceed(f)
  <2>1. /\ DOMAIN f = Fields /\ f.pc = "load" /\ SameCall(f, Top)
        /\ f.substitution_parameters = params /\ f.metadata = Top.metadata
        /\ f.link_dir_path = Top.link_dir_path /\ f.layout = Top.layout
        /\ f.inspection = Top.inspection /\ f.inspection_links = Top.inspection_links
        /\ f.step = Top.step /\ f.key = Top.key
    BY TopFacts DEF Fields, SameCall
  <2> HIDE DEF f
  <2> QED BY <1>3, <1>4, <2>1, TopFacts DEF Typed
<1>5. CASE params # NoParams /\ Top.layout \in DOMAIN Format[params] /\ Proceed(g)
  <2>1. /\ DOMAIN g = Fields /\ g.pc = "load" /\ SameCall(g, Top)
        /\ g.substitution_parameters = params /\ g.metadata = Top.metadata
        /\ g.link_dir_path = Top.link_dir_path /\ g.layout = Format[params][Top.layout]
        /\ g.inspection = Top.inspection /\ g.inspection_links = Top.inspection_links
        /\ g.step = Top.step /\ g.key = Top.key
    BY TopFacts DEF Fields, SameCall
  <2>2. IsLayout(Format[params][Top.layout]) /\ Valid(Format[params][Top.layout])
    BY <1>5, TopFacts, VerifyAssumption DEF Typed
  <2> HIDE DEF g
  <2> QED BY <1>3, <1>5, <2>1, <2>2
<1> QED BY <1>1, <1>2, <1>4, <1>5

LEMMA LoadLinksStep == ASSUME IInv, LoadLinks PROVE IInv'
<1> DEFINE lay == Top.layout
           loaded == [n \in NamesOf(lay) |->
                        LoadedFor(lay, StepNamed(lay, n), Top.link_dir_path)]
           f == [Top EXCEPT !.pc = "link signatures", !.steps_metadata = loaded]
<1>1. /\ status = "working" /\ Top.pc = "load" /\ OnStack
      /\ Raise("LinkNotFoundError") \/ Proceed(f)
  BY DEF LoadLinks, At
<1>2. CASE Raise("LinkNotFoundError")
  BY <1>1, <1>2, RaiseStep DEF Errors
<1>3. CASE Proceed(f)
  <2>1. /\ DOMAIN f = Fields /\ f.pc = "link signatures" /\ SameCall(f, Top)
        /\ f.metadata = Top.metadata /\ f.layout = lay
        /\ f.substitution_parameters = Top.substitution_parameters
        /\ f.link_dir_path = Top.link_dir_path /\ f.steps_metadata = loaded
        /\ f.inspection = Top.inspection /\ f.inspection_links = Top.inspection_links
        /\ f.step = Top.step /\ f.key = Top.key
    BY TopFacts DEF Fields, SameCall
  <2> HIDE DEF f
  <2>2. Typed(f)
    BY <1>1, <2>1, TopFacts DEF Typed, Phases, Unexpired, Loaded, LinksChecked
  <2>3. Filed(f)
    <3>1. ASSUME NEW n \in NamesOf(lay)
          PROVE  /\ Listed(loaded[n])
                 /\ \A k \in KeysOf(loaded[n]) : loaded[n].at[k] \in Doc
      <4>1. StepNamed(lay, n).pubkeys \in Seq(Keyids) /\ WellFormed(lay)
        BY TopFacts, LayoutFacts
      <4> QED BY <4>1, LoadedListed DEF IInv
    <3> QED BY <2>1, <3>1 DEF Filed
  <2>4. Inspected(f, log)
    BY <2>1, InspectedStays
  <2>5. Sound(f, returned, log)
    BY <2>1, <2>2, <2>3, <2>4
       DEF Sound, Authorized, Chained, Agreed, FirstOnes, RulesHeld, Vouched, Reduced,
           Unexpired, Loaded, LinksChecked, Compared, RulesChecked
  <2>6. Len(stack) = 1 => Rooted(f, call)
    BY <1>1, <2>1, RootedStays DEF IInv
  <2> QED BY <1>1, <1>3, <2>1, <2>5, <2>6, ProceedStep
<1> QED BY <1>1, <1>2, <1>3

LEMMA VerifyLinkSignaturesStep == ASSUME IInv, VerifyLinkSignatures PROVE IInv'
<1> DEFINE lay == Top.layout
           dict(st) == Top.steps_metadata[st.name]
           used(st) == UsedMainKeyids(lay, st.pubkeys, dict(st))
           verified(st) == Verified(lay, st.pubkeys, dict(st))
           kept == [n \in NamesOf(lay) |-> LET st == StepNamed(lay, n)
                                           IN  Keeping(dict(st), verified(st))]
           chain == [n \in NamesOf(lay) |-> EmptyDict]
           f == [Top EXCEPT !.pc = "sublayouts", !.steps_metadata = kept, !.chain = chain]
<1>1. /\ status = "working" /\ Top.pc = "link signatures" /\ OnStack
      /\ \/ Raise("ValueError") \/ Raise("ThresholdVerificationError")
         \/ /\ ~ \E st \in Elements(lay.steps) : Cardinality(used(st)) < st.threshold
            /\ Proceed(f)
  BY DEF VerifyLinkSignatures, At
<1>2. CASE Raise("ValueError") \/ Raise("ThresholdVerificationError")
  BY <1>1, <1>2, RaiseStep DEF Errors
<1>3. CASE /\ ~ \E st \in Elements(lay.steps) : Cardinality(used(st)) < st.threshold
           /\ Proceed(f)
  <2>1. /\ DOMAIN f = Fields /\ f.pc = "sublayouts" /\ SameCall(f, Top)
        /\ f.metadata = Top.metadata /\ f.layout = lay
        /\ f.substitution_parameters = Top.substitution_parameters
        /\ f.link_dir_path = Top.link_dir_path /\ f.steps_metadata = kept
        /\ f.chain = chain
        /\ f.inspection = Top.inspection /\ f.inspection_links = Top.inspection_links
        /\ f.step = Top.step /\ f.key = Top.key
    BY TopFacts DEF Fields, SameCall
  <2>2. /\ f.step = 1 /\ f.key = 1
    BY <1>1, <2>1, TopFacts DEF Typed, LinksChecked, Loaded
  <2>3. ASSUME NEW st \in Elements(lay.steps)
        PROVE  /\ st.name \in NamesOf(lay) /\ StepNamed(lay, st.name) = st
               /\ st.pubkeys \in Seq(Keyids) /\ st.threshold \in Int
               /\ Listed(dict(st)) /\ \A k \in KeysOf(dict(st)) : dict(st).at[k] \in Doc
               /\ kept[st.name] = Keeping(dict(st), verified(st))
    <3>1. /\ st.name \in NamesOf(lay) /\ StepNamed(lay, st.name) = st
          /\ st.pubkeys \in Seq(Keyids) /\ st.threshold \in Int
      BY TopFacts, LayoutFacts
    <3>2. Filed(Top) /\ Top.pc \in Loaded
      BY <1>1, TopFacts DEF Loaded, Unexpired, Phases
    <3>3. Listed(dict(st)) /\ \A k \in KeysOf(dict(st)) : dict(st).at[k] \in Doc
      BY <3>1, <3>2 DEF Filed
    <3> QED BY <3>1, <3>3
  <2>4. \A n \in NamesOf(lay) : \E st \in Elements(lay.steps) : st.name = n
    BY TopFacts, LayoutFacts
  <2> HIDE DEF f, kept, dict
  <2>5. Typed(f)
    BY <1>1, <2>1, TopFacts DEF Typed, Phases, Unexpired, Loaded, LinksChecked
  <2>6. ASSUME NEW st \in Elements(lay.steps)
        PROVE  /\ Listed(kept[st.name]) /\ KeysOf(kept[st.name]) = verified(st)
               /\ \A k \in verified(st) : kept[st.name].at[k] = dict(st).at[k]
               /\ verified(st) \subseteq KeysOf(dict(st))
    <3>1. verified(st) \subseteq KeysOf(dict(st))
      BY DEF Verified
    <3> HIDE DEF verified
    <3>2. Listed(dict(st)) /\ kept[st.name] = Keeping(dict(st), verified(st))
      BY <2>3
    <3>3. /\ Listed(Keeping(dict(st), verified(st)))
          /\ KeysOf(Keeping(dict(st), verified(st))) = KeysOf(dict(st)) \cap verified(st)
          /\ \A k \in KeysOf(dict(st)) \cap verified(st) :
               Keeping(dict(st), verified(st)).at[k] = dict(st).at[k]
      BY <3>2, KeepingListed
    <3> QED BY <3>1, <3>2, <3>3
  <2>7. Filed(f)
    <3>1. DOMAIN kept = NamesOf(lay)
      BY DEF kept
    <3>2. ASSUME NEW n \in NamesOf(lay)
          PROVE  Listed(kept[n]) /\ \A k \in KeysOf(kept[n]) : kept[n].at[k] \in Doc
      <4>1. PICK st \in Elements(lay.steps) : st.name = n
        BY <2>4
      <4> HIDE DEF verified
      <4> QED BY <2>3, <2>6, <4>1
    <3> QED BY <2>1, <3>1, <3>2 DEF Filed
  <2>8. Authorized(f)
    <3>1. ASSUME NEW st \in Elements(lay.steps), NEW k \in KeysOf(kept[st.name])
          PROVE  \E m \in AuthorizedMains(lay, st) : Signed(lay, m, kept[st.name].at[k])
      <4>1. k \in verified(st) /\ kept[st.name].at[k] = dict(st).at[k]
        BY <2>6
      <4>2. PICK m \in VerificationKey(lay, st.pubkeys, k) :
                   VerifySignature(dict(st).at[k], KeyWithSubkeys(lay, m), m)
        BY <4>1 DEF Verified
      <4>3. m \in AuthorizedMains(lay, st)
        BY <2>3, VerificationKeyAuthorized
      <4> QED BY <4>1, <4>2, <4>3, VerifiedIsSigned
    <3>2. ASSUME NEW st \in Elements(lay.steps)
          PROVE  Cardinality(Signers(f, st)) >= st.threshold
      <4> DEFINE own == Keeping(dict(st), Verified(lay, st.pubkeys, dict(st)))
      <4>1. Signers(f, st) = {m \in AuthorizedMains(lay, st) :
                                \E k \in KeysOf(own) : Signed(lay, m, own.at[k])}
        BY <2>1, <2>3 DEF Signers
      <4>2. WellFormed(lay)
        BY TopFacts, LayoutFacts
      <4>3. /\ Cardinality(used(st)) \in Nat /\ Cardinality(Signers(f, st)) \in Nat
            /\ Cardinality(used(st)) <= Cardinality(Signers(f, st))
        BY <2>3, <4>1, <4>2, UsedAreVouchers
      <4>4. st.threshold \in Int /\ ~ (Cardinality(used(st)) < st.threshold)
        BY <1>3, <2>3
      <4> QED BY <4>3, <4>4
    <3> QED BY <2>1, <3>1, <3>2 DEF Authorized
  <2>9. Chained(f)
    <3>1. DOMAIN chain = NamesOf(lay) /\ \A n \in NamesOf(lay) : chain[n] = EmptyDict
      OBVIOUS
    <3>2. \A i \in DOMAIN lay.steps : \A n : \A j \in DOMAIN f.steps_metadata[n].order :
            j \in Nat \ {0} \/ n \notin NamesOf(lay)
      <4> SUFFICES ASSUME NEW n \in NamesOf(lay), NEW j \in DOMAIN kept[n].order
                   PROVE  j \in Nat \ {0}
        BY <2>1
      <4>1. Listed(kept[n])
        BY <2>4, <2>6
      <4> QED BY <4>1, LenProperties DEF Listed
    <3>3. \A i \in DOMAIN lay.steps : i \in Nat \ {0} /\ lay.steps[i].name \in NamesOf(lay)
      BY TopFacts, LayoutFacts DEF NamesOf
    <3>4. ASSUME NEW i \in DOMAIN lay.steps,
                 NEW j \in DOMAIN f.steps_metadata[lay.steps[i].name].order
          PROVE  ~Visited(f, i, j)
      <4>1. i \in Nat \ {0} /\ j \in Nat \ {0}
        BY <3>2, <3>3
      <4> QED BY <2>1, <2>2, <4>1 DEF Visited
    <3> HIDE DEF chain
    <3> QED BY <2>1, <2>2, <3>1, <3>4, EmptyListed DEF Chained
  <2>10. Vouched(f, returned)
    <3>1. \A st \in Elements(lay.steps) : KeysOf(f.chain[st.name]) = {}
      BY <2>1, <2>3, EmptyListed
    <3> QED BY <2>1, <3>1 DEF Vouched
  <2>11. Inspected(f, log)
    BY <2>1, InspectedStays
  <2>12. Sound(f, returned, log)
    <3>1. Agreed(f) /\ FirstOnes(f) /\ RulesHeld(f)
      BY <2>1 DEF Agreed, FirstOnes, RulesHeld, Reduced, Compared, RulesChecked
    <3> QED BY <2>5, <2>7, <2>8, <2>9, <2>10, <2>11, <3>1 DEF Sound
  <2>13. Len(stack) = 1 => Rooted(f, call)
    BY <1>1, <2>1, RootedStays DEF IInv
  <2> QED BY <1>1, <1>3, <2>1, <2>12, <2>13, ProceedStep DEF f, kept, dict
<1> QED BY <1>1, <1>2, <1>3

(***************************************************************************)
(* verify_sublayouts                                                       *)
(***************************************************************************)

\* Its keyid is one of the dict's, and its file one that an authorized functionary signed.
LEMMA EntryFacts ==
  ASSUME NEW f, NEW ret, NEW lg, Sound(f, ret, lg), NEW st, NEW k, Entry(f, st, k)
  PROVE  /\ st \in Elements(f.layout.steps) /\ st.name \in NamesOf(f.layout)
         /\ Listed(f.steps_metadata[st.name])
         /\ k \in KeysOf(f.steps_metadata[st.name]) /\ k \in Keyids
         /\ f.steps_metadata[st.name].at[k] \in Doc
         /\ \E m \in AuthorizedMains(f.layout, st) :
              Signed(f.layout, m, f.steps_metadata[st.name].at[k])
         /\ f.pc = "sublayouts" /\ f.pc \in LinksChecked /\ f.pc \in Loaded
<1> DEFINE dict == f.steps_metadata[st.name]
<1>1. f.pc = "sublayouts" /\ f.pc \in LinksChecked /\ f.pc \in Loaded
  BY DEF Entry, LinksChecked, Loaded, Unexpired, Phases
<1>2. st \in Elements(f.layout.steps) /\ st.name \in NamesOf(f.layout)
  BY DEF Entry, Elements, NamesOf
<1>3. Listed(dict) /\ \A x \in KeysOf(dict) : dict.at[x] \in Doc
  BY <1>1, <1>2 DEF Sound, Filed
<1>4. k \in KeysOf(dict) /\ k \in Keyids
  BY <1>3, ListedCount DEF Entry, Listed, Elements
<1>5. \E m \in AuthorizedMains(f.layout, st) : Signed(f.layout, m, dict.at[k])
  BY <1>1, <1>2, <1>4 DEF Sound, Authorized
<1> QED BY <1>1, <1>2, <1>3, <1>4, <1>5

\* The code is at the entry that its loops say.
LEMMA AtEntryFacts ==
  ASSUME IInv, AtEntry
  PROVE  /\ Entry(Top, ThisStep, ThisKeyid) /\ status = "working"
         /\ ThisDoc = Top.steps_metadata[ThisStep.name].at[ThisKeyid]
<1>1. /\ status = "working" /\ Top.pc = "sublayouts" /\ Top.step <= Len(Top.layout.steps)
      /\ Top.key <= Len(ThisDict.order)
  BY DEF AtEntry, At
<1>2. Top.pc \in LinksChecked /\ Top.pc \in Loaded
  BY <1>1 DEF LinksChecked, Loaded, Unexpired, Phases
<1>3. Top.step \in Nat \ {0} /\ Top.key \in Nat \ {0}
  BY <1>2, TopFacts DEF Chained
<1>4. Top.step \in DOMAIN Top.layout.steps
  <2>1. Len(Top.layout.steps) \in Nat /\ DOMAIN Top.layout.steps = 1 .. Len(Top.layout.steps)
    BY TopFacts, LayoutFacts
  <2> QED BY <1>1, <1>3, <2>1
<1>5. ThisDict.order \in Seq(Keyids)
  BY <1>2, <1>4, TopFacts DEF Filed, Listed, NamesOf, ThisDict, ThisStep
<1>6. Len(ThisDict.order) \in Nat /\ DOMAIN ThisDict.order = 1 .. Len(ThisDict.order)
  BY <1>5, LenProperties
<1>7. Top.key \in DOMAIN ThisDict.order
  BY <1>1, <1>3, <1>6
<1> QED BY <1>1, <1>4, <1>7 DEF Entry, ThisDoc, ThisKeyid, ThisDict, ThisStep

LEMMA Arithmetic ==
  /\ \A x \in Nat : x + 1 \in Nat \ {0}
  /\ \A x, y \in Nat : ~ (x < y) /\ x < y + 1 => x = y
  /\ \A s \in Seq(Keyids) : \A i \in DOMAIN s : i \in Nat \ {0} /\ i \in Nat /\ i <= Len(s)
  /\ \A s \in Seq(Keyids) : Len(s) \in Nat
BY LenProperties

\* Whether a file vouches for a link is a matter of the files and their directory.
LEMMA VouchesSame ==
  ASSUME NEW f, NEW g, g.steps_metadata = f.steps_metadata, g.link_dir_path = f.link_dir_path,
         NEW ret, NEW st, NEW k, NEW payload, VouchesIn(ret, f, st, k, payload)
  PROVE  VouchesIn(ret, g, st, k, payload)
<1>1. \A sub : Delivers(sub, f, st, k, payload) => Delivers(sub, g, st, k, payload)
  BY DEF Delivers
<1> QED BY <1>1 DEF VouchesIn

\* A link for the entry at hand joins the chain.
LEMMA WithEntrySound ==
  ASSUME NEW f, NEW ret, NEW lg, Sound(f, ret, lg), NEW st, NEW k, Entry(f, st, k),
         NEW payload, ~IsLayout(payload), VouchesIn(ret, f, st, k, payload)
  PROVE  LET g == WithEntry(f, st.name, k, payload)
         IN  Sound(g, ret, lg) /\ SameCall(g, f) /\ g.pc = "sublayouts"
<1> DEFINE n == st.name
           dict == f.steps_metadata[n]
           g == WithEntry(f, n, k, payload)
<1>1. /\ st \in Elements(f.layout.steps) /\ n \in NamesOf(f.layout)
      /\ Listed(dict) /\ k \in KeysOf(dict) /\ k \in Keyids
      /\ f.pc \in LinksChecked /\ f.pc \in Loaded
  BY EntryFacts
<1>2. /\ f.step \in Nat \ {0} /\ f.key \in Nat \ {0} /\ DOMAIN f.chain = NamesOf(f.layout)
      /\ DOMAIN f = Fields
  BY <1>1 DEF Sound, Chained, Typed
<1>3. /\ DOMAIN g = Fields /\ g.pc = f.pc /\ SameCall(g, f)
      /\ g.metadata = f.metadata /\ g.layout = f.layout
      /\ g.substitution_parameters = f.substitution_parameters
      /\ g.link_dir_path = f.link_dir_path /\ g.steps_metadata = f.steps_metadata
      /\ g.inspection = f.inspection /\ g.inspection_links = f.inspection_links
      /\ g.step = f.step /\ g.key = f.key + 1
      /\ g.chain = [f.chain EXCEPT ![n] = Put(f.chain[n], k, payload)]
  BY <1>2 DEF WithEntry, Fields, SameCall
<1> HIDE DEF g
<1>4. f.pc = "sublayouts" /\ g.pc = "sublayouts"
  BY <1>3 DEF Entry
<1>5. /\ Listed(g.chain[n])
      /\ KeysOf(g.chain[n]) = KeysOf(f.chain[n]) \cup {k}
      /\ g.chain[n].at[k] = payload
      /\ \A x \in KeysOf(f.chain[n]) \ {k} : g.chain[n].at[x] = f.chain[n].at[x]
  <2>1. Listed(f.chain[n]) /\ g.chain[n] = Put(f.chain[n], k, payload)
    BY <1>1, <1>2, <1>3 DEF Sound, Chained
  <2>2. /\ Listed(Put(f.chain[n], k, payload))
        /\ KeysOf(Put(f.chain[n], k, payload)) = KeysOf(f.chain[n]) \cup {k}
        /\ Put(f.chain[n], k, payload).at[k] = payload
        /\ \A x \in KeysOf(f.chain[n]) \ {k} :
             Put(f.chain[n], k, payload).at[x] = f.chain[n].at[x]
    BY <1>1, <2>1, PutListed
  <2> QED BY <2>1, <2>2
<1>6. DOMAIN g.chain = NamesOf(f.layout)
      /\ \A x \in NamesOf(f.layout) : x # n => g.chain[x] = f.chain[x]
  BY <1>2, <1>3
<1>7. Typed(g)
  BY <1>1, <1>3, <1>4 DEF Sound, Typed
<1>8. Filed(g) /\ Authorized(g)
  <2>1. Filed(f) /\ Authorized(f)
    BY DEF Sound
  <2>2. \A other : Signers(g, other) = Signers(f, other)
    BY <1>3 DEF Signers
  <2> QED BY <1>3, <2>1, <2>2 DEF Filed, Authorized
<1>9. Chained(g)
  <2>1. g.key \in Nat \ {0}
    <3>1. g.key = f.key + 1 /\ f.key \in Nat
      BY <1>2, <1>3
    <3> QED BY <3>1, Arithmetic, Zenon
  <2>2. \A x \in NamesOf(f.layout) :
           /\ Listed(g.chain[x])
           /\ KeysOf(g.chain[x]) \subseteq KeysOf(f.steps_metadata[x])
           /\ KeysOf(f.chain[x]) \subseteq KeysOf(g.chain[x])
           /\ \A y \in KeysOf(g.chain[x]) : ~IsLayout(g.chain[x].at[y])
    <3> TAKE x \in NamesOf(f.layout)
    <3>1. /\ Listed(f.chain[x]) /\ KeysOf(f.chain[x]) \subseteq KeysOf(f.steps_metadata[x])
          /\ \A y \in KeysOf(f.chain[x]) : ~IsLayout(f.chain[x].at[y])
      BY <1>1 DEF Sound, Chained
    <3>2. CASE x = n
      BY <1>1, <1>5, <3>1, <3>2
    <3>3. CASE x # n
      BY <1>6, <3>1, <3>3
    <3> QED BY <3>2, <3>3
  <2>3. ASSUME NEW i \in DOMAIN f.layout.steps,
               NEW j \in DOMAIN f.steps_metadata[f.layout.steps[i].name].order,
               Visited(g, i, j)
        PROVE  f.steps_metadata[f.layout.steps[i].name].order[j]
                 \in KeysOf(g.chain[f.layout.steps[i].name])
    <3>1. f.layout.steps[i].name \in NamesOf(f.layout)
      BY DEF NamesOf
    <3>2. CASE Visited(f, i, j)
      <4>1. f.steps_metadata[f.layout.steps[i].name].order[j]
              \in KeysOf(f.chain[f.layout.steps[i].name])
        BY <1>1, <3>2 DEF Sound, Chained
      <4> QED BY <2>2, <3>1, <4>1
    <3>3. CASE ~Visited(f, i, j)
      <4> DEFINE s == f.steps_metadata[f.layout.steps[i].name].order
      <4>1. s \in Seq(Keyids)
        BY <1>1, <3>1 DEF Sound, Filed, Listed
      <4>2. j \in Nat
        BY <4>1, Arithmetic, Zenon
      <4>3. f.key \in Nat /\ g.key = f.key + 1 /\ g.step = f.step
        BY <1>2, <1>3
      <4>4. i = f.step /\ ~ (j < f.key) /\ j < f.key + 1
        BY <1>4, <2>3, <3>3, <4>3 DEF Visited
      <4>5. i = f.step /\ j = f.key
        BY <4>2, <4>3, <4>4, Arithmetic, Zenon
      <4>6. f.layout.steps[i] = st /\ s[j] = k
        BY <4>5 DEF Entry
      <4> QED BY <1>5, <4>6
    <3> QED BY <3>2, <3>3
  <2> QED BY <1>2, <1>3, <1>6, <2>1, <2>2, <2>3 DEF Chained
<1>10. Agreed(g) /\ FirstOnes(g) /\ RulesHeld(g)
  BY <1>4 DEF Agreed, FirstOnes, RulesHeld, Reduced, Compared, RulesChecked
<1>11. Vouched(g, ret)
  <2> SUFFICES ASSUME NEW other \in Elements(f.layout.steps), NEW x \in KeysOf(g.chain[other.name])
               PROVE  VouchesIn(ret, g, other, x, g.chain[other.name].at[x])
    BY <1>3 DEF Vouched
  <2>1. Valid(f.layout)
    BY DEF Sound, Typed
  <2>2. other.name \in NamesOf(f.layout) /\ (other.name = n => other = st)
    <3>1. other.name \in NamesOf(f.layout) /\ StepNamed(f.layout, other.name) = other
      BY <2>1, LayoutFacts
    <3>2. StepNamed(f.layout, n) = st
      BY <1>1, <2>1, LayoutFacts
    <3> QED BY <3>1, <3>2
  <2>3. CASE other = st /\ x = k
    <3>1. VouchesIn(ret, f, st, k, payload)
      OBVIOUS
    <3>2. g.chain[other.name].at[x] = payload
      BY <1>5, <2>3
    <3>3. VouchesIn(ret, g, st, k, payload)
      BY <1>3, <3>1, VouchesSame, Zenon
    <3> QED BY <2>3, <3>2, <3>3, Zenon
  <2>4. CASE ~ (other = st /\ x = k)
    <3>1. /\ x \in KeysOf(f.chain[other.name])
          /\ g.chain[other.name].at[x] = f.chain[other.name].at[x]
      BY <1>5, <1>6, <2>2, <2>4
    <3>2. VouchesIn(ret, f, other, x, f.chain[other.name].at[x])
      BY <1>1, <3>1 DEF Sound, Vouched
    <3> QED BY <1>3, <3>1, <3>2, VouchesSame
  <2> QED BY <2>3, <2>4
<1>12. Inspected(g, lg)
  <2>1. \A m, artifacts : StartedOn(f, lg, m, artifacts) => StartedOn(g, lg, m, artifacts)
    BY <1>3 DEF StartedOn
  <2>2. Inspected(f, lg)
    BY DEF Sound
  <2> QED BY <1>3, <1>4, <2>1, <2>2 DEF Inspected
<1>13. Sound(g, ret, lg) /\ SameCall(g, f) /\ g.pc = "sublayouts"
  BY <1>3, <1>4, <1>7, <1>8, <1>9, <1>10, <1>11, <1>12 DEF Sound
<1> QED BY <1>13 DEF g

LEMMA TakeLinkStep == ASSUME IInv, TakeLink PROVE IInv'
<1> DEFINE f == WithEntry(Top, ThisStep.name, ThisKeyid, ThisDoc.payload)
<1>1. AtEntry /\ ~IsLayout(ThisDoc.payload) /\ Proceed(f) /\ OnStack
  BY DEF TakeLink
<1>2. /\ Entry(Top, ThisStep, ThisKeyid) /\ status = "working"
      /\ ThisDoc = Top.steps_metadata[ThisStep.name].at[ThisKeyid]
  BY <1>1, AtEntryFacts
<1>3. Sound(Top, returned, log)
  BY StackFacts DEF IInv
<1>4. VouchesIn(returned, Top, ThisStep, ThisKeyid, ThisDoc.payload)
  BY <1>2 DEF VouchesIn
<1> HIDE DEF f
<1>5. Sound(f, returned, log) /\ SameCall(f, Top) /\ f.pc = "sublayouts"
  <2> DEFINE st == ThisStep
             k == ThisKeyid
             payload == ThisDoc.payload
  <2>1. f = WithEntry(Top, st.name, k, payload)
    BY DEF f
  <2>2. /\ Entry(Top, st, k) /\ ~IsLayout(payload)
        /\ VouchesIn(returned, Top, st, k, payload)
    BY <1>1, <1>2, <1>4
  <2> HIDE DEF st, k, payload
  <2> QED BY <1>3, <2>1, <2>2, WithEntrySound
<1>6. Top.pc = "sublayouts"
  BY <1>2 DEF Entry
<1>7. Len(stack) = 1 => Rooted(f, call)
  BY <1>5, <1>6, RootedStays DEF IInv
<1> QED BY <1>1, <1>2, <1>5, <1>6, <1>7, ProceedStep

LEMMA EnterSublayoutStep == ASSUME IInv, EnterSublayout PROVE IInv'
<1> DEFINE g == Frame(ThisDoc, SublayoutKeys(Top.layout, ThisKeyid),
                      Append(Top.link_dir_path, <<ThisStep.name, Short[ThisKeyid]>>),
                      ThisStep.name, NoParams, TRUE)
           n == Len(stack)
<1>1. /\ AtEntry /\ IsLayout(ThisDoc.payload) /\ stack' = Append(stack, g)
      /\ UNCHANGED <<call, now, cwd, base_path, status, log, returned>>
  BY DEF EnterSublayout, OnStack, world, history
<1>2. /\ Entry(Top, ThisStep, ThisKeyid) /\ status = "working"
      /\ ThisDoc = Top.steps_metadata[ThisStep.name].at[ThisKeyid]
  BY <1>1, AtEntryFacts
<1>3. Sound(Top, returned, log)
  BY StackFacts DEF IInv
<1>4. /\ ThisStep \in Elements(Top.layout.steps) /\ ThisKeyid \in Keyids /\ ThisDoc \in Doc
      /\ Top.pc = "sublayouts"
  BY <1>2, <1>3, EntryFacts
<1>5. Sound(g, returned, log) /\ g.pc = "layout signatures"
  <2>1. NoParams \in {NoParams} \cup DOMAIN Format
    OBVIOUS
  <2> QED BY <1>1, <1>4, <2>1, EnteredSound, Zenon
<1>6. Delegated(Top, g)
  <2>1. /\ g.metadata = ThisDoc /\ g.step_name = ThisStep.name
        /\ g.link_dir_path = Append(Top.link_dir_path, <<ThisStep.name, Short[ThisKeyid]>>)
    BY DEF Frame
  <2> HIDE DEF g
  <2> QED BY <1>2, <1>4, <2>1 DEF Delegated
<1> HIDE DEF g
<1>7. /\ stack' \in Seq(Elements(stack')) /\ n \in Nat /\ n # 0 /\ Len(stack') = n + 1
      /\ DOMAIN stack = 1 .. n /\ DOMAIN stack' = 1 .. n + 1
      /\ \A i \in 1 .. n : stack'[i] = stack[i]
      /\ stack'[n + 1] = g /\ stack[n] = Top
  <2>1. stack \in Seq(Elements(stack)) /\ n \in Nat /\ n # 0
    BY StackFacts DEF IInv, Frames
  <2> QED BY <1>1, <2>1, AppendKeeps DEF Top
<1> HIDE DEF n
<1>8. Frames'
  <2>1. stack' # << >>
    BY <1>7, EmptySeq
  <2>2. \A i \in 1 .. n + 1 : Sound(stack'[i], returned', log')
    <3> TAKE i \in 1 .. n + 1
    <3>1. CASE i = n + 1
      BY <1>1, <1>5, <1>7, <3>1
    <3>2. CASE i # n + 1
      <4>1. i \in 1 .. n
        BY <1>7, <3>2
      <4> QED BY <1>1, <1>7, <4>1 DEF IInv, Frames
    <3> QED BY <3>1, <3>2
  <2>3. \A i \in 1 .. n + 1 : i < n + 1 => Delegated(stack'[i], stack'[i + 1])
    <3> SUFFICES ASSUME NEW i \in 1 .. n + 1, i < n + 1
                 PROVE  Delegated(stack'[i], stack'[i + 1])
      OBVIOUS
    <3>1. i \in 1 .. n /\ stack'[i] = stack[i]
      BY <1>7
    <3>2. CASE i = n
      BY <1>6, <1>7, <3>1, <3>2
    <3>3. CASE i # n
      <4>0. i < n /\ i + 1 \in 1 .. n
        BY <1>7, <3>1, <3>3
      <4>1. i < Len(stack) /\ i + 1 \in 1 .. n /\ i \in DOMAIN stack
        BY <1>7, <3>1, <4>0, Zenon DEF n
      <4>2. Delegated(stack[i], stack[i + 1])
        BY <4>1 DEF IInv, Frames
      <4> QED BY <1>7, <3>1, <4>1, <4>2
    <3> QED BY <3>2, <3>3
  <2>4. Rooted(stack'[1], call')
    <3>1. 1 \in 1 .. n
      BY <1>7
    <3>2. stack'[1] = stack[1] /\ call' = call
      BY <1>1, <1>7, <3>1
    <3> QED BY <3>2 DEF IInv, Frames
  <2> QED BY <1>7, <2>1, <2>2, <2>3, <2>4 DEF Frames
<1>9. BasePath'
  <2>1. Top' = g
    BY <1>7 DEF Top
  <2>2. base_path = call.base_path /\ status = "working"
    BY <1>2, <1>4 DEF IInv, BasePath
  <2> QED BY <1>1, <1>5, <2>1, <2>2 DEF BasePath
<1>10. Past'
  BY <1>1, PastSame DEF IInv
<1> QED BY <1>1, <1>8, <1>9, <1>10 DEF IInv

\* f is g further on: it has the same links.
Further(f, g) ==
  /\ DOMAIN f = Fields /\ SameCall(f, g) /\ f.layout = g.layout
  /\ f.substitution_parameters = g.substitution_parameters
  /\ f.steps_metadata = g.steps_metadata /\ f.chain = g.chain

\* What is known of the links holds while the entries dealt with stay so.
LEMMA LinksStay ==
  ASSUME NEW f, NEW g, NEW ret, NEW lg, Sound(g, ret, lg), Further(f, g),
         g.pc \in LinksChecked, f.pc \in LinksChecked,
         f.step \in Nat \ {0}, f.key \in Nat \ {0}, f.inspection \in Nat \ {0},
         \A i \in DOMAIN g.layout.steps :
           \A j \in DOMAIN g.steps_metadata[g.layout.steps[i].name].order :
             Visited(f, i, j) => Visited(g, i, j)
  PROVE  Typed(f) /\ Filed(f) /\ Authorized(f) /\ Chained(f) /\ Vouched(f, ret)
<1>1. /\ f.metadata = g.metadata /\ f.link_dir_path = g.link_dir_path
      /\ f.layout = g.layout /\ f.steps_metadata = g.steps_metadata /\ f.chain = g.chain
      /\ f.substitution_parameters = g.substitution_parameters /\ DOMAIN f = Fields
  BY DEF Further, SameCall
<1>2. /\ f.pc \in Phases /\ f.pc \in Unexpired /\ g.pc \in Unexpired
      /\ f.pc \in Loaded /\ g.pc \in Loaded
      /\ f.pc \notin {"layout signatures", "expiration"}
  BY DEF LinksChecked, Loaded, Unexpired
<1>3. Typed(f)
  BY <1>1, <1>2 DEF Sound, Typed
<1>4. Filed(f)
  BY <1>1, <1>2 DEF Sound, Filed
<1>5. Authorized(f)
  <2>1. \A st : Signers(f, st) = Signers(g, st)
    BY <1>1 DEF Signers
  <2> QED BY <1>1, <2>1 DEF Sound, Authorized
<1>6. Chained(f)
  BY <1>1 DEF Sound, Chained
<1>7. Vouched(f, ret)
  <2> SUFFICES ASSUME NEW st \in Elements(g.layout.steps), NEW k \in KeysOf(g.chain[st.name])
               PROVE  VouchesIn(ret, f, st, k, g.chain[st.name].at[k])
    BY <1>1 DEF Vouched
  <2>1. VouchesIn(ret, g, st, k, g.chain[st.name].at[k])
    BY DEF Sound, Vouched
  <2> QED BY <1>1, <2>1, VouchesSame
<1> QED BY <1>3, <1>4, <1>5, <1>6, <1>7

LEMMA NextStepStep == ASSUME IInv, NextStep PROVE IInv'
<1> DEFINE g == Top
           f == [g EXCEPT !.step = @ + 1, !.key = 1]
<1>1. /\ status = "working" /\ g.pc = "sublayouts" /\ Proceed(f) /\ OnStack
      /\ g.step <= Len(g.layout.steps) /\ g.key > Len(ThisDict.order)
  BY DEF NextStep, At
<1>2. /\ g.pc \in LinksChecked /\ g.pc \in Loaded
  BY <1>1 DEF LinksChecked, Loaded, Unexpired, Phases
<1>3. /\ Sound(g, returned, log) /\ DOMAIN g = Fields
      /\ g.step \in Nat \ {0} /\ g.key \in Nat \ {0} /\ g.inspection \in Nat \ {0}
  BY <1>2, StackFacts, TopFacts DEF IInv, Typed, Chained
<1>4. /\ Further(f, g) /\ SameCall(f, g) /\ f.pc = "sublayouts"
      /\ f.step = g.step + 1 /\ f.key = 1
      /\ f.inspection = g.inspection /\ f.inspection_links = g.inspection_links
      /\ f.link_dir_path = g.link_dir_path
  BY <1>1, <1>3 DEF Further, Fields, SameCall
<1> HIDE DEF f
<1>5. f.step \in Nat \ {0} /\ f.key \in Nat \ {0}
  <2>1. g.step \in Nat /\ f.step = g.step + 1
    BY <1>3, <1>4
  <2>2. 1 \in Nat \ {0}
    OBVIOUS
  <2> QED BY <1>4, <2>1, <2>2, Arithmetic, Zenon
<1>6. ASSUME NEW i \in DOMAIN g.layout.steps,
             NEW j \in DOMAIN g.steps_metadata[g.layout.steps[i].name].order,
             Visited(f, i, j)
      PROVE  Visited(g, i, j)
  <2> DEFINE s == g.steps_metadata[g.layout.steps[i].name].order
  <2>1. s \in Seq(Keyids)
    BY <1>2, <1>3 DEF Sound, Filed, Listed, NamesOf
  <2>2. j \in Nat \ {0} /\ j <= Len(s) /\ Len(s) \in Nat
    BY <2>1, Arithmetic, Zenon
  <2>3. i \in Nat
    BY TopFacts, LayoutFacts
  <2>4. i < g.step + 1 \/ (i = g.step + 1 /\ j < 1)
    <3>1. i < f.step \/ (i = f.step /\ j < f.key)
      BY <1>4, <1>6, Zenon DEF Visited
    <3> QED BY <1>4, <3>1, Zenon
  <2>5. i = g.step => s = ThisDict.order
    BY DEF ThisDict, ThisStep
  <2>6. g.key > Len(ThisDict.order) /\ g.key \in Nat /\ g.step \in Nat
    BY <1>1, <1>3
  <2> HIDE DEF s, g
  <2>7. i < g.step \/ (i = g.step /\ j < g.key)
    BY <2>2, <2>3, <2>4, <2>5, <2>6
  <2> QED BY <2>7 DEF Visited
<1>7. Typed(f) /\ Filed(f) /\ Authorized(f) /\ Chained(f) /\ Vouched(f, returned)
  <2>1. f.pc \in LinksChecked /\ f.inspection \in Nat \ {0}
    BY <1>1, <1>2, <1>3, <1>4
  <2> HIDE DEF g
  <2> QED BY <1>2, <1>3, <1>4, <1>5, <1>6, <2>1, LinksStay
<1>8. Inspected(f, log)
  BY <1>4, InspectedStays
<1>9. Sound(f, returned, log)
  BY <1>4, <1>7, <1>8
     DEF Sound, Agreed, FirstOnes, RulesHeld, Reduced, Compared, RulesChecked
<1>10. Len(stack) = 1 => Rooted(f, call)
  BY <1>1, <1>4, RootedStays DEF IInv
<1> QED BY <1>1, <1>4, <1>9, <1>10, ProceedStep

\* A phase after verify_sublayouts begins.
LEMMA PhaseStep ==
  ASSUME IInv, status = "working", NEW f, Proceed(f), OnStack, Further(f, Top),
         Top.pc \in LinksChecked \ {"command"},
         f.pc \in LinksChecked \ {"command", "sublayouts"},
         f.step = Top.step, f.key = Top.key,
         f.inspection = Top.inspection, f.inspection_links = Top.inspection_links,
         \A i \in DOMAIN Top.layout.steps :
           \A j \in DOMAIN Top.steps_metadata[Top.layout.steps[i].name].order :
             Visited(Top, i, j),
         Agreed(f), FirstOnes(f), RulesHeld(f)
  PROVE  IInv'
<1>1. /\ Sound(Top, returned, log)
      /\ Top.step \in Nat \ {0} /\ Top.key \in Nat \ {0} /\ Top.inspection \in Nat \ {0}
  BY StackFacts, TopFacts DEF IInv, Typed, Chained
<1>2. SameCall(f, Top) /\ f.link_dir_path = Top.link_dir_path
  BY DEF Further, SameCall
<1>3. /\ f.step \in Nat \ {0} /\ f.key \in Nat \ {0} /\ f.inspection \in Nat \ {0}
      /\ f.pc \in LinksChecked /\ f.pc # "command" /\ Top.pc \in LinksChecked
      /\ Top.pc # "command" /\ Top.pc # "layout signatures"
  BY <1>1, Zenon DEF LinksChecked, Loaded, Unexpired
<1>4. Typed(f) /\ Filed(f) /\ Authorized(f) /\ Chained(f) /\ Vouched(f, returned)
  BY <1>1, <1>3, LinksStay
<1>5. Inspected(f, log)
  BY <1>2, <1>3, InspectedStays
<1>6. Sound(f, returned, log)
  BY <1>4, <1>5 DEF Sound
<1>7. Len(stack) = 1 => Rooted(f, call)
  BY <1>2, <1>3, RootedStays DEF IInv
<1> QED BY <1>2, <1>3, <1>6, <1>7, ProceedStep

LEMMA SublayoutsEndStep == ASSUME IInv, SublayoutsEnd PROVE IInv'
<1> DEFINE f == [Top EXCEPT !.pc = "constraints"]
<1>1. /\ status = "working" /\ Top.pc = "sublayouts" /\ Proceed(f) /\ OnStack
      /\ Top.step > Len(Top.layout.steps)
  BY DEF SublayoutsEnd, At
<1>2. /\ Further(f, Top) /\ f.pc = "constraints" /\ f.step = Top.step /\ f.key = Top.key
      /\ f.inspection = Top.inspection /\ f.inspection_links = Top.inspection_links
  BY TopFacts DEF Further, Fields, SameCall
<1> HIDE DEF f
<1>3. Top.pc \in LinksChecked \ {"command"} /\ f.pc \in LinksChecked \ {"command", "sublayouts"}
  BY <1>1, <1>2 DEF LinksChecked, Loaded, Unexpired, Phases
<1>4. ASSUME NEW i \in DOMAIN Top.layout.steps, NEW j
      PROVE  Visited(Top, i, j)
  <2>1. /\ Len(Top.layout.steps) \in Nat /\ i \in 1 .. Len(Top.layout.steps)
        /\ Top.step \in Nat
    BY <1>3, TopFacts, LayoutFacts DEF Chained
  <2>2. i < Top.step
    BY <1>1, <2>1
  <2> QED BY <2>2 DEF Visited
<1>5. Agreed(f) /\ FirstOnes(f) /\ RulesHeld(f)
  BY <1>2 DEF Agreed, FirstOnes, RulesHeld, Reduced, Compared, RulesChecked
<1> QED BY <1>1, <1>2, <1>3, <1>4, <1>5, PhaseStep

LEMMA VerifyConstraintsStep == ASSUME IInv, VerifyConstraints PROVE IInv'
<1> DEFINE f == [Top EXCEPT !.pc = "reduce"]
           fails(st) == /\ st.threshold > 1
                        /\ \/ Cardinality(KeysOf(Top.chain[st.name])) < st.threshold
                           \/ Disagree(Top.chain[st.name])
<1>1. /\ status = "working" /\ Top.pc = "constraints" /\ OnStack
      /\ \/ Raise("ThresholdVerificationError")
         \/ ~ (\E st \in Elements(Top.layout.steps) : fails(st)) /\ Proceed(f)
  BY DEF VerifyConstraints, At
<1>2. CASE Raise("ThresholdVerificationError")
  BY <1>1, <1>2, RaiseStep DEF Errors
<1>3. CASE ~ (\E st \in Elements(Top.layout.steps) : fails(st)) /\ Proceed(f)
  <2>1. /\ Further(f, Top) /\ f.pc = "reduce" /\ f.step = Top.step /\ f.key = Top.key
        /\ f.inspection = Top.inspection /\ f.inspection_links = Top.inspection_links
        /\ f.layout = Top.layout /\ f.chain = Top.chain
    BY TopFacts DEF Further, Fields, SameCall
  <2> HIDE DEF f
  <2>2. /\ Top.pc \in LinksChecked \ {"command"}
        /\ f.pc \in LinksChecked \ {"command", "sublayouts"}
    BY <1>1, <2>1 DEF LinksChecked, Loaded, Unexpired, Phases
  <2>3. \A i, j : Visited(Top, i, j)
    BY <1>1 DEF Visited
  <2>4. Agreed(f)
    BY <1>3, <2>1 DEF Agreed
  <2>5. FirstOnes(f) /\ RulesHeld(f)
    BY <2>1 DEF FirstOnes, RulesHeld, Reduced, RulesChecked
  <2> QED BY <1>1, <1>3, <2>1, <2>2, <2>3, <2>4, <2>5, PhaseStep
<1> QED BY <1>1, <1>2, <1>3

LEMMA ReduceStep == ASSUME IInv, Reduce PROVE IInv'
<1> DEFINE first == [n \in DOMAIN Top.chain |-> FirstValue(Top.chain[n])]
           f == [Top EXCEPT !.pc = "step rules", !.reduced = first]
           empty == \E n \in DOMAIN Top.chain : KeysOf(Top.chain[n]) = {}
<1>1. /\ status = "working" /\ Top.pc = "reduce" /\ OnStack
      /\ \/ Raise("IndexError")
         \/ ~ empty /\ Proceed(f)
  BY DEF Reduce, At
<1>2. CASE Raise("IndexError")
  BY <1>1, <1>2, RaiseStep DEF Errors
<1>3. CASE ~ empty /\ Proceed(f)
  <2>1. /\ Further(f, Top) /\ f.pc = "step rules" /\ f.step = Top.step /\ f.key = Top.key
        /\ f.inspection = Top.inspection /\ f.inspection_links = Top.inspection_links
        /\ f.layout = Top.layout /\ f.chain = Top.chain /\ f.reduced = first
    BY TopFacts DEF Further, Fields, SameCall
  <2> HIDE DEF f
  <2>2. /\ Top.pc \in LinksChecked \ {"command"} /\ Top.pc \in Compared
        /\ f.pc \in LinksChecked \ {"command", "sublayouts"}
    BY <1>1, <2>1 DEF Compared, LinksChecked, Loaded, Unexpired, Phases
  <2>3. \A i, j : Visited(Top, i, j)
    BY <1>1 DEF Visited
  <2>4. DOMAIN Top.chain = NamesOf(Top.layout)
    BY <2>2, TopFacts DEF Chained
  <2>5. Agreed(f)
    BY <2>1, <2>2, TopFacts DEF Agreed
  <2>6. FirstOnes(f)
    BY <1>3, <2>1, <2>4 DEF FirstOnes
  <2>7. RulesHeld(f)
    BY <2>1 DEF RulesHeld, RulesChecked
  <2> QED BY <1>1, <1>3, <2>1, <2>2, <2>3, <2>5, <2>6, <2>7, PhaseStep
<1> QED BY <1>1, <1>2, <1>3

LEMMA VerifyStepRulesStep == ASSUME IInv, VerifyStepRules PROVE IInv'
<1> DEFINE f == [Top EXCEPT !.pc = "inspections"]
<1>1. /\ status = "working" /\ Top.pc = "step rules" /\ OnStack
      /\ \/ Raise("RuleVerificationError")
         \/ /\ \A st \in Elements(Top.layout.steps) : ItemHolds(st, Top.reduced)
            /\ Proceed(f)
  BY DEF VerifyStepRules, At
<1>2. CASE Raise("RuleVerificationError")
  BY <1>1, <1>2, RaiseStep DEF Errors
<1>3. CASE /\ \A st \in Elements(Top.layout.steps) : ItemHolds(st, Top.reduced)
           /\ Proceed(f)
  <2>1. /\ Further(f, Top) /\ f.pc = "inspections" /\ f.step = Top.step /\ f.key = Top.key
        /\ f.inspection = Top.inspection /\ f.inspection_links = Top.inspection_links
        /\ f.layout = Top.layout /\ f.chain = Top.chain /\ f.reduced = Top.reduced
    BY TopFacts DEF Further, Fields, SameCall
  <2> HIDE DEF f
  <2>2. /\ Top.pc \in LinksChecked \ {"command"} /\ Top.pc \in Compared /\ Reduced(Top)
        /\ f.pc \in LinksChecked \ {"command", "sublayouts"}
    BY <1>1, <2>1 DEF Compared, LinksChecked, Loaded, Unexpired, Phases, Reduced
  <2>3. \A i, j : Visited(Top, i, j)
    BY <1>1 DEF Visited
  <2>4. Agreed(f) /\ FirstOnes(f)
    BY <2>1, <2>2, TopFacts DEF Agreed, FirstOnes
  <2>5. RulesHeld(f)
    BY <1>3, <2>1 DEF RulesHeld
  <2> QED BY <1>1, <1>3, <2>1, <2>2, <2>3, <2>4, <2>5, PhaseStep
<1> QED BY <1>1, <1>2, <1>3

LEMMA VerifyInspectionRulesStep == ASSUME IInv, VerifyInspectionRules PROVE IInv'
<1> DEFINE f == [Top EXCEPT !.pc = "return"]
<1>1. /\ status = "working" /\ Top.pc = "inspections" /\ OnStack
      /\ Raise("RuleVerificationError") \/ Proceed(f)
  BY DEF VerifyInspectionRules, At
<1>2. CASE Raise("RuleVerificationError")
  BY <1>1, <1>2, RaiseStep DEF Errors
<1>3. CASE Proceed(f)
  <2>1. /\ Further(f, Top) /\ f.pc = "return" /\ f.step = Top.step /\ f.key = Top.key
        /\ f.inspection = Top.inspection /\ f.inspection_links = Top.inspection_links
        /\ f.layout = Top.layout /\ f.chain = Top.chain /\ f.reduced = Top.reduced
    BY TopFacts DEF Further, Fields, SameCall
  <2> HIDE DEF f
  <2>2. /\ Top.pc \in LinksChecked \ {"command"} /\ Top.pc \in Compared /\ Reduced(Top)
        /\ Top.pc \in RulesChecked
        /\ f.pc \in LinksChecked \ {"command", "sublayouts"}
    BY <1>1, <2>1 DEF RulesChecked, Compared, LinksChecked, Loaded, Unexpired, Phases, Reduced
  <2>3. \A i, j : Visited(Top, i, j)
    BY <1>1 DEF Visited
  <2>4. Agreed(f) /\ FirstOnes(f) /\ RulesHeld(f)
    BY <2>1, <2>2, TopFacts DEF Agreed, FirstOnes, RulesHeld
  <2> QED BY <1>1, <1>3, <2>1, <2>2, <2>3, <2>4, PhaseStep
<1> QED BY <1>1, <1>2, <1>3

(***************************************************************************)
(* Inspections                                                             *)
(***************************************************************************)

\* The frames below the innermost one are in verify_sublayouts.
LEMMA WaitingFacts ==
  ASSUME Frames, NEW i \in DOMAIN stack, i < Len(stack)
  PROVE  stack[i].pc = "sublayouts"
BY DEF Frames, Delegated, Entry

\* Past the check of expiration, the frames are a chain of trust.
LEMMA StackTrusted ==
  ASSUME IInv, Top.pc \in Unexpired
  PROVE  Trusted(stack)
<1>1. /\ Frames /\ Len(stack) \in Nat \ {0} /\ DOMAIN stack = 1 .. Len(stack)
      /\ 1 \in DOMAIN stack
  BY StackFacts DEF IInv
<1>2. \A i \in DOMAIN stack : stack[i].pc \in Unexpired
  <2> TAKE i \in DOMAIN stack
  <2>1. CASE i = Len(stack)
    BY <2>1 DEF Top
  <2>2. CASE i # Len(stack)
    <3>1. i < Len(stack)
      BY <1>1, <2>2
    <3>2. stack[i].pc = "sublayouts"
      BY <1>1, <3>1, WaitingFacts
    <3> QED BY <3>2 DEF Unexpired, Phases
  <2> QED BY <2>1, <2>2
<1>3. /\ DOMAIN call.keys # {}
      /\ \A key \in UNION {call.keys[k] : k \in DOMAIN call.keys} :
           \E s \in Elements(stack[1].metadata.signatures) :
             s.good /\ s.keyid \in {key.keyid} \cup Elements(key.subkeys)
  <2>1. Rooted(stack[1], call)
    BY <1>1 DEF Frames
  <2>2. stack[1].pc # "layout signatures"
    BY <1>1, <1>2 DEF Unexpired
  <2> QED BY <2>1, <2>2 DEF Rooted
<1>4. ASSUME NEW i \in 2 .. Len(stack)
      PROVE  LET super == stack[i - 1].layout
             IN  \E st \in Elements(super.steps) : \E m \in AuthorizedMains(super, st) :
                   /\ stack[i].step_name = st.name
                   /\ Signed(super, m, stack[i].metadata)
  <2> DEFINE f == stack[i - 1]
  <2>1. i - 1 \in DOMAIN stack /\ i - 1 < Len(stack) /\ (i - 1) + 1 = i
    BY <1>1
  <2>2. Sound(f, returned, log)
    BY <1>1, <2>1 DEF Frames
  <2>3. Delegated(f, stack[i])
    <3>1. Delegated(stack[i - 1], stack[(i - 1) + 1])
      BY <1>1, <2>1 DEF Frames
    <3> QED BY <2>1, <3>1, Zenon
  <2> HIDE DEF f
  <2>4. PICK st \in Elements(f.layout.steps), k \in Keyids :
           /\ Entry(f, st, k)
           /\ stack[i].metadata = f.steps_metadata[st.name].at[k]
           /\ stack[i].step_name = st.name
    BY <2>3 DEF Delegated
  <2>5. \E m \in AuthorizedMains(f.layout, st) :
          Signed(f.layout, m, f.steps_metadata[st.name].at[k])
    BY <2>2, <2>4, EntryFacts
  <2> QED BY <2>4, <2>5 DEF f
<1>5. \A i \in DOMAIN stack : stack[i].metadata.payload.expires > 0
  BY <1>1, <1>2 DEF Frames, Sound, Typed
<1> QED BY <1>3, <1>4, <1>5 DEF Trusted

\* The frames of a command that is started then are trusted now.
LEMMA StartedTrusted ==
  ASSUME UNCHANGED call, NEW i, NEW frames, log'[i].stack = frames, Trusted(frames)
  PROVE  Trusted(log[i].stack)'
BY DEF Trusted

LEMMA StartInspectionStep == ASSUME IInv, StartInspection PROVE IInv'
<1> DEFINE g == Top
           f == [g EXCEPT !.pc = "command", !.base_path_backup = base_path,
                          !.materials = Recorded(base_path')]
           e == [stack |-> stack, cwd |-> cwd]
<1>1. /\ status = "working" /\ g.pc = "inspections" /\ Becomes(f) /\ status' = status
      /\ g.inspection <= Len(g.layout.inspect)
      /\ base_path' = "unset" /\ log' = Append(log, e)
      /\ UNCHANGED <<call, now, cwd, returned>>
  BY DEF StartInspection, At, Proceed
<1>2. /\ g.pc \in LinksChecked /\ g.pc \in Unexpired /\ g.pc \in Compared /\ Reduced(g)
      /\ g.pc \in RulesChecked
  BY <1>1 DEF RulesChecked, Compared, LinksChecked, Loaded, Unexpired, Phases, Reduced
<1>3. /\ Sound(g, returned, log)
      /\ g.step \in Nat \ {0} /\ g.key \in Nat \ {0} /\ g.inspection \in Nat \ {0}
  BY <1>2, StackFacts, TopFacts DEF IInv, Typed, Chained
<1>4. /\ Further(f, g) /\ SameCall(f, g) /\ f.pc = "command"
      /\ f.step = g.step /\ f.key = g.key /\ f.reduced = g.reduced
      /\ f.layout = g.layout /\ f.chain = g.chain
      /\ f.inspection = g.inspection /\ f.inspection_links = g.inspection_links
      /\ f.link_dir_path = g.link_dir_path
      /\ f.base_path_backup = base_path /\ f.materials = cwd
  BY <1>1, TopFacts DEF Further, Fields, SameCall, Recorded
<1> HIDE DEF f
<1>5. /\ log' \in Seq(Elements(log')) /\ Len(log) \in Nat
      /\ DOMAIN log = 1 .. Len(log) /\ DOMAIN log' = 1 .. Len(log) + 1
      /\ \A i \in DOMAIN log : i \in DOMAIN log' /\ log'[i] = log[i]
      /\ log'[Len(log) + 1] = e
  BY <1>1, AppendKeeps DEF IInv, Past
<1>6. e.stack = stack /\ e.cwd = cwd /\ Seqs!Last(e.stack) = g
  BY DEF Seqs!Last, Top
<1> HIDE DEF e
<1>7. Inspected(f, log')
  <2>1. \A n, artifacts : StartedOn(g, log, n, artifacts) => StartedOn(f, log', n, artifacts)
    BY <1>4, <1>5 DEF StartedOn
  <2>2. Inspected(g, log)
    BY <1>3 DEF Sound
  <2>3. StartedOn(f, log', f.layout.inspect[f.inspection].name, f.materials)
    <3>1. Len(log) + 1 \in DOMAIN log'
      BY <1>5
    <3> HIDE DEF g
    <3> QED BY <1>4, <1>5, <1>6, <3>1 DEF StartedOn
  <2> QED BY <1>1, <1>4, <2>1, <2>2, <2>3 DEF Inspected
<1>8. Sound(f, returned, log')
  <2>1. \A i, j : Visited(g, i, j)
    BY <1>1 DEF Visited
  <2>2. f.pc \in LinksChecked /\ f.pc \in Compared /\ Reduced(f) /\ f.pc \in RulesChecked
    BY <1>4 DEF RulesChecked, Compared, LinksChecked, Loaded, Unexpired, Phases, Reduced
  <2>3. Agreed(f) /\ FirstOnes(f) /\ RulesHeld(f)
    BY <1>2, <1>3, <1>4 DEF Sound, Agreed, FirstOnes, RulesHeld
  <2> HIDE DEF g
  <2>4. Typed(f) /\ Filed(f) /\ Authorized(f) /\ Chained(f) /\ Vouched(f, returned)
    <3>1. f.step \in Nat \ {0} /\ f.key \in Nat \ {0} /\ f.inspection \in Nat \ {0}
      BY <1>3, <1>4, Zenon
    <3> QED BY <1>2, <1>3, <1>4, <2>1, <2>2, <3>1, LinksStay
  <2> QED BY <1>7, <2>3, <2>4 DEF Sound
<1>9. Frames' /\ Top' = f
  <2>1. Len(stack) = 1 => Rooted(f, call)
    BY <1>1, <1>4, RootedStays DEF IInv
  <2> QED BY <1>1, <1>4, <1>5, <1>8, <2>1, FramesStep DEF IInv
<1>10. BasePath'
  <2>1. base_path = call.base_path
    BY <1>1 DEF IInv, BasePath
  <2> QED BY <1>1, <1>4, <1>9, <2>1 DEF BasePath
<1>11. Past'
  <2>1. OnlyTrustedCommands'
    <3> SUFFICES ASSUME NEW i \in DOMAIN log' PROVE Trusted(log[i].stack)'
      BY DEF OnlyTrustedCommands
    <3>1. CASE i \in DOMAIN log
      <4>1. Trusted(log[i].stack)
        BY <3>1 DEF IInv, Past, OnlyTrustedCommands
      <4>2. log'[i].stack = log[i].stack
        BY <1>5, <3>1
      <4> QED BY <1>1, <4>1, <4>2, StartedTrusted
    <3>2. CASE i \notin DOMAIN log
      <4>1. i = Len(log) + 1
        BY <1>5, <3>2
      <4>2. log'[i].stack = stack
        BY <1>5, <1>6, <4>1
      <4>3. Trusted(stack)
        BY <1>2, StackTrusted
      <4> QED BY <1>1, <4>2, <4>3, StartedTrusted
    <3> QED BY <3>1, <3>2
  <2>2. OwnRulesFirst'
    <3> DEFINE holds(frame) ==
                 \A st \in Elements(frame.layout.steps) : ItemHolds(st, frame.reduced)
    <3>1. holds(g)
      BY <1>2, <1>3 DEF Sound, RulesHeld
    <3>2. \A i \in DOMAIN log : holds(Seqs!Last(log[i].stack))
      BY DEF IInv, Past, OwnRulesFirst
    <3> HIDE DEF holds
    <3>3. \A i \in DOMAIN log' : holds(Seqs!Last(log'[i].stack))
      <4> TAKE i \in DOMAIN log'
      <4>1. CASE i \in DOMAIN log
        BY <1>5, <3>2, <4>1
      <4>2. CASE i \notin DOMAIN log
        <5>1. i = Len(log) + 1
          BY <1>5, <4>2
        <5> QED BY <1>5, <1>6, <3>1, <5>1
      <4> QED BY <4>1, <4>2
    <3> QED BY <3>3 DEF OwnRulesFirst, holds
  <2>3. ASSUME NEW i \in DOMAIN returned
        PROVE  Sound(returned[i].frame, returned, log') /\ returned[i].frame.pc = "return"
    <3>1. Sound(returned[i].frame, returned, log) /\ returned[i].frame.pc = "return"
      BY DEF IInv, Past
    <3> QED BY <1>5, <3>1, SoundLater
  <2>4. returned \in Seq(Elements(returned))
    BY DEF IInv, Past
  <2> QED BY <1>1, <1>5, <2>1, <2>2, <2>3, <2>4 DEF Past
<1> QED BY <1>1, <1>9, <1>10, <1>11 DEF IInv

LEMMA EndInspectionStep == ASSUME IInv, EndInspection PROVE IInv'
<1> DEFINE g == Top
           name == Inspection.name
           f(products) == [g EXCEPT !.pc = "inspections", !.inspection = NextInspection,
                             !.inspection_links = With(@, name, LinkOf(g.materials, products))]
<1>1. PICK end \in Commands[Inspection.run][cwd] :
        /\ cwd' = end.after
        /\ \/ /\ end.result = "zero" /\ base_path' = Restored
              /\ \E products : Proceed(f(products))
           \/ end.result # "zero" /\ Raise(end.result) /\ UNCHANGED base_path
  BY DEF EndInspection
<1>2. /\ status = "working" /\ g.pc = "command"
      /\ UNCHANGED <<call, now, log, returned>>
  BY DEF EndInspection, At, history
<1>3. /\ g.pc \in LinksChecked /\ g.pc \in Compared /\ Reduced(g) /\ g.pc \in RulesChecked
  BY <1>2 DEF RulesChecked, Compared, LinksChecked, Loaded, Unexpired, Phases, Reduced
<1>4. /\ Sound(g, returned, log) /\ Valid(g.layout)
      /\ g.step \in Nat \ {0} /\ g.key \in Nat \ {0} /\ g.inspection \in Nat \ {0}
  BY <1>3, StackFacts, TopFacts DEF IInv, Typed, Chained
<1>5. g.inspection \in DOMAIN g.layout.inspect
  <2>1. g.inspection <= Len(g.layout.inspect)
    BY <1>2, <1>4 DEF Sound, Inspected
  <2>2. Len(g.layout.inspect) \in Nat /\ DOMAIN g.layout.inspect = 1 .. Len(g.layout.inspect)
    BY <1>4, LayoutFacts
  <2> QED BY <1>4, <2>1, <2>2
<1>6. end.after \in Artifacts /\ end.result \in {"zero", "BadReturnValueError", "TimeoutExpired"}
  <2>1. Inspection.run \in DOMAIN Commands
    BY <1>4, <1>5, LayoutFacts DEF Inspection
  <2>2. Commands[Inspection.run] \in [Artifacts -> SUBSET Ending] /\ cwd \in Artifacts
    BY <2>1, VerifyAssumption DEF IInv
  <2>3. end \in Ending
    BY <2>2
  <2> QED BY <2>3 DEF Ending
<1>7. Past'
  BY <1>2, PastSame DEF IInv
<1>8. CASE end.result # "zero" /\ Raise(end.result) /\ UNCHANGED base_path
  <2>1. status' = end.result /\ status' \in Errors /\ UNCHANGED stack
    BY <1>6, <1>8 DEF Raise, Errors
  <2>2. Frames'
    BY <1>2, <2>1, SameFrames DEF IInv
  <2>3. BasePath'
    BY <1>2, <1>8, <2>1 DEF IInv, BasePath, Errors
  <2> QED BY <1>1, <1>2, <1>6, <1>7, <2>1, <2>2, <2>3 DEF IInv
<1>9. CASE base_path' = Restored /\ \E products : Proceed(f(products))
  <2>1. PICK products : Proceed(f(products))
    BY <1>9
  <2> DEFINE h == f(products)
             link == LinkOf(g.materials, products)
  <2>2. /\ Further(h, g) /\ SameCall(h, g) /\ h.pc = "inspections"
        /\ h.step = g.step /\ h.key = g.key /\ h.reduced = g.reduced
        /\ h.layout = g.layout /\ h.chain = g.chain
        /\ h.inspection = g.inspection + 1
        /\ h.inspection_links = With(g.inspection_links, name, link)
        /\ h.link_dir_path = g.link_dir_path
    BY TopFacts DEF Further, Fields, SameCall, NextInspection
  <2>3. Becomes(h) /\ status' = status
    BY <2>1 DEF Proceed
  <2>4. link.materials = g.materials
    BY LinkFacts
  <2> HIDE DEF f, link
  <2>5. Inspected(h, log)
    <3>1. \A n, artifacts : StartedOn(g, log, n, artifacts) => StartedOn(h, log, n, artifacts)
      BY <2>2 DEF StartedOn
    <3>2. Inspected(g, log)
      BY <1>4 DEF Sound
    <3>3. StartedOn(g, log, name, g.materials)
      BY <1>2, <3>2 DEF Inspected, Inspection
    <3>4. ASSUME NEW n \in DOMAIN h.inspection_links
          PROVE  StartedOn(h, log, n, h.inspection_links[n].materials)
      <4>1. CASE n = name
        <5>1. h.inspection_links[n] = link
          BY <2>2, <4>1 DEF With
        <5> QED BY <2>4, <3>1, <3>3, <4>1, <5>1
      <4>2. CASE n # name
        <5>1. n \in DOMAIN g.inspection_links
              /\ h.inspection_links[n] = g.inspection_links[n]
          BY <2>2, <4>2 DEF With
        <5> QED BY <3>1, <3>2, <5>1 DEF Inspected
      <4> QED BY <4>1, <4>2
    <3> QED BY <2>2, <3>4 DEF Inspected
  <2>6. Sound(h, returned, log)
    <3>1. \A i, j : Visited(g, i, j)
      BY <1>2 DEF Visited
    <3>2. h.pc \in LinksChecked /\ h.pc \in Compared /\ Reduced(h) /\ h.pc \in RulesChecked
      BY <2>2 DEF RulesChecked, Compared, LinksChecked, Loaded, Unexpired, Phases, Reduced
    <3>3. Agreed(h) /\ FirstOnes(h) /\ RulesHeld(h)
      BY <1>3, <1>4, <2>2 DEF Sound, Agreed, FirstOnes, RulesHeld
    <3> HIDE DEF g
    <3>4. Typed(h) /\ Filed(h) /\ Authorized(h) /\ Chained(h) /\ Vouched(h, returned)
      <4>1. h.step \in Nat \ {0} /\ h.key \in Nat \ {0}
        BY <1>4, <2>2, Zenon
      <4>2. h.inspection \in Nat \ {0}
        <5>1. g.inspection \in Nat
          BY <1>4
        <5> QED BY <2>2, <5>1, Arithmetic, Zenon
      <4> QED BY <1>3, <1>4, <2>2, <3>1, <3>2, <4>1, <4>2, LinksStay
    <3> QED BY <2>5, <3>3, <3>4 DEF Sound
  <2>7. Frames' /\ Top' = h
    <3>1. Len(stack) = 1 => Rooted(h, call)
      BY <1>2, <2>2, RootedStays DEF IInv
    <3> QED BY <1>2, <2>2, <2>3, <2>6, <3>1, FramesStep DEF IInv
  <2>8. BasePath'
    <3>1. base_path' = call.base_path
      BY <1>2, <1>9 DEF IInv, BasePath, Restored
    <3> QED BY <1>2, <2>2, <2>3, <2>7, <3>1 DEF BasePath
  <2> QED BY <1>1, <1>2, <1>6, <1>7, <2>3, <2>7, <2>8 DEF IInv
<1> QED BY <1>1, <1>8, <1>9

(***************************************************************************)
(* Returning                                                               *)
(***************************************************************************)

\* The innermost frame goes, and the one below it is replaced.
LEMMA PopFacts ==
  ASSUME Frames, Len(stack) # 1, NEW h,
         stack' = Append(SubSeq(stack, 1, Len(stack) - 2), h)
  PROVE  /\ stack' \in Seq(Elements(stack')) /\ stack' # << >>
         /\ Len(stack') = Len(stack) - 1 /\ DOMAIN stack' = 1 .. Len(stack) - 1
         /\ stack'[Len(stack) - 1] = h
         /\ \A i \in 1 .. Len(stack) - 2 : stack'[i] = stack[i]
<1> DEFINE n == Len(stack)
           s == SubSeq(stack, 1, n - 2)
<1>1. stack \in Seq(Elements(stack)) /\ n \in Nat /\ n > 1
  <2>1. stack \in Seq(Elements(stack)) /\ n \in Nat \ {0} /\ n # 1
    BY StackFacts DEF Frames
  <2> HIDE DEF n
  <2> QED BY <2>1
<1>2. 1 \in 1 .. n + 1 /\ n - 2 \in 1 - 1 .. n
  BY <1>1
<1>3. /\ s \in Seq(Elements(stack))
      /\ Len(s) = n - 2 /\ \A i \in 1 .. n - 2 : s[i] = stack[i]
  <2>1. Len(s) = IF 1 <= n - 2 THEN (n - 2) - 1 + 1 ELSE 0
    BY <1>1, <1>2, SubSeqProperties
  <2>2. s \in Seq(Elements(stack)) /\ \A i \in 1 .. (n - 2) - 1 + 1 : s[i] = stack[1 + i - 1]
    BY <1>1, <1>2, SubSeqProperties
  <2> HIDE DEF n, s
  <2>3. Len(s) = n - 2
    BY <1>1, <2>1
  <2>4. \A i \in 1 .. n - 2 : s[i] = stack[i]
    <3> TAKE i \in 1 .. n - 2
    <3>1. i \in 1 .. (n - 2) - 1 + 1 /\ 1 + i - 1 = i
      BY <1>1
    <3> QED BY <2>2, <3>1, Zenon
  <2> QED BY <2>2, <2>3, <2>4
<1> HIDE DEF s
<1>4. s \in Seq(Elements(s))
  <2>1. DOMAIN s = 1 .. Len(s) /\ Len(s) \in Nat /\ s \in [1 .. Len(s) -> Elements(stack)]
    BY <1>3, LenProperties
  <2>2. \A i \in 1 .. Len(s) : s[i] \in Elements(s)
    BY <2>1 DEF Elements
  <2>3. s \in [1 .. Len(s) -> Elements(s)]
    BY <2>1, <2>2
  <2> QED BY <2>1, <2>3, SeqDef
<1>5. /\ stack' \in Seq(Elements(stack')) /\ Len(stack') = Len(s) + 1
      /\ DOMAIN s = 1 .. Len(s) /\ DOMAIN stack' = 1 .. Len(s) + 1
      /\ \A i \in DOMAIN s : stack'[i] = s[i]
      /\ stack'[Len(s) + 1] = h
  <2>1. stack' = Append(s, h)
    BY DEF s
  <2>2. /\ Append(s, h) \in Seq(Elements(Append(s, h))) /\ Len(Append(s, h)) = Len(s) + 1
        /\ DOMAIN s = 1 .. Len(s) /\ DOMAIN Append(s, h) = 1 .. Len(s) + 1
        /\ \A i \in DOMAIN s : Append(s, h)[i] = s[i]
        /\ Append(s, h)[Len(s) + 1] = h
    BY <1>4, AppendKeeps
  <2> QED BY <2>1, <2>2, Zenon
<1> HIDE DEF n
<1>6. Len(s) + 1 = n - 1
  BY <1>1, <1>3
<1>7. stack' # << >>
  <2>1. Len(stack') # 0
    BY <1>1, <1>5, <1>6
  <2> QED BY <2>1, EmptySeq
<1> QED BY <1>3, <1>5, <1>6, <1>7 DEF n

\* A sublayout that was verified delivers its summary link.
LEMMA SummaryFacts ==
  ASSUME NEW f, NEW g, NEW st, NEW k, Typed(g),
         g.metadata = f.steps_metadata[st.name].at[k],
         g.link_dir_path = Append(f.link_dir_path, <<st.name, Short[k]>>)
  PROVE  LET summary == SummaryLink(g.layout, g.reduced)
         IN  ~IsLayout(summary) /\ Delivers(g, f, st, k, summary)
<1> DEFINE steps == g.layout.steps
           summary == SummaryLink(g.layout, g.reduced)
           materials == g.reduced[steps[1].name].materials
           products == g.reduced[Seqs!Last(steps).name].products
<1>1. summary = IF steps = << >> THEN LinkOf(<< >>, << >>) ELSE LinkOf(materials, products)
  BY DEF SummaryLink
<1>2. steps # << >> => Head(steps) = steps[1]
  <2>1. steps \in Seq(Elements(steps))
    BY DEF Typed, Valid
  <2> QED BY <2>1
<1> HIDE DEF summary
<1>3. ~IsLayout(summary)
  BY <1>1, LinkFacts
<1>4. steps # << >> => summary.materials = materials /\ summary.products = products
  <2> HIDE DEF materials, products
  <2> QED BY <1>1, LinkFacts, Zenon
<1>5. Delivers(g, f, st, k, summary)
  BY <1>2, <1>4 DEF Delivers
<1> QED BY <1>3, <1>5 DEF summary

\* The frame joins the ones that have returned.
LEMMA PastReturn ==
  ASSUME IInv, Sound(Top, returned, log), Top.pc = "return", NEW summary,
         returned' = Append(returned, [frame |-> Top, summary |-> summary]),
         UNCHANGED <<call, log>>
  PROVE  /\ Past'
         /\ Len(returned) + 1 \in DOMAIN returned'
         /\ returned'[Len(returned) + 1].frame = Top
         /\ \A i \in DOMAIN returned : i \in DOMAIN returned' /\ returned'[i] = returned[i]
         /\ \A i \in DOMAIN log : i \in DOMAIN log' /\ log'[i] = log[i]
<1> DEFINE n == Len(returned)
           e == [frame |-> Top, summary |-> summary]
<1>1. /\ returned' \in Seq(Elements(returned')) /\ n \in Nat
      /\ DOMAIN returned = 1 .. n /\ DOMAIN returned' = 1 .. n + 1
      /\ \A i \in DOMAIN returned : i \in DOMAIN returned' /\ returned'[i] = returned[i]
      /\ returned'[n + 1] = e
  <2>1. returned' = Append(returned, e)
    OBVIOUS
  <2> HIDE DEF e
  <2> QED BY <2>1, AppendKeeps DEF IInv, Past
<1>2. e.frame = Top
  OBVIOUS
<1> HIDE DEF e, n
<1>3. n + 1 \in DOMAIN returned'
  BY <1>1
<1>4. \A i \in DOMAIN log : i \in DOMAIN log' /\ log'[i] = log[i]
  OBVIOUS
<1>5. ASSUME NEW i \in DOMAIN returned'
      PROVE  Sound(returned'[i].frame, returned', log') /\ returned'[i].frame.pc = "return"
  <2>1. CASE i \in DOMAIN returned
    <3>1. Sound(returned[i].frame, returned, log) /\ returned[i].frame.pc = "return"
      BY <2>1 DEF IInv, Past
    <3>2. Sound(returned[i].frame, returned', log')
      BY <1>1, <1>4, <3>1, SoundLater
    <3> QED BY <1>1, <2>1, <3>1, <3>2
  <2>2. CASE i \notin DOMAIN returned
    <3>1. i = n + 1
      BY <1>1, <2>2
    <3>2. Sound(Top, returned', log')
      BY <1>1, <1>4, SoundLater
    <3> QED BY <1>1, <1>2, <3>1, <3>2
  <2> QED BY <2>1, <2>2
<1>6. log' \in Seq(Elements(log')) /\ OnlyTrustedCommands' /\ OwnRulesFirst'
  <2>1. OnlyTrustedCommands'
    <3> SUFFICES ASSUME NEW i \in DOMAIN log PROVE Trusted(log[i].stack)'
      BY DEF OnlyTrustedCommands
    <3>1. Trusted(log[i].stack)
      BY DEF IInv, Past, OnlyTrustedCommands
    <3> QED BY <3>1 DEF Trusted
  <2> QED BY <2>1 DEF IInv, Past, OwnRulesFirst
<1>7. Past'
  BY <1>1, <1>5, <1>6 DEF Past
<1> QED BY <1>1, <1>2, <1>3, <1>4, <1>7 DEF n

LEMMA ReturnStep == ASSUME IInv, Return PROVE IInv'
<1> DEFINE g == Top
           n == Len(stack)
           summary == SummaryLink(g.layout, g.reduced)
<1>1. /\ status = "working" /\ g.pc = "return"
      /\ returned' = Append(returned, [frame |-> g, summary |-> summary])
      /\ UNCHANGED <<call, now, cwd, base_path, log>>
  BY DEF Return, At, world
<1>2. Sound(g, returned, log)
  BY StackFacts DEF IInv
<1>3. base_path = call.base_path
  BY <1>1 DEF IInv, BasePath
<1>4. /\ Past'
      /\ Len(returned) + 1 \in DOMAIN returned'
      /\ returned'[Len(returned) + 1].frame = g
      /\ \A i \in DOMAIN returned : i \in DOMAIN returned' /\ returned'[i] = returned[i]
      /\ \A i \in DOMAIN log : i \in DOMAIN log' /\ log'[i] = log[i]
  BY <1>1, <1>2, PastReturn
<1>5. /\ n \in Nat \ {0} /\ DOMAIN stack = 1 .. n /\ stack \in Seq(Elements(stack))
      /\ stack # << >> /\ \A i \in 1 .. n : Sound(stack[i], returned', log')
  <2>1. n \in Nat \ {0} /\ DOMAIN stack = 1 .. n
    BY StackFacts DEF IInv
  <2>2. \A i \in 1 .. n : Sound(stack[i], returned', log')
    <3> TAKE i \in 1 .. n
    <3>1. Sound(stack[i], returned, log)
      BY <2>1 DEF IInv, Frames
    <3> QED BY <1>4, <3>1, SoundLater
  <2> QED BY <2>1, <2>2 DEF IInv, Frames
<1>6. CASE n = 1
  <2>1. status' = "passed" /\ UNCHANGED stack
    BY <1>6 DEF Return
  <2>2. Frames' /\ Top' = g
    BY <1>1, <1>5, <2>1 DEF IInv, Frames, Top
  <2>3. BasePath'
    BY <1>1, <1>3, <2>1, <2>2 DEF BasePath
  <2> QED BY <1>1, <1>4, <2>1, <2>2, <2>3 DEF IInv
<1>7. CASE n # 1
  <2> DEFINE f == stack[n - 1]
             st == f.layout.steps[f.step]
             k == f.steps_metadata[st.name].order[f.key]
             h == WithEntry(f, st.name, k, summary)
  <2>1. /\ stack' = Append(SubSeq(stack, 1, n - 2), h)
        /\ status' = status
    BY <1>7 DEF Return
  <2>2. n - 1 \in 1 .. n /\ n - 1 < n /\ (n - 1) + 1 = n
    <3> HIDE DEF n
    <3> QED BY <1>5, <1>7
  <2>3. Sound(f, returned', log')
    BY <1>5, <2>2
  <2>4. Delegated(f, g)
    <3>1. Delegated(stack[n - 1], stack[(n - 1) + 1])
      BY <1>5, <2>2 DEF IInv, Frames
    <3> QED BY <2>2, <3>1, Zenon DEF Top
  <2> HIDE DEF f, n, summary
  <2>5. /\ Entry(f, st, k) /\ f.pc = "sublayouts"
        /\ g.metadata = f.steps_metadata[st.name].at[k]
        /\ g.link_dir_path = Append(f.link_dir_path, <<st.name, Short[k]>>)
    <3> HIDE DEF g
    <3> QED BY <2>4 DEF Delegated, Entry
  <2> HIDE DEF st, k
  <2>6. ~IsLayout(summary) /\ Delivers(g, f, st, k, summary)
    <3>1. Typed(g)
      BY <1>2 DEF Sound
    <3> HIDE DEF g
    <3> QED BY <2>5, <3>1, SummaryFacts DEF summary
  <2>7. VouchesIn(returned', f, st, k, summary)
    <3>1. IsLayout(f.steps_metadata[st.name].at[k].payload)
      BY <1>2, <2>5 DEF Sound, Typed
    <3> HIDE DEF g
    <3> QED BY <1>4, <2>6, <3>1 DEF VouchesIn
  <2>8. Sound(h, returned', log') /\ SameCall(h, f) /\ h.pc = "sublayouts"
    BY <2>3, <2>5, <2>6, <2>7, WithEntrySound
  <2> HIDE DEF h
  <2>9. /\ stack' \in Seq(Elements(stack')) /\ stack' # << >>
        /\ Len(stack') = n - 1 /\ DOMAIN stack' = 1 .. n - 1
        /\ stack'[n - 1] = h
        /\ \A i \in 1 .. n - 2 : stack'[i] = stack[i]
    <3>1. Frames
      BY DEF IInv
    <3> QED BY <1>7, <2>1, <3>1, PopFacts DEF n
  <2>10. \A i \in 1 .. n - 1 : Sound(stack'[i], returned', log')
    <3> TAKE i \in 1 .. n - 1
    <3>1. CASE i = n - 1
      BY <2>8, <2>9, <3>1
    <3>2. CASE i # n - 1
      <4>1. i \in 1 .. n - 2 /\ i \in 1 .. n
        BY <1>5, <3>2
      <4> QED BY <1>5, <2>9, <4>1
    <3> QED BY <3>1, <3>2
  <2>11. ASSUME NEW i \in 1 .. n - 1, i < n - 1
         PROVE  Delegated(stack'[i], stack'[i + 1])
    <3>1. /\ i \in 1 .. n - 2 /\ i \in 1 .. n /\ i < n
          /\ (i + 1 = n - 1 \/ i + 1 \in 1 .. n - 2)
      BY <1>5, <2>11
    <3>2. Delegated(stack[i], stack[i + 1])
      BY <1>5, <3>1 DEF IInv, Frames, n
    <3>3. stack'[i] = stack[i]
      BY <2>9, <3>1
    <3>4. CASE i + 1 = n - 1
      <4>1. stack'[i + 1] = h /\ stack[i + 1] = f
        BY <2>9, <3>4 DEF f
      <4>2. Delegated(stack[i], f)
        BY <3>2, <4>1
      <4>3. Delegated(stack[i], h)
        BY <2>8, <4>2 DEF Delegated, SameCall
      <4> QED BY <3>3, <4>1, <4>3
    <3>5. CASE i + 1 \in 1 .. n - 2
      BY <2>9, <3>2, <3>3, <3>5
    <3> QED BY <3>1, <3>4, <3>5
  <2>12. Rooted(stack'[1], call')
    <3>1. Rooted(stack[1], call)
      BY DEF IInv, Frames
    <3>2. CASE n - 1 = 1
      <4>1. stack'[1] = h /\ stack[1] = f
        BY <2>9, <3>2 DEF f
      <4>2. Rooted(f, call) /\ f.pc # "layout signatures"
        BY <2>5, <3>1, <4>1
      <4>3. Rooted(h, call)
        BY <2>8, <4>2 DEF Rooted, SameCall
      <4> QED BY <1>1, <4>1, <4>3
    <3>3. CASE n - 1 # 1
      <4>1. 1 \in 1 .. n - 2
        BY <1>5, <1>7, <3>3
      <4>2. stack'[1] = stack[1]
        BY <2>9, <4>1
      <4> QED BY <1>1, <3>1, <4>2
    <3> QED BY <3>2, <3>3
  <2>13. Frames' /\ Top' = h
    <3>1. Top' = h
      BY <2>9 DEF Top
    <3> QED BY <2>9, <2>10, <2>11, <2>12, <3>1 DEF Frames
  <2>14. BasePath'
    BY <1>1, <1>3, <2>1, <2>8, <2>13 DEF BasePath
  <2> QED BY <1>1, <1>4, <2>1, <2>13, <2>14 DEF IInv
<1> QED BY <1>6, <1>7

LEMMA TickStep == ASSUME IInv, Tick PROVE IInv'
<1>1. /\ status = "working" /\ now < MaxTime /\ now' = now + 1
      /\ UNCHANGED <<call, stack, cwd, base_path, status, log, returned>>
  BY DEF Tick, world, history
<1>2. now' \in 0 .. MaxTime
  BY <1>1, VerifyAssumption DEF IInv
<1>3. Frames' /\ Top' = Top
  BY <1>1, SameFrames DEF IInv
<1>4. BasePath'
  BY <1>1, <1>3 DEF IInv, BasePath
<1>5. Past'
  BY <1>1, PastSame DEF IInv
<1> QED BY <1>1, <1>2, <1>3, <1>4, <1>5 DEF IInv

LEMMA NextIInv == IInv /\ [Next]_vars => IInv'
<1> SUFFICES ASSUME IInv, [Next]_vars PROVE IInv'
  OBVIOUS
<1>1. CASE VerifyLayoutSignatures
  BY <1>1, VerifyLayoutSignaturesStep
<1>2. CASE VerifyExpiration
  BY <1>2, VerifyExpirationStep
<1>3. CASE SubstituteParameters
  BY <1>3, SubstituteParametersStep
<1>4. CASE LoadLinks
  BY <1>4, LoadLinksStep
<1>5. CASE VerifyLinkSignatures
  BY <1>5, VerifyLinkSignaturesStep
<1>6. CASE TakeLink
  BY <1>6, TakeLinkStep
<1>7. CASE EnterSublayout
  BY <1>7, EnterSublayoutStep
<1>8. CASE NextStep
  BY <1>8, NextStepStep
<1>9. CASE SublayoutsEnd
  BY <1>9, SublayoutsEndStep
<1>10. CASE VerifyConstraints
  BY <1>10, VerifyConstraintsStep
<1>11. CASE Reduce
  BY <1>11, ReduceStep
<1>12. CASE VerifyStepRules
  BY <1>12, VerifyStepRulesStep
<1>13. CASE StartInspection
  BY <1>13, StartInspectionStep
<1>14. CASE EndInspection
  BY <1>14, EndInspectionStep
<1>15. CASE VerifyInspectionRules
  BY <1>15, VerifyInspectionRulesStep
<1>16. CASE Return
  BY <1>16, ReturnStep
<1>17. CASE Tick
  BY <1>17, TickStep
<1>18. CASE UNCHANGED vars
  <2>1. UNCHANGED <<call, stack, now, cwd, base_path, status, log, returned>>
    BY <1>18 DEF vars
  <2>2. Frames' /\ Top' = Top
    BY <2>1, SameFrames DEF IInv
  <2>3. BasePath'
    BY <2>1, <2>2 DEF IInv, BasePath
  <2>4. Past'
    BY <2>1, PastSame DEF IInv
  <2> QED BY <2>1, <2>2, <2>3, <2>4 DEF IInv
<1> QED
  BY <1>1, <1>2, <1>3, <1>4, <1>5, <1>6, <1>7, <1>8, <1>9, <1>10, <1>11, <1>12, <1>13,
     <1>14, <1>15, <1>16, <1>17, <1>18 DEF Next, Verify

LEMMA Invariance == Spec => []IInv
BY InitIInv, NextIInv, PTL DEF Spec

-----------------------------------------------------------------------------
(* What follows *)

\* A frame's reduced links are ones of its chain, which holds links only.
LEMMA ReducedFacts ==
  ASSUME NEW f, Sound(f, returned, log), Reduced(f), NEW n \in NamesOf(f.layout)
  PROVE  \E k \in KeysOf(f.chain[n]) : f.reduced[n] = f.chain[n].at[k] /\ ~IsLayout(f.reduced[n])
<1>1. f.pc \in LinksChecked
  BY DEF Reduced, LinksChecked, Loaded, Unexpired, Phases
<1>2. Listed(f.chain[n]) /\ \A k \in KeysOf(f.chain[n]) : ~IsLayout(f.chain[n].at[k])
  BY <1>1 DEF Sound, Chained
<1>3. KeysOf(f.chain[n]) # {} /\ f.reduced[n] = FirstValue(f.chain[n])
  BY DEF Sound, FirstOnes
<1>4. PICK k \in KeysOf(f.chain[n]) : FirstValue(f.chain[n]) = f.chain[n].at[k]
  BY <1>2, <1>3, FirstIsAValue
<1> QED BY <1>2, <1>3, <1>4

\* Types, and a call below another one is in verify_sublayouts, in every reachable state.
THEOREM TypeCorrect == Spec => []TypeOK
<1>1. IInv => TypeOK
  <2> SUFFICES ASSUME IInv PROVE TypeOK
    OBVIOUS
  <2>1. ASSUME NEW i \in DOMAIN stack
        PROVE  /\ stack[i].pc \in Phases
               /\ stack[i].metadata \in Doc /\ IsLayout(stack[i].layout)
               /\ i < Len(stack) => stack[i].pc = "sublayouts"
               /\ Reduced(stack[i]) =>
                    \A n \in DOMAIN stack[i].reduced : ~IsLayout(stack[i].reduced[n])
    <3>1. Sound(stack[i], returned, log)
      BY DEF IInv, Frames
    <3>2. i < Len(stack) => stack[i].pc = "sublayouts"
      BY WaitingFacts DEF IInv
    <3>3. ASSUME Reduced(stack[i]), NEW n \in DOMAIN stack[i].reduced
          PROVE  ~IsLayout(stack[i].reduced[n])
      <4>1. n \in NamesOf(stack[i].layout)
        BY <3>1, <3>3 DEF Sound, FirstOnes
      <4> QED BY <3>1, <3>3, <4>1, ReducedFacts
    <3> QED BY <3>1, <3>2, <3>3 DEF Sound, Typed
  <2> QED BY <2>1 DEF IInv, Frames, BasePath, TypeOK
<1> QED BY <1>1, Invariance, PTL

\* For every tree of layouts, no command is started but inspections of layouts that the
\* caller's keys, and a functionary authorized for the step at each delegation, have
\* signed, and that had not expired at the start.
THEOREM TrustedCorrect == Spec => []OnlyTrustedCommands
<1>1. IInv => OnlyTrustedCommands
  BY DEF IInv, Past
<1> QED BY <1>1, Invariance, PTL

\* A layout's step rules hold whenever one of its inspections is started.
THEOREM OwnRulesCorrect == Spec => []OwnRulesFirst
<1>1. IInv => OwnRulesFirst
  BY DEF IInv, Past
<1> QED BY <1>1, Invariance, PTL

\* Where links have been reduced, those who vouch for a step's link are enough: with a
\* threshold above 1 all links agree, below it one of the chain is enough.
LEMMA BackedFrame ==
  ASSUME NEW f, Sound(f, returned, log), Reduced(f), NEW st \in Elements(f.layout.steps)
  PROVE  Cardinality({m \in AuthorizedMains(f.layout, st) :
           \E k \in KeysOf(f.chain[st.name]) :
             /\ Signed(f.layout, m, f.steps_metadata[st.name].at[k])
             /\ Vouches(f, st, k, f.reduced[st.name])}) >= st.threshold
<1> DEFINE n == st.name
           mains == AuthorizedMains(f.layout, st)
           signed(m, k) == Signed(f.layout, m, f.steps_metadata[n].at[k])
           backers == {m \in mains : \E k \in KeysOf(f.chain[n]) :
                         signed(m, k) /\ Vouches(f, st, k, f.reduced[n])}
           signers == Signers(f, st)
<1>1. /\ f.pc \in LinksChecked /\ f.pc \in Loaded /\ f.pc \in Compared /\ f.pc # "sublayouts"
  BY DEF Reduced, Compared, LinksChecked, Loaded, Unexpired, Phases
<1>2. /\ WellFormed(f.layout) /\ st.pubkeys \in Seq(Keyids) /\ st.threshold \in Int
      /\ n \in NamesOf(f.layout)
  BY LayoutFacts DEF Sound, Typed
<1>3. IsFiniteSet(mains) /\ IsFiniteSet(backers) /\ IsFiniteSet(signers)
  <2>1. IsFiniteSet(mains)
    BY <1>2, AuthorizedFinite
  <2>2. backers \in SUBSET mains /\ signers \in SUBSET mains
    BY DEF Signers
  <2> HIDE DEF mains, backers, signers
  <2> QED BY <2>1, <2>2, FS_Subset
<1>4. Cardinality(backers) \in Nat /\ Cardinality(signers) \in Nat
  BY <1>3, FS_CardinalityType
<1>5. Cardinality(signers) >= st.threshold
  BY <1>1 DEF Sound, Authorized
<1>6. KeysOf(f.steps_metadata[n]) \subseteq KeysOf(f.chain[n])
  <2>1. PICK i \in DOMAIN f.layout.steps : st = f.layout.steps[i]
    BY DEF Elements
  <2>2. \A j \in DOMAIN f.steps_metadata[n].order :
          f.steps_metadata[n].order[j] \in KeysOf(f.chain[n])
    BY <1>1, <2>1 DEF Sound, Chained, Visited
  <2>3. Listed(f.steps_metadata[n])
    BY <1>1, <1>2 DEF Sound, Filed
  <2> QED BY <2>2, <2>3 DEF Listed, Elements
<1>7. \A k \in KeysOf(f.chain[n]) : f.chain[n].at[k] = f.reduced[n] =>
        Vouches(f, st, k, f.reduced[n])
  BY <1>1 DEF Sound, Vouched, VouchesIn, Vouches
<1>8. CASE st.threshold > 1
  <2>1. \A k \in KeysOf(f.chain[n]) : f.chain[n].at[k] = f.reduced[n]
    <3>1. ~Disagree(f.chain[n])
      BY <1>1, <1>8 DEF Sound, Agreed
    <3>2. f.reduced[n] = FirstValue(f.chain[n])
      BY <1>2 DEF Sound, FirstOnes
    <3> QED BY <3>1, <3>2 DEF Disagree
  <2>2. signers \in SUBSET backers
    BY <1>6, <1>7, <2>1 DEF Signers
  <2> HIDE DEF backers, signers
  <2>3. Cardinality(signers) <= Cardinality(backers)
    BY <1>3, <2>2, FS_Subset
  <2> QED BY <1>2, <1>4, <1>5, <2>3 DEF backers
<1>9. CASE ~ (st.threshold > 1)
  <2>1. PICK k \in KeysOf(f.chain[n]) : f.reduced[n] = f.chain[n].at[k]
    BY <1>2, ReducedFacts
  <2>2. k \in KeysOf(f.steps_metadata[n])
    BY <1>1, <1>2 DEF Sound, Chained
  <2>3. PICK m \in mains : signed(m, k)
    BY <1>1, <2>2 DEF Sound, Authorized
  <2>4. backers # {}
    BY <1>7, <2>1, <2>3
  <2> HIDE DEF backers
  <2>5. Cardinality(backers) # 0
    BY <1>3, <2>4, FS_EmptySet
  <2>6. Cardinality(backers) >= 1
    BY <1>4, <2>5
  <2> QED BY <1>2, <1>4, <1>9, <2>6 DEF backers
<1> QED BY <1>8, <1>9

\* For every layout of the tree, its thresholds included, what is verified further is
\* backed by threshold authorized functionaries, directly or through verified sublayouts.
THEOREM BackedCorrect == Spec => []ThresholdBacksReduced
<1>1. IInv => ThresholdBacksReduced
  <2> SUFFICES ASSUME IInv PROVE ThresholdBacksReduced
    OBVIOUS
  <2>1. \A i \in DOMAIN stack : Sound(stack[i], returned, log)
    BY DEF IInv, Frames
  <2>2. \A i \in DOMAIN returned : Sound(returned[i].frame, returned, log)
    BY DEF IInv, Past
  <2>3. \A f \in {stack[i] : i \in DOMAIN stack}
                   \cup {returned[i].frame : i \in DOMAIN returned} : Sound(f, returned, log)
    BY <2>1, <2>2
  <2> QED BY <2>3, BackedFrame DEF ThresholdBacksReduced
<1> QED BY <1>1, Invariance, PTL

\* Inspections' links report the artifacts the commands were started on, however commands
\* change the files and whatever ARTIFACT_BASE_PATH the caller has set.
THEOREM CwdCorrect == Spec => []InspectionsReportCwd
<1>1. IInv => InspectionsReportCwd
  <2> SUFFICES ASSUME IInv PROVE InspectionsReportCwd
    OBVIOUS
  <2>1. \A i \in DOMAIN returned : Inspected(returned[i].frame, log)
    BY DEF IInv, Past, Sound
  <2> QED BY <2>1 DEF InspectionsReportCwd, Inspected, StartedOn
<1> QED BY <1>1, Invariance, PTL

\* When verification passes, ARTIFACT_BASE_PATH is what it was.
THEOREM BasePathCorrect == Spec => []BasePathRestored
<1>1. IInv => BasePathRestored
  BY DEF IInv, BasePath, BasePathRestored
<1> QED BY <1>1, Invariance, PTL

-----------------------------------------------------------------------------
(***************************************************************************)
(* Every inspection is run once.  The log is read by link directory, so    *)
(* what has to be shown is that no two verifications have the same one:    *)
(* directories are named by step and shortened keyid, and the path of      *)
(* whatever was verified before leaves the path of the frames on the stack *)
(* at an entry that its frame has dealt with (Passed).                     *)
(***************************************************************************)

\* Two keyids do not begin alike.
ShortDistinct == \A k, l \in Keyids : Short[k] = Short[l] => k = l

\* The directory of the sublayout that is the j-th entry of the i-th step's dict.
Directory(f, i, j) ==
  LET n == f.layout.steps[i].name
  IN  <<n, Short[f.steps_metadata[n].order[j]]>>

Current(f) == Directory(f, f.step, f.key)

Passed(stk, i, path) ==
  LET f == stk[i]
  IN  /\ 1 .. i \subseteq DOMAIN path /\ \A m \in 1 .. i - 1 : path[m] = Current(stk[m])
      /\ f.pc \in LinksChecked
      /\ \E a \in DOMAIN f.layout.steps :
           \E b \in DOMAIN f.steps_metadata[f.layout.steps[a].name].order :
             Visited(f, a, b) /\ path[i] = Directory(f, a, b)

PassedSomewhere(stk, path) == \E i \in DOMAIN stk : Passed(stk, i, path)

\* A frame's directory is named by the entries the frames below it are at.
Placed(stk, i) ==
  LET path == stk[i].link_dir_path
  IN  /\ path \in Seq(Elements(path)) /\ DOMAIN path = 1 .. i - 1
      /\ \A m \in 1 .. i - 1 : path[m] = Current(stk[m])

\* Inspections are run in one phase, one after the other.
Counted(f) ==
  /\ f.inspection <= Len(f.layout.inspect) + 1
  /\ f.pc \notin RulesChecked => f.inspection = 1
  /\ f.pc = "return" => f.inspection = Len(f.layout.inspect) + 1

Started(f) == IF f.pc = "command" THEN f.inspection ELSE f.inspection - 1

Accounted(stk, lg, ret) ==
  /\ \A i \in DOMAIN stk :
       /\ Placed(stk, i) /\ Counted(stk[i])
       /\ RanInOrder(lg, stk[i].link_dir_path, 1 .. Started(stk[i]))
  /\ \A j \in DOMAIN lg :
       LET path == Seqs!Last(lg[j].stack).link_dir_path
       IN  PassedSomewhere(stk, path) \/ \E i \in DOMAIN stk : path = stk[i].link_dir_path
  /\ \A j \in DOMAIN ret : PassedSomewhere(stk, ret[j].frame.link_dir_path)

RunInv ==
  EveryInspectionRan /\ (status = "working" => Accounted(stack, log, returned))


LEMMA DirectoryApart ==
  ASSUME ShortDistinct, NEW f, Typed(f), Filed(f), f.pc \in Loaded
  PROVE  \A a, c \in DOMAIN f.layout.steps :
           \A b \in DOMAIN f.steps_metadata[f.layout.steps[a].name].order :
             \A d \in DOMAIN f.steps_metadata[f.layout.steps[c].name].order :
               Directory(f, a, b) = Directory(f, c, d) => a = c /\ b = d
<1> SUFFICES ASSUME NEW a \in DOMAIN f.layout.steps, NEW c \in DOMAIN f.layout.steps,
                    NEW b \in DOMAIN f.steps_metadata[f.layout.steps[a].name].order,
                    NEW d \in DOMAIN f.steps_metadata[f.layout.steps[c].name].order,
                    Directory(f, a, b) = Directory(f, c, d)
             PROVE  a = c /\ b = d
  OBVIOUS
<1> DEFINE n == f.layout.steps[a].name
           order == f.steps_metadata[n].order
<1>1. n = f.layout.steps[c].name /\ Short[order[b]] = Short[order[d]]
  BY DEF Directory
<1>2. a = c
  <2>1. WellFormed(f.layout)
    BY DEF Typed, Valid
  <2> QED BY <1>1, <2>1 DEF WellFormed, Validated, SubkeysApart
<1>3. Listed(f.steps_metadata[n])
  <2>1. n \in NamesOf(f.layout)
    BY DEF NamesOf
  <2> QED BY <2>1 DEF Filed
<1>4. order \in Seq(Keyids) /\ Distinct(order) /\ d \in DOMAIN order
  BY <1>2, <1>3 DEF Listed
<1> HIDE DEF order
<1>5. order[b] \in Keyids /\ order[d] \in Keyids
  <2>1. b \in DOMAIN order
    BY DEF order
  <2> QED BY <1>4, <2>1, ElementOfSeq, LenProperties
<1>6. order[b] = order[d]
  BY <1>1, <1>5 DEF ShortDistinct
<1>7. b = d
  BY <1>4, <1>6 DEF Distinct, order
<1> QED BY <1>2, <1>7

\* A frame that waits, or is about to enter a sublayout, is at an entry.
Waits(f) ==
  /\ f.pc = "sublayouts" /\ f.step \in DOMAIN f.layout.steps
  /\ f.key \in DOMAIN f.steps_metadata[f.layout.steps[f.step].name].order

LEMMA WaitsBelow ==
  ASSUME Frames, NEW i \in 1 .. Len(stack) - 1
  PROVE  Waits(stack[i])
<1>1. i \in DOMAIN stack /\ i < Len(stack)
  BY StackFacts
<1>2. Delegated(stack[i], stack[i + 1])
  BY <1>1 DEF Frames
<1> QED BY <1>2 DEF Delegated, Entry, Waits

\* Nothing verified before has the directory that waiting frames name.
LEMMA NothingPassed ==
  ASSUME ShortDistinct, Frames, NEW n \in 0 .. Len(stack), \A m \in 1 .. n : Waits(stack[m]),
         NEW path, DOMAIN path = 1 .. n, \A m \in 1 .. n : path[m] = Current(stack[m]),
         NEW i \in DOMAIN stack
  PROVE  ~Passed(stack, i, path)
<1> SUFFICES ASSUME Passed(stack, i, path) PROVE FALSE
  OBVIOUS
<1> DEFINE f == stack[i]
<1>1. Len(stack) \in Nat /\ DOMAIN stack = 1 .. Len(stack) /\ n \in Nat
  BY StackFacts
<1>2. i \in 1 .. n
  BY <1>1 DEF Passed
<1>3. /\ Waits(f) /\ path[i] = Directory(f, f.step, f.key)
  BY <1>2 DEF Current
<1>4. Typed(f) /\ Filed(f) /\ Chained(f)
  BY DEF Frames, Sound
<1>5. PICK a \in DOMAIN f.layout.steps :
        \E b \in DOMAIN f.steps_metadata[f.layout.steps[a].name].order :
          Visited(f, a, b) /\ path[i] = Directory(f, a, b)
  BY DEF Passed
<1>6. PICK b \in DOMAIN f.steps_metadata[f.layout.steps[a].name].order :
        Visited(f, a, b) /\ path[i] = Directory(f, a, b)
  BY <1>5
<1> HIDE DEF f
<1>7. f.pc \in Loaded /\ f.pc \in LinksChecked
  BY <1>3 DEF Waits, LinksChecked, Loaded, Unexpired, Phases
<1>8. /\ f.step \in DOMAIN f.layout.steps
      /\ f.key \in DOMAIN f.steps_metadata[f.layout.steps[f.step].name].order
      /\ f.step \in Nat /\ f.key \in Nat
  BY <1>3, <1>4, <1>7 DEF Waits, Chained
<1>9. Directory(f, a, b) = Directory(f, f.step, f.key)
  BY <1>3, <1>6, Zenon
<1>10. a = f.step /\ b = f.key
  <2>1. \A x, y \in DOMAIN f.layout.steps :
          \A u \in DOMAIN f.steps_metadata[f.layout.steps[x].name].order :
            \A v \in DOMAIN f.steps_metadata[f.layout.steps[y].name].order :
              Directory(f, x, u) = Directory(f, y, v) => x = y /\ u = v
    BY <1>4, <1>7, DirectoryApart
  <2>2. \A u \in DOMAIN f.steps_metadata[f.layout.steps[a].name].order :
          \A v \in DOMAIN f.steps_metadata[f.layout.steps[f.step].name].order :
            Directory(f, a, u) = Directory(f, f.step, v) => a = f.step /\ u = v
    BY <1>8, <2>1, Zenon
  <2>3. Directory(f, a, b) = Directory(f, f.step, f.key) => a = f.step /\ b = f.key
    BY <1>8, <2>2, Zenon
  <2> QED BY <1>9, <2>3, Zenon
<1>11. a < f.step \/ b < f.key
  BY <1>3, <1>6 DEF Visited, Waits
<1> QED BY <1>8, <1>10, <1>11

\* Nor that of a frame on the stack.
LEMMA FramesUnpassed ==
  ASSUME ShortDistinct, IInv, Accounted(stack, log, returned), NEW i \in DOMAIN stack
  PROVE  ~PassedSomewhere(stack, stack[i].link_dir_path)
<1>1. Frames /\ Len(stack) \in Nat /\ DOMAIN stack = 1 .. Len(stack)
  BY StackFacts DEF IInv
<1>2. i - 1 \in 0 .. Len(stack)
  BY <1>1
<1>3. \A m \in 1 .. i - 1 : Waits(stack[m])
  <2> TAKE m \in 1 .. i - 1
  <2>1. m \in 1 .. Len(stack) - 1
    BY <1>1
  <2> QED BY <1>1, <2>1, WaitsBelow
<1>4. Placed(stack, i)
  BY DEF Accounted
<1>5. ASSUME NEW j \in DOMAIN stack PROVE ~Passed(stack, j, stack[i].link_dir_path)
  <2> DEFINE n == i - 1
             path == stack[i].link_dir_path
  <2>1. /\ n \in 0 .. Len(stack) /\ \A m \in 1 .. n : Waits(stack[m])
        /\ DOMAIN path = 1 .. n /\ \A m \in 1 .. n : path[m] = Current(stack[m])
    BY <1>2, <1>3, <1>4 DEF Placed
  <2> HIDE DEF n, path
  <2>2. ~Passed(stack, j, path)
    BY <1>1, <2>1, NothingPassed
  <2> QED BY <2>2 DEF path
<1> QED BY <1>5 DEF PassedSomewhere

\* Frames on the stack have different directories.
LEMMA FramesApart ==
  ASSUME IInv, Accounted(stack, log, returned), NEW i \in DOMAIN stack, NEW j \in DOMAIN stack,
         stack[i].link_dir_path = stack[j].link_dir_path
  PROVE  i = j
<1>1. Len(stack) \in Nat /\ DOMAIN stack = 1 .. Len(stack)
  BY StackFacts DEF IInv
<1>2. 1 .. i - 1 = 1 .. j - 1
  BY DEF Accounted, Placed
<1> QED BY <1>1, <1>2

\* f is the frame g further on.
Advances(f, g) ==
  /\ f.link_dir_path = g.link_dir_path /\ Counted(f)
  /\ g.pc \in LinksChecked =>
       /\ f.pc \in LinksChecked
       /\ f.layout = g.layout /\ f.steps_metadata = g.steps_metadata
       /\ \A a \in DOMAIN g.layout.steps :
            \A b \in DOMAIN g.steps_metadata[g.layout.steps[a].name].order :
              Visited(g, a, b) => Visited(f, a, b)

\* What has been passed stays so while the n-th frame goes on.
LEMMA PassedStays ==
  ASSUME NEW stk, NEW stk2, NEW n \in Nat, \A i \in 1 .. n - 1 : stk2[i] = stk[i],
         Advances(stk2[n], stk[n]), NEW i \in 1 .. n, NEW path, Passed(stk, i, path)
  PROVE  Passed(stk2, i, path)
<1>1. \A m \in 1 .. i - 1 : stk2[m] = stk[m]
  BY Z3
<1>2. CASE i < n
  <2>1. stk2[i] = stk[i]
    BY <1>2
  <2> QED BY <1>1, <2>1 DEF Passed
<1>3. CASE i = n
  <2> DEFINE f == stk2[i]
             g == stk[i]
  <2>1. Advances(f, g) /\ g.pc \in LinksChecked
    BY <1>3 DEF Passed
  <2>2. \A a, b : Directory(f, a, b) = Directory(g, a, b)
    BY <2>1 DEF Directory, Advances
  <2>3. /\ 1 .. i \subseteq DOMAIN path /\ \A m \in 1 .. i - 1 : path[m] = Current(stk[m])
        /\ \E a \in DOMAIN g.layout.steps :
             \E b \in DOMAIN g.steps_metadata[g.layout.steps[a].name].order :
               Visited(g, a, b) /\ path[i] = Directory(g, a, b)
    BY DEF Passed
  <2>4. \A m \in 1 .. i - 1 : path[m] = Current(stk2[m])
    BY <1>1, <2>3
  <2> HIDE DEF f, g
  <2>5. /\ f.pc \in LinksChecked
        /\ \E a \in DOMAIN f.layout.steps :
             \E b \in DOMAIN f.steps_metadata[f.layout.steps[a].name].order :
               Visited(f, a, b) /\ path[i] = Directory(f, a, b)
    BY <2>1, <2>2, <2>3 DEF Advances
  <2> QED BY <2>3, <2>4, <2>5 DEF Passed, f
<1> QED BY <1>2, <1>3

\* So do the frames' places.
LEMMA FramesStay ==
  ASSUME NEW stk, NEW stk2, NEW n \in Nat, \A i \in 1 .. n - 1 : stk2[i] = stk[i],
         Advances(stk2[n], stk[n]), NEW i \in 1 .. n, Placed(stk, i), Counted(stk[i])
  PROVE  /\ stk2[i].link_dir_path = stk[i].link_dir_path
         /\ Placed(stk2, i) /\ Counted(stk2[i])
<1>1. \A m \in 1 .. i - 1 : stk2[m] = stk[m]
  BY Z3
<1>2. CASE i < n
  <2>1. stk2[i] = stk[i]
    BY <1>2
  <2> QED BY <1>1, <2>1 DEF Placed
<1>3. CASE i = n
  <2>1. stk2[i].link_dir_path = stk[i].link_dir_path /\ Counted(stk2[i])
    BY <1>3 DEF Advances
  <2> QED BY <1>1, <2>1 DEF Placed
<1> QED BY <1>2, <1>3

\* A command started for another directory changes nothing here.
LEMMA RanElsewhere ==
  ASSUME NEW lg, lg \in Seq(Elements(lg)), NEW e, NEW path, NEW ran,
         RanInOrder(lg, path, ran), Seqs!Last(e.stack).link_dir_path # path
  PROVE  RanInOrder(Append(lg, e), path, ran)
<1> DEFINE lg2 == Append(lg, e)
           own(l) == {j \in DOMAIN l : Seqs!Last(l[j].stack).link_dir_path = path}
           started(l, j) == Seqs!Last(l[j].stack).inspection
<1>1. /\ DOMAIN lg = 1 .. Len(lg) /\ DOMAIN lg2 = 1 .. Len(lg) + 1 /\ Len(lg) \in Nat
      /\ \A j \in DOMAIN lg : lg2[j] = lg[j]
      /\ lg2[Len(lg) + 1] = e
  BY AppendKeeps
<1> HIDE DEF lg2
<1>2. own(lg2) = own(lg)
  BY <1>1
<1>3. \A j \in own(lg) : started(lg2, j) = started(lg, j)
  BY <1>1
<1>4. /\ {started(lg, j) : j \in own(lg)} = ran
      /\ \A j, k \in own(lg) : j < k => started(lg, j) < started(lg, k)
  BY DEF RanInOrder
<1> HIDE DEF own, started
<1>5. /\ {started(lg2, j) : j \in own(lg2)} = ran
      /\ \A j, k \in own(lg2) : j < k => started(lg2, j) < started(lg2, k)
  BY <1>2, <1>3, <1>4
<1> QED BY <1>5 DEF RanInOrder, own, started, lg2

\* The next command of a layout is the next in order.
LEMMA RanNext ==
  ASSUME NEW lg, lg \in Seq(Elements(lg)), NEW e, NEW path, NEW n \in Nat,
         RanInOrder(lg, path, 1 .. n), Seqs!Last(e.stack).link_dir_path = path,
         Seqs!Last(e.stack).inspection = n + 1
  PROVE  RanInOrder(Append(lg, e), path, 1 .. n + 1)
<1> DEFINE lg2 == Append(lg, e)
           own(l) == {j \in DOMAIN l : Seqs!Last(l[j].stack).link_dir_path = path}
           started(l, j) == Seqs!Last(l[j].stack).inspection
           last == Len(lg) + 1
<1>1. /\ DOMAIN lg = 1 .. Len(lg) /\ DOMAIN lg2 = 1 .. last /\ Len(lg) \in Nat
      /\ \A j \in DOMAIN lg : lg2[j] = lg[j]
      /\ lg2[last] = e
  BY AppendKeeps
<1> HIDE DEF lg2
<1>2. own(lg2) = own(lg) \cup {last} /\ last \notin own(lg)
  BY <1>1
<1>3. \A j \in own(lg) : started(lg2, j) = started(lg, j) /\ j < last
  BY <1>1
<1>4. started(lg2, last) = n + 1
  BY <1>1
<1>5. /\ {started(lg, j) : j \in own(lg)} = 1 .. n
      /\ \A j, k \in own(lg) : j < k => started(lg, j) < started(lg, k)
  BY DEF RanInOrder
<1>6. \A j \in own(lg2) : j \in Nat
  BY <1>1
<1> HIDE DEF own, started
<1>7. \A j \in own(lg) : started(lg, j) \in 1 .. n
  BY <1>5
<1>8. {started(lg2, j) : j \in own(lg2)} = 1 .. n + 1
  <2>1. {started(lg2, j) : j \in own(lg2)} = {started(lg2, j) : j \in own(lg)} \cup {n + 1}
    BY <1>2, <1>4
  <2>2. {started(lg2, j) : j \in own(lg)} = 1 .. n
    BY <1>3, <1>5
  <2>3. 1 .. n + 1 = 1 .. n \cup {n + 1}
    OBVIOUS
  <2> QED BY <2>1, <2>2, <2>3
<1>9. ASSUME NEW j \in own(lg2), NEW k \in own(lg2), j < k
      PROVE  started(lg2, j) < started(lg2, k)
  <2>1. j \in own(lg)
    <3>1. j # last
      <4> SUFFICES ASSUME j = last PROVE FALSE
        OBVIOUS
      <4>1. k = last \/ k < last
        BY <1>2, <1>3
      <4> QED BY <1>1, <1>6, <1>9, <4>1
    <3> QED BY <1>2, <3>1
  <2>2. CASE k = last
    <3>1. started(lg2, j) \in 1 .. n
      BY <1>3, <1>7, <2>1
    <3> QED BY <1>4, <2>2, <3>1
  <2>3. CASE k # last
    <3>1. k \in own(lg)
      BY <1>2, <2>3
    <3> QED BY <1>3, <1>5, <1>9, <2>1, <3>1
  <2> QED BY <2>2, <2>3
<1> QED BY <1>8, <1>9 DEF RanInOrder, own, started, lg2

\* No command has been started for a new directory.
LEMMA RanNone ==
  ASSUME NEW lg, NEW path, \A j \in DOMAIN lg : Seqs!Last(lg[j].stack).link_dir_path # path
  PROVE  RanInOrder(lg, path, 1 .. 0)
<1> DEFINE own == {j \in DOMAIN lg : Seqs!Last(lg[j].stack).link_dir_path = path}
           started(j) == Seqs!Last(lg[j].stack).inspection
<1>1. own = {} /\ 1 .. 0 = {}
  OBVIOUS
<1> HIDE DEF own, started
<1>2. /\ {started(j) : j \in own} = 1 .. 0
      /\ \A j, k \in own : j < k => started(j) < started(k)
  BY <1>1
<1> QED BY <1>2 DEF RanInOrder, own, started

LEMMA RanStays ==
  ASSUME EveryInspectionRan, UNCHANGED <<log, returned>>
  PROVE  EveryInspectionRan'
BY DEF EveryInspectionRan

LEMMA RaiseRun ==
  ASSUME RunInv, status' # "working", UNCHANGED <<log, returned>>
  PROVE  RunInv'
BY RanStays DEF RunInv

\* The innermost frame goes on.
LEMMA OnwardRun ==
  ASSUME IInv, RunInv, status = "working", NEW f, Becomes(f), Advances(f, Top),
         Started(f) = Started(Top), UNCHANGED <<log, returned>>
  PROVE  RunInv'
<1> DEFINE n == Len(stack)
<1>1. /\ n \in Nat /\ DOMAIN stack = 1 .. n /\ DOMAIN stack' = 1 .. n
      /\ stack'[n] = f /\ stack[n] = Top
      /\ \A i \in 1 .. n - 1 : stack'[i] = stack[i]
  <2>1. /\ n \in Nat \ {0} /\ DOMAIN stack = 1 .. n /\ DOMAIN stack' = DOMAIN stack
        /\ stack'[n] = f /\ \A i \in DOMAIN stack : i # n => stack'[i] = stack[i]
    BY StackFacts, BecomesFacts DEF IInv
  <2> HIDE DEF n
  <2>2. \A i \in 1 .. n - 1 : i \in 1 .. n /\ i # n
    BY <2>1
  <2> QED BY <2>1, <2>2 DEF Top, n
<1>2. Advances(stack'[n], stack[n])
  BY <1>1
<1>3. Accounted(stack, log, returned)
  BY DEF RunInv
<1> HIDE DEF n
<1>4. \A path : PassedSomewhere(stack, path) => PassedSomewhere(stack', path)
  <2> SUFFICES ASSUME NEW path, NEW i \in 1 .. n, Passed(stack, i, path)
               PROVE  Passed(stack', i, path)
    BY <1>1 DEF PassedSomewhere
  <2> QED BY <1>1, <1>2, PassedStays
<1>5. ASSUME NEW i \in 1 .. n
      PROVE  /\ stack'[i].link_dir_path = stack[i].link_dir_path
             /\ Placed(stack', i) /\ Counted(stack'[i])
             /\ RanInOrder(log, stack'[i].link_dir_path, 1 .. Started(stack'[i]))
  <2>1. /\ Placed(stack, i) /\ Counted(stack[i])
        /\ RanInOrder(log, stack[i].link_dir_path, 1 .. Started(stack[i]))
    BY <1>1, <1>3 DEF Accounted
  <2>2. /\ stack'[i].link_dir_path = stack[i].link_dir_path
        /\ Placed(stack', i) /\ Counted(stack'[i])
    BY <1>1, <1>2, <2>1, FramesStay
  <2>3. Started(stack'[i]) = Started(stack[i])
    BY <1>1
  <2> QED BY <2>1, <2>2, <2>3
<1>6. Accounted(stack', log, returned)
  BY <1>1, <1>3, <1>4, <1>5 DEF Accounted
<1>7. EveryInspectionRan'
  BY RanStays DEF RunInv
<1> QED BY <1>6, <1>7 DEF RunInv

\* A phase without inspections ends or goes on.
LEMMA QuietRun ==
  ASSUME IInv, IInv', RunInv, status = "working", NEW f, Proceed(f), OnStack,
         f.link_dir_path = Top.link_dir_path, f.inspection = Top.inspection,
         Top.pc \notin RulesChecked, f.pc \notin {"command", "return"},
         Top.pc \in LinksChecked =>
           /\ f.pc \in LinksChecked
           /\ f.layout = Top.layout /\ f.steps_metadata = Top.steps_metadata
           /\ \A a \in DOMAIN Top.layout.steps :
                \A b \in DOMAIN Top.steps_metadata[Top.layout.steps[a].name].order :
                  Visited(Top, a, b) => Visited(f, a, b)
  PROVE  RunInv'
<1>1. Becomes(f) /\ UNCHANGED <<log, returned>>
  BY DEF Proceed, OnStack, history
<1>2. f.inspection = 1
  <2>1. Counted(Top)
    <3>1. Len(stack) \in DOMAIN stack
      BY StackFacts DEF IInv
    <3> QED BY <3>1 DEF RunInv, Accounted, Top
  <2> QED BY <2>1 DEF Counted
<1>3. Len(f.layout.inspect) \in Nat
  <2>1. stack'[Len(stack)] = f /\ Len(stack) \in DOMAIN stack'
    BY <1>1, StackFacts, BecomesFacts DEF IInv
  <2>2. Valid(f.layout)
    BY <2>1 DEF IInv, Frames, Sound, Typed
  <2> QED BY <2>2, LayoutFacts
<1>4. Counted(f)
  BY <1>2, <1>3 DEF Counted
<1>5. Started(f) = Started(Top)
  BY DEF Started, RulesChecked
<1>6. Advances(f, Top)
  BY <1>4 DEF Advances
<1> QED BY <1>1, <1>5, <1>6, OnwardRun

LEMMA VerifyLayoutSignaturesRun == ASSUME IInv, IInv', RunInv, VerifyLayoutSignatures PROVE RunInv'
<1> DEFINE f == [Top EXCEPT !.pc = "expiration"]
<1>1. /\ status = "working" /\ Top.pc = "layout signatures" /\ OnStack
      /\ \/ Proceed(f) \/ Raise("FormatError")
         \/ Raise("SignatureVerificationError") \/ Raise("ValueError")
  BY DEF VerifyLayoutSignatures, At
<1>2. UNCHANGED <<log, returned>>
  BY <1>1 DEF OnStack, history
<1>3. CASE Proceed(f)
  <2>1. /\ f.pc = "expiration" /\ f.link_dir_path = Top.link_dir_path
        /\ f.inspection = Top.inspection
        /\ f.layout = Top.layout /\ f.steps_metadata = Top.steps_metadata
    BY TopFacts DEF Fields
  <2> HIDE DEF f
  <2>2. /\ Top.pc \notin LinksChecked /\ Top.pc \notin RulesChecked
        /\ f.pc \notin {"command", "return"}
    BY <1>1, <2>1 DEF LinksChecked, Loaded, Unexpired, RulesChecked
  <2> QED BY <1>1, <1>3, <2>1, <2>2, QuietRun
<1>4. CASE Raise("FormatError") \/ Raise("SignatureVerificationError") \/ Raise("ValueError")
  BY <1>2, <1>4, RaiseRun DEF Raise
<1> QED BY <1>1, <1>3, <1>4

LEMMA VerifyExpirationRun == ASSUME IInv, IInv', RunInv, VerifyExpiration PROVE RunInv'
<1> DEFINE f == [Top EXCEPT !.pc = "substitution"]
<1>1. /\ status = "working" /\ Top.pc = "expiration" /\ OnStack
      /\ Proceed(f) \/ Raise("LayoutExpiredError")
  BY DEF VerifyExpiration, At
<1>2. UNCHANGED <<log, returned>>
  BY <1>1 DEF OnStack, history
<1>3. CASE Proceed(f)
  <2>1. /\ f.pc = "substitution" /\ f.link_dir_path = Top.link_dir_path
        /\ f.inspection = Top.inspection
        /\ f.layout = Top.layout /\ f.steps_metadata = Top.steps_metadata
    BY TopFacts DEF Fields
  <2> HIDE DEF f
  <2>2. /\ Top.pc \notin LinksChecked /\ Top.pc \notin RulesChecked
        /\ f.pc \notin {"command", "return"}
    BY <1>1, <2>1 DEF LinksChecked, Loaded, Unexpired, RulesChecked
  <2> QED BY <1>1, <1>3, <2>1, <2>2, QuietRun
<1>4. CASE Raise("LayoutExpiredError")
  BY <1>2, <1>4, RaiseRun DEF Raise
<1> QED BY <1>1, <1>3, <1>4

LEMMA VerifyConstraintsRun == ASSUME IInv, IInv', RunInv, VerifyConstraints PROVE RunInv'
<1> DEFINE f == [Top EXCEPT !.pc = "reduce"]
<1>1. /\ status = "working" /\ Top.pc = "constraints" /\ OnStack
      /\ Proceed(f) \/ Raise("ThresholdVerificationError")
  BY DEF VerifyConstraints, At
<1>2. UNCHANGED <<log, returned>>
  BY <1>1 DEF OnStack, history
<1>3. CASE Proceed(f)
  <2>1. /\ f.pc = "reduce" /\ f.link_dir_path = Top.link_dir_path
        /\ f.inspection = Top.inspection
        /\ f.layout = Top.layout /\ f.steps_metadata = Top.steps_metadata
    BY TopFacts DEF Fields
  <2> HIDE DEF f
  <2>2. f.pc \in LinksChecked /\ \A a, b : Visited(f, a, b)
    BY <2>1 DEF LinksChecked, Loaded, Unexpired, Phases, Visited
  <2>3. Top.pc \notin RulesChecked /\ f.pc \notin {"command", "return"}
    BY <1>1, <2>1 DEF RulesChecked
  <2> QED BY <1>1, <1>3, <2>1, <2>2, <2>3, QuietRun
<1>4. CASE Raise("ThresholdVerificationError")
  BY <1>2, <1>4, RaiseRun DEF Raise
<1> QED BY <1>1, <1>3, <1>4

LEMMA VerifyStepRulesRun == ASSUME IInv, IInv', RunInv, VerifyStepRules PROVE RunInv'
<1> DEFINE f == [Top EXCEPT !.pc = "inspections"]
<1>1. /\ status = "working" /\ Top.pc = "step rules" /\ OnStack
      /\ Proceed(f) \/ Raise("RuleVerificationError")
  BY DEF VerifyStepRules, At
<1>2. UNCHANGED <<log, returned>>
  BY <1>1 DEF OnStack, history
<1>3. CASE Proceed(f)
  <2>1. /\ f.pc = "inspections" /\ f.link_dir_path = Top.link_dir_path
        /\ f.inspection = Top.inspection
        /\ f.layout = Top.layout /\ f.steps_metadata = Top.steps_metadata
    BY TopFacts DEF Fields
  <2> HIDE DEF f
  <2>2. f.pc \in LinksChecked /\ \A a, b : Visited(f, a, b)
    BY <2>1 DEF LinksChecked, Loaded, Unexpired, Phases, Visited
  <2>3. Top.pc \notin RulesChecked /\ f.pc \notin {"command", "return"}
    BY <1>1, <2>1 DEF RulesChecked
  <2> QED BY <1>1, <1>3, <2>1, <2>2, <2>3, QuietRun
<1>4. CASE Raise("RuleVerificationError")
  BY <1>2, <1>4, RaiseRun DEF Raise
<1> QED BY <1>1, <1>3, <1>4

LEMMA SubstituteParametersRun == ASSUME IInv, IInv', RunInv, SubstituteParameters PROVE RunInv'
<1> DEFINE f == [Top EXCEPT !.pc = "load"]
           g == [Top EXCEPT !.pc = "load",
                            !.layout = Format[Top.substitution_parameters][Top.layout]]
<1>1. /\ status = "working" /\ Top.pc = "substitution" /\ OnStack
      /\ Proceed(f) \/ Raise("KeyError") \/ Proceed(g)
  BY DEF SubstituteParameters, At
<1>2. UNCHANGED <<log, returned>>
  BY <1>1 DEF OnStack, history
<1>3. /\ f.pc = "load" /\ f.link_dir_path = Top.link_dir_path /\ f.inspection = Top.inspection
      /\ g.pc = "load" /\ g.link_dir_path = Top.link_dir_path /\ g.inspection = Top.inspection
  BY TopFacts DEF Fields
<1> HIDE DEF f, g
<1>4. /\ Top.pc \notin LinksChecked /\ Top.pc \notin RulesChecked
      /\ f.pc \notin {"command", "return"} /\ g.pc \notin {"command", "return"}
  BY <1>1, <1>3 DEF LinksChecked, Loaded, Unexpired, RulesChecked
<1>5. CASE Proceed(f)
  BY <1>1, <1>3, <1>4, <1>5, QuietRun
<1>6. CASE Proceed(g)
  BY <1>1, <1>3, <1>4, <1>6, QuietRun
<1>7. CASE Raise("KeyError")
  BY <1>2, <1>7, RaiseRun DEF Raise
<1> QED BY <1>1, <1>5, <1>6, <1>7

LEMMA LoadLinksRun == ASSUME IInv, IInv', RunInv, LoadLinks PROVE RunInv'
<1> DEFINE loaded == [n \in NamesOf(Top.layout) |->
                        LoadedFor(Top.layout, StepNamed(Top.layout, n), Top.link_dir_path)]
           f == [Top EXCEPT !.pc = "link signatures", !.steps_metadata = loaded]
<1>1. /\ status = "working" /\ Top.pc = "load" /\ OnStack
      /\ Raise("LinkNotFoundError") \/ Proceed(f)
  BY DEF LoadLinks, At
<1>2. UNCHANGED <<log, returned>>
  BY <1>1 DEF OnStack, history
<1>3. CASE Raise("LinkNotFoundError")
  BY <1>2, <1>3, RaiseRun DEF Raise
<1> HIDE DEF loaded
<1>4. /\ f.pc = "link signatures" /\ f.link_dir_path = Top.link_dir_path
      /\ f.inspection = Top.inspection
  BY TopFacts DEF Fields
<1> HIDE DEF f
<1>5. /\ Top.pc \notin LinksChecked /\ Top.pc \notin RulesChecked
      /\ f.pc \notin {"command", "return"}
  BY <1>1, <1>4 DEF LinksChecked, Loaded, Unexpired, RulesChecked
<1> QED BY <1>1, <1>3, <1>4, <1>5, QuietRun

LEMMA VerifyLinkSignaturesRun == ASSUME IInv, IInv', RunInv, VerifyLinkSignatures PROVE RunInv'
<1> DEFINE dict(st) == Top.steps_metadata[st.name]
           verified == [n \in NamesOf(Top.layout) |->
                          LET st == StepNamed(Top.layout, n)
                          IN  Keeping(dict(st), Verified(Top.layout, st.pubkeys, dict(st)))]
           chain == [n \in NamesOf(Top.layout) |-> EmptyDict]
           f == [Top EXCEPT !.pc = "sublayouts", !.steps_metadata = verified, !.chain = chain]
<1>1. /\ status = "working" /\ Top.pc = "link signatures" /\ OnStack
      /\ Raise("ValueError") \/ Raise("ThresholdVerificationError") \/ Proceed(f)
  BY DEF VerifyLinkSignatures, At
<1>2. UNCHANGED <<log, returned>>
  BY <1>1 DEF OnStack, history
<1>3. CASE Raise("ValueError") \/ Raise("ThresholdVerificationError")
  BY <1>2, <1>3, RaiseRun DEF Raise
<1> HIDE DEF verified, chain
<1>4. /\ f.pc = "sublayouts" /\ f.link_dir_path = Top.link_dir_path
      /\ f.inspection = Top.inspection
  BY TopFacts DEF Fields
<1> HIDE DEF f
<1>5. /\ Top.pc \notin LinksChecked /\ Top.pc \notin RulesChecked
      /\ f.pc \notin {"command", "return"}
  BY <1>1, <1>4 DEF LinksChecked, Loaded, Unexpired, RulesChecked
<1> QED BY <1>1, <1>3, <1>4, <1>5, QuietRun

\* The entry a frame is at is dealt with.
LEMMA EntryTaken ==
  ASSUME NEW g, DOMAIN g = Fields, g.pc = "sublayouts", g.key \in Nat, NEW n, NEW k, NEW payload
  PROVE  LET f == WithEntry(g, n, k, payload)
         IN  /\ f.pc = "sublayouts" /\ f.link_dir_path = g.link_dir_path
             /\ f.inspection = g.inspection /\ f.layout = g.layout
             /\ f.steps_metadata = g.steps_metadata
             /\ f.step = g.step /\ f.key = g.key + 1
BY DEF WithEntry, Fields

LEMMA TakeLinkRun == ASSUME IInv, IInv', RunInv, TakeLink PROVE RunInv'
<1> DEFINE f == WithEntry(Top, ThisStep.name, ThisKeyid, ThisDoc.payload)
<1>1. /\ status = "working" /\ Top.pc = "sublayouts" /\ OnStack /\ Proceed(f)
  BY DEF TakeLink, AtEntry, At
<1>2. /\ Top.pc \in LinksChecked /\ Top.pc \notin RulesChecked /\ Top.pc \notin {"command", "return"}
  BY <1>1 DEF LinksChecked, Loaded, Unexpired, Phases, RulesChecked
<1>3. Top.step \in Nat /\ Top.key \in Nat /\ DOMAIN Top = Fields
  BY <1>2, TopFacts DEF Chained
<1>4. /\ f.pc = "sublayouts" /\ f.link_dir_path = Top.link_dir_path
      /\ f.inspection = Top.inspection /\ f.layout = Top.layout
      /\ f.steps_metadata = Top.steps_metadata
      /\ f.step = Top.step /\ f.key = Top.key + 1
  BY <1>1, <1>3, EntryTaken
<1> HIDE DEF f
<1>5. ASSUME NEW a \in DOMAIN Top.layout.steps,
             NEW b \in DOMAIN Top.steps_metadata[Top.layout.steps[a].name].order,
             Visited(Top, a, b)
      PROVE  Visited(f, a, b)
  <2>1. b \in Nat
    <3>1. Listed(Top.steps_metadata[Top.layout.steps[a].name])
      BY <1>1, <1>2, TopFacts DEF Filed, NamesOf, LinksChecked
    <3> QED BY <3>1, Arithmetic DEF Listed
  <2>2. b < Top.key => b < Top.key + 1
    BY <1>3, <2>1
  <2> QED BY <1>1, <1>4, <1>5, <2>2 DEF Visited
<1> QED BY <1>1, <1>2, <1>4, <1>5, QuietRun

LEMMA NextStepRun == ASSUME IInv, IInv', RunInv, NextStep PROVE RunInv'
<1> DEFINE f == [Top EXCEPT !.step = @ + 1, !.key = 1]
<1>1. /\ status = "working" /\ Top.pc = "sublayouts" /\ OnStack /\ Proceed(f)
      /\ Top.key > Len(ThisDict.order)
  BY DEF NextStep, At
<1>2. /\ Top.pc \in LinksChecked /\ Top.pc \notin RulesChecked /\ Top.pc \notin {"command", "return"}
  BY <1>1 DEF LinksChecked, Loaded, Unexpired, Phases, RulesChecked
<1>3. Top.step \in Nat /\ Top.key \in Nat /\ DOMAIN Top = Fields
  BY <1>2, TopFacts DEF Chained
<1>4. /\ f.pc = "sublayouts" /\ f.link_dir_path = Top.link_dir_path
      /\ f.inspection = Top.inspection /\ f.layout = Top.layout
      /\ f.steps_metadata = Top.steps_metadata
      /\ f.step = Top.step + 1
  BY <1>1, <1>3 DEF Fields
<1> HIDE DEF f
<1>5. ASSUME NEW a \in DOMAIN Top.layout.steps,
             NEW b \in DOMAIN Top.steps_metadata[Top.layout.steps[a].name].order,
             Visited(Top, a, b)
      PROVE  Visited(f, a, b)
  <2>1. a \in Nat
    BY TopFacts, LayoutFacts
  <2>2. a < Top.step \/ a = Top.step
    BY <1>1, <1>5 DEF Visited
  <2>3. a < Top.step + 1
    BY <1>3, <2>1, <2>2
  <2> QED BY <1>4, <2>3 DEF Visited
<1> QED BY <1>1, <1>2, <1>4, <1>5, QuietRun

LEMMA SublayoutsEndRun == ASSUME IInv, IInv', RunInv, SublayoutsEnd PROVE RunInv'
<1> DEFINE f == [Top EXCEPT !.pc = "constraints"]
<1>1. /\ status = "working" /\ Top.pc = "sublayouts" /\ OnStack /\ Proceed(f)
  BY DEF SublayoutsEnd, At
<1>2. /\ f.pc = "constraints" /\ f.link_dir_path = Top.link_dir_path
      /\ f.inspection = Top.inspection
      /\ f.layout = Top.layout /\ f.steps_metadata = Top.steps_metadata
  BY TopFacts DEF Fields
<1> HIDE DEF f
<1>3. f.pc \in LinksChecked /\ \A a, b : Visited(f, a, b)
  BY <1>2 DEF LinksChecked, Loaded, Unexpired, Phases, Visited
<1>4. Top.pc \notin RulesChecked /\ f.pc \notin {"command", "return"}
  BY <1>1, <1>2 DEF RulesChecked
<1> QED BY <1>1, <1>2, <1>3, <1>4, QuietRun

LEMMA ReduceRun == ASSUME IInv, IInv', RunInv, Reduce PROVE RunInv'
<1> DEFINE first == [n \in DOMAIN Top.chain |-> FirstValue(Top.chain[n])]
           f == [Top EXCEPT !.pc = "step rules", !.reduced = first]
<1>1. /\ status = "working" /\ Top.pc = "reduce" /\ OnStack
      /\ Raise("IndexError") \/ Proceed(f)
  BY DEF Reduce, At
<1>2. UNCHANGED <<log, returned>>
  BY <1>1 DEF OnStack, history
<1>3. CASE Raise("IndexError")
  BY <1>2, <1>3, RaiseRun DEF Raise
<1>4. CASE Proceed(f)
  <2>1. /\ f.pc = "step rules" /\ f.link_dir_path = Top.link_dir_path
        /\ f.inspection = Top.inspection
        /\ f.layout = Top.layout /\ f.steps_metadata = Top.steps_metadata
    BY TopFacts DEF Fields
  <2> HIDE DEF f
  <2>2. f.pc \in LinksChecked /\ \A a, b : Visited(f, a, b)
    BY <2>1 DEF LinksChecked, Loaded, Unexpired, Phases, Visited
  <2>3. Top.pc \notin RulesChecked /\ f.pc \notin {"command", "return"}
    BY <1>1, <2>1 DEF RulesChecked
  <2> QED BY <1>1, <1>4, <2>1, <2>2, <2>3, QuietRun
<1> QED BY <1>1, <1>3, <1>4

LEMMA VerifyInspectionRulesRun ==
  ASSUME IInv, IInv', RunInv, VerifyInspectionRules PROVE RunInv'
<1> DEFINE f == [Top EXCEPT !.pc = "return"]
<1>1. /\ status = "working" /\ Top.pc = "inspections" /\ OnStack
      /\ Top.inspection > Len(Top.layout.inspect)
      /\ Raise("RuleVerificationError") \/ Proceed(f)
  BY DEF VerifyInspectionRules, At
<1>2. UNCHANGED <<log, returned>>
  BY <1>1 DEF OnStack, history
<1>3. CASE Raise("RuleVerificationError")
  BY <1>2, <1>3, RaiseRun DEF Raise
<1>4. CASE Proceed(f)
  <2>1. /\ f.pc = "return" /\ f.link_dir_path = Top.link_dir_path
        /\ f.inspection = Top.inspection
        /\ f.layout = Top.layout /\ f.steps_metadata = Top.steps_metadata
    BY TopFacts DEF Fields
  <2> HIDE DEF f
  <2>2. f.pc \in LinksChecked /\ \A a, b : Visited(f, a, b)
    BY <2>1 DEF LinksChecked, Loaded, Unexpired, Phases, Visited
  <2>3. Counted(f)
    <3>1. Counted(Top)
      BY <1>1, StackFacts DEF IInv, RunInv, Accounted, Top
    <3>2. Top.inspection \in Nat /\ Len(Top.layout.inspect) \in Nat
      BY TopFacts, LayoutFacts DEF Typed
    <3>3. Top.inspection = Len(Top.layout.inspect) + 1
      BY <1>1, <3>1, <3>2 DEF Counted
    <3> QED BY <2>1, <3>1, <3>3 DEF Counted, RulesChecked
  <2>4. Advances(f, Top)
    BY <2>1, <2>2, <2>3 DEF Advances
  <2>5. Started(f) = Started(Top)
    BY <1>1, <2>1 DEF Started
  <2>6. Becomes(f)
    BY <1>4 DEF Proceed
  <2> QED BY <1>1, <1>2, <2>4, <2>5, <2>6, OnwardRun
<1> QED BY <1>1, <1>3, <1>4

\* A command that has ended well is counted as it was while it ran.
LEMMA EndInspectionRun == ASSUME IInv, IInv', RunInv, EndInspection PROVE RunInv'
<1> DEFINE name == Inspection.name
           f(products) == [Top EXCEPT !.pc = "inspections", !.inspection = NextInspection,
                             !.inspection_links = With(@, name, LinkOf(Top.materials, products))]
<1>1. PICK end \in Commands[Inspection.run][cwd] :
        \/ end.result = "zero" /\ \E products : Proceed(f(products))
        \/ end.result # "zero" /\ Raise(end.result)
  BY DEF EndInspection
<1>2. status = "working" /\ Top.pc = "command" /\ UNCHANGED <<log, returned>>
  BY DEF EndInspection, At, history
<1>3. /\ Top.inspection \in Nat /\ Len(Top.layout.inspect) \in Nat
      /\ Top.inspection <= Len(Top.layout.inspect)
  BY <1>2, TopFacts, LayoutFacts DEF Typed, Inspected
<1>4. Top.inspection \in DOMAIN Top.layout.inspect
  <2>1. DOMAIN Top.layout.inspect = 1 .. Len(Top.layout.inspect) /\ Top.inspection # 0
    BY TopFacts, LayoutFacts DEF Typed
  <2> QED BY <1>3, <2>1
<1>5. CASE Raise(end.result) /\ end.result # "zero"
  <2>1. end.result # "working"
    <3>1. Inspection.run \in DOMAIN Commands
      BY <1>4, TopFacts, LayoutFacts DEF Inspection
    <3>2. Commands[Inspection.run] \in [Artifacts -> SUBSET Ending] /\ cwd \in Artifacts
      BY <3>1, VerifyAssumption DEF IInv
    <3>3. end \in Ending
      BY <3>2
    <3> QED BY <3>3 DEF Ending
  <2> QED BY <1>2, <1>5, <2>1, RaiseRun DEF Raise
<1>6. CASE \E products : Proceed(f(products))
  <2>1. PICK products : Proceed(f(products))
    BY <1>6
  <2> DEFINE h == f(products)
  <2>2. /\ h.pc = "inspections" /\ h.link_dir_path = Top.link_dir_path
        /\ h.inspection = Top.inspection + 1
        /\ h.layout = Top.layout /\ h.steps_metadata = Top.steps_metadata
    BY TopFacts DEF Fields, NextInspection
  <2>3. Becomes(h)
    BY <2>1 DEF Proceed
  <2> HIDE DEF f
  <2>4. h.pc \in LinksChecked /\ \A a, b : Visited(h, a, b)
    BY <2>2 DEF LinksChecked, Loaded, Unexpired, Phases, Visited
  <2>5. Counted(h)
    BY <1>3, <2>2 DEF Counted, RulesChecked
  <2>6. Started(h) = Started(Top)
    BY <1>2, <1>3, <2>2 DEF Started
  <2>7. Advances(h, Top)
    BY <2>2, <2>4, <2>5 DEF Advances
  <2> QED BY <1>2, <2>3, <2>6, <2>7, OnwardRun
<1> QED BY <1>1, <1>5, <1>6

\* The next command is added to those of the innermost frame and of no other.
LEMMA StartInspectionRun ==
  ASSUME ShortDistinct, IInv, IInv', RunInv, StartInspection PROVE RunInv'
<1> DEFINE f == [Top EXCEPT !.pc = "command", !.base_path_backup = base_path,
                            !.materials = Recorded(base_path')]
           e == [stack |-> stack, cwd |-> cwd]
           n == Len(stack)
<1>1. /\ status = "working" /\ Top.pc = "inspections" /\ Becomes(f) /\ status' = status
      /\ Top.inspection <= Len(Top.layout.inspect)
      /\ log' = Append(log, e) /\ UNCHANGED returned
  BY DEF StartInspection, At, Proceed
<1>2. /\ f.pc = "command" /\ f.link_dir_path = Top.link_dir_path
      /\ f.inspection = Top.inspection
      /\ f.layout = Top.layout /\ f.steps_metadata = Top.steps_metadata
  BY TopFacts DEF Fields
<1>3. Seqs!Last(e.stack) = Top
  BY DEF Seqs!Last, Top
<1> HIDE DEF f, e
<1>4. Accounted(stack, log, returned) /\ EveryInspectionRan
  BY <1>1 DEF RunInv
<1>5. /\ n \in Nat \ {0} /\ DOMAIN stack = 1 .. n /\ DOMAIN stack' = 1 .. n
      /\ stack'[n] = f /\ stack[n] = Top
      /\ \A i \in 1 .. n - 1 : stack'[i] = stack[i]
  <2>1. /\ n \in Nat \ {0} /\ DOMAIN stack = 1 .. n /\ DOMAIN stack' = DOMAIN stack
        /\ stack'[n] = f /\ \A i \in DOMAIN stack : i # n => stack'[i] = stack[i]
    BY <1>1, StackFacts, BecomesFacts DEF IInv
  <2> HIDE DEF n
  <2>2. \A i \in 1 .. n - 1 : i \in 1 .. n /\ i # n
    BY <2>1
  <2> QED BY <2>1, <2>2 DEF Top, n
<1>6. /\ log \in Seq(Elements(log)) /\ Len(log) \in Nat
      /\ DOMAIN log = 1 .. Len(log) /\ DOMAIN log' = 1 .. Len(log) + 1
      /\ \A j \in DOMAIN log : log'[j] = log[j]
      /\ log'[Len(log) + 1] = e
  BY <1>1, AppendKeeps DEF IInv, Past
<1>7. Top.inspection \in Nat \ {0} /\ Len(Top.layout.inspect) \in Nat
  BY TopFacts, LayoutFacts DEF Typed
<1>8. Advances(stack'[n], stack[n])
  <2>1. f.pc \in LinksChecked /\ \A a, b : Visited(f, a, b)
    BY <1>2 DEF LinksChecked, Loaded, Unexpired, Phases, Visited
  <2>2. Counted(f)
    BY <1>1, <1>2, <1>7 DEF Counted, RulesChecked
  <2>3. Advances(f, Top)
    BY <1>2, <2>1, <2>2 DEF Advances
  <2> QED BY <1>5, <2>3
<1> HIDE DEF n
<1>9. \A path : PassedSomewhere(stack, path) => PassedSomewhere(stack', path)
  <2> SUFFICES ASSUME NEW path, NEW i \in 1 .. n, Passed(stack, i, path)
               PROVE  Passed(stack', i, path)
    BY <1>5 DEF PassedSomewhere
  <2> QED BY <1>5, <1>8, PassedStays
<1>10. ASSUME NEW i \in 1 .. n
       PROVE  /\ stack'[i].link_dir_path = stack[i].link_dir_path
              /\ Placed(stack', i) /\ Counted(stack'[i])
              /\ RanInOrder(log', stack'[i].link_dir_path, 1 .. Started(stack'[i]))
  <2>1. /\ Placed(stack, i) /\ Counted(stack[i])
        /\ RanInOrder(log, stack[i].link_dir_path, 1 .. Started(stack[i]))
    BY <1>4, <1>5 DEF Accounted
  <2>2. /\ stack'[i].link_dir_path = stack[i].link_dir_path
        /\ Placed(stack', i) /\ Counted(stack'[i])
    BY <1>5, <1>8, <2>1, FramesStay
  <2>3. CASE i = n
    <3> DEFINE c == Top.inspection - 1
    <3>1. c \in Nat /\ Top.inspection = c + 1 /\ Started(stack[i]) = c
          /\ Started(stack'[i]) = c + 1
      BY <1>1, <1>2, <1>5, <1>7, <2>3 DEF Started
    <3> HIDE DEF c
    <3>2. RanInOrder(log, Top.link_dir_path, 1 .. c)
      BY <1>5, <2>1, <2>3, <3>1
    <3>3. RanInOrder(Append(log, e), Top.link_dir_path, 1 .. c + 1)
      BY <1>3, <1>6, <3>1, <3>2, RanNext
    <3> QED BY <1>1, <1>5, <2>2, <2>3, <3>1, <3>3
  <2>4. CASE i # n
    <3>1. stack'[i] = stack[i]
      <4>1. i \in 1 .. n - 1
        BY <1>5, <2>4
      <4> QED BY <1>5, <4>1
    <3>2. stack[i].link_dir_path # Top.link_dir_path
      <4>1. i \in DOMAIN stack /\ n \in DOMAIN stack
        BY <1>5
      <4> QED BY <1>4, <1>5, <2>4, <4>1, FramesApart
    <3>3. RanInOrder(Append(log, e), stack[i].link_dir_path, 1 .. Started(stack[i]))
      BY <1>3, <1>6, <2>1, <3>2, RanElsewhere
    <3> QED BY <1>1, <2>2, <3>1, <3>3
  <2> QED BY <2>3, <2>4
<1>11. ASSUME NEW j \in DOMAIN log'
       PROVE  LET path == Seqs!Last(log'[j].stack).link_dir_path
              IN  PassedSomewhere(stack', path)
                    \/ \E i \in DOMAIN stack' : path = stack'[i].link_dir_path
  <2>1. CASE j \in DOMAIN log
    <3> DEFINE path == Seqs!Last(log[j].stack).link_dir_path
    <3>1. PassedSomewhere(stack, path) \/ \E i \in DOMAIN stack : path = stack[i].link_dir_path
      BY <1>4, <2>1 DEF Accounted
    <3>2. log'[j] = log[j]
      BY <1>6, <2>1
    <3> HIDE DEF path
    <3>3. PassedSomewhere(stack', path)
            \/ \E i \in DOMAIN stack' : path = stack'[i].link_dir_path
      BY <1>5, <1>9, <1>10, <3>1
    <3> QED BY <3>2, <3>3 DEF path
  <2>2. CASE j \notin DOMAIN log
    <3>1. j = Len(log) + 1
      BY <1>6, <2>2
    <3>2. Seqs!Last(log'[j].stack).link_dir_path = stack'[n].link_dir_path
      BY <1>2, <1>3, <1>5, <1>6, <3>1
    <3>3. n \in DOMAIN stack'
      BY <1>5
    <3> QED BY <3>2, <3>3
  <2> QED BY <2>1, <2>2
<1>12. \A j \in DOMAIN returned' : PassedSomewhere(stack', returned'[j].frame.link_dir_path)
  BY <1>1, <1>4, <1>9 DEF Accounted
<1>13. Accounted(stack', log', returned')
  BY <1>5, <1>10, <1>11, <1>12 DEF Accounted
<1>14. EveryInspectionRan'
  <2> SUFFICES ASSUME NEW i \in DOMAIN returned
               PROVE  RanInOrder(log', returned[i].frame.link_dir_path,
                                 DOMAIN returned[i].frame.layout.inspect)
    BY <1>1 DEF EveryInspectionRan
  <2> DEFINE path == returned[i].frame.link_dir_path
             ran == DOMAIN returned[i].frame.layout.inspect
  <2>1. RanInOrder(log, path, ran)
    BY <1>4 DEF EveryInspectionRan
  <2>2. PassedSomewhere(stack, path)
    BY <1>4 DEF Accounted
  <2>3. ~PassedSomewhere(stack, Top.link_dir_path)
    <3>1. n \in DOMAIN stack
      BY <1>5
    <3> QED BY <1>4, <1>5, <3>1, FramesUnpassed
  <2> HIDE DEF path, ran
  <2>4. Top.link_dir_path # path
    BY <2>2, <2>3
  <2>5. RanInOrder(Append(log, e), path, ran)
    BY <1>3, <1>6, <2>1, <2>4, RanElsewhere
  <2> QED BY <1>1, <2>5 DEF path, ran
<1> QED BY <1>13, <1>14 DEF RunInv

LEMMA AppendPlaced ==
  ASSUME NEW s, s \in Seq(Elements(s)), NEW n, n \in Nat, n # 0, DOMAIN s = 1 .. n - 1, NEW e
  PROVE  /\ Append(s, e) \in Seq(Elements(Append(s, e))) /\ DOMAIN Append(s, e) = 1 .. n
         /\ \A m \in 1 .. n - 1 : Append(s, e)[m] = s[m]
         /\ Append(s, e)[n] = e
<1> DEFINE t == Append(s, e)
<1>1. /\ t \in Seq(Elements(t)) /\ Len(s) \in Nat
      /\ DOMAIN s = 1 .. Len(s) /\ DOMAIN t = 1 .. Len(s) + 1
      /\ \A m \in DOMAIN s : t[m] = s[m]
      /\ t[Len(s) + 1] = e
  BY AppendKeeps
<1> HIDE DEF t
<1>2. Len(s) = n - 1
  BY <1>1
<1>3. Len(s) + 1 = n
  BY <1>2
<1> QED BY <1>1, <1>3 DEF t

\* A sublayout that is entered has a directory of its own.
LEMMA EnterSublayoutRun ==
  ASSUME ShortDistinct, IInv, IInv', RunInv, EnterSublayout PROVE RunInv'
<1> DEFINE path == Append(Top.link_dir_path, <<ThisStep.name, Short[ThisKeyid]>>)
           g == Frame(ThisDoc, SublayoutKeys(Top.layout, ThisKeyid), path,
                      ThisStep.name, NoParams, TRUE)
           n == Len(stack)
<1>1. /\ AtEntry /\ status = "working" /\ stack' = Append(stack, g)
      /\ UNCHANGED <<status, log, returned>>
  BY DEF EnterSublayout, AtEntry, At, OnStack, history
<1>2. g.pc = "layout signatures" /\ g.link_dir_path = path /\ g.inspection = 1
  BY DEF Frame
<1> HIDE DEF g
<1>3. Accounted(stack, log, returned) /\ EveryInspectionRan
  BY <1>1 DEF RunInv
<1>4. /\ n \in Nat /\ n # 0 /\ n \in DOMAIN stack
      /\ DOMAIN stack = 1 .. n /\ DOMAIN stack' = 1 .. n + 1
      /\ \A i \in 1 .. n : stack'[i] = stack[i]
      /\ stack'[n + 1] = g /\ stack[n] = Top
  <2>1. stack \in Seq(Elements(stack)) /\ n \in Nat /\ n # 0 /\ n \in DOMAIN stack
    BY StackFacts DEF IInv, Frames
  <2> QED BY <1>1, <2>1, AppendKeeps DEF Top
<1>5. Waits(Top) /\ <<ThisStep.name, Short[ThisKeyid]>> = Current(Top)
  <2>1. Entry(Top, ThisStep, ThisKeyid)
    BY <1>1, AtEntryFacts
  <2> QED BY <2>1 DEF Entry, Waits, Current, Directory
<1> HIDE DEF n
<1>6. /\ path \in Seq(Elements(path)) /\ DOMAIN path = 1 .. n
      /\ \A m \in 1 .. n : path[m] = Current(stack[m])
  <2> DEFINE above == Top.link_dir_path
             last == <<ThisStep.name, Short[ThisKeyid]>>
  <2>1. /\ above \in Seq(Elements(above)) /\ DOMAIN above = 1 .. n - 1
        /\ \A m \in 1 .. n - 1 : above[m] = Current(stack[m])
    BY <1>3, <1>4 DEF Accounted, Placed
  <2> HIDE DEF above, last
  <2>2. /\ Append(above, last) \in Seq(Elements(Append(above, last)))
        /\ DOMAIN Append(above, last) = 1 .. n
        /\ \A m \in 1 .. n - 1 : Append(above, last)[m] = above[m]
        /\ Append(above, last)[n] = last
    <3>1. above \in Seq(Elements(above)) /\ n \in Nat /\ n # 0 /\ DOMAIN above = 1 .. n - 1
      BY <1>4, <2>1, Zenon
    <3>2. Append(above, last) \in Seq(Elements(Append(above, last)))
      BY <3>1, AppendPlaced
    <3>3. DOMAIN Append(above, last) = 1 .. n /\ Append(above, last)[n] = last
      BY <3>1, AppendPlaced
    <3>4. \A m \in 1 .. n - 1 : Append(above, last)[m] = above[m]
      BY <3>1, AppendPlaced
    <3> QED BY <3>2, <3>3, <3>4
  <2>3. last = Current(stack[n])
    BY <1>4, <1>5 DEF last
  <2>4. \A m \in 1 .. n : Append(above, last)[m] = Current(stack[m])
    <3> TAKE m \in 1 .. n
    <3>1. m = n \/ m \in 1 .. n - 1
      BY <1>4
    <3> QED BY <2>1, <2>2, <2>3, <3>1
  <2> QED BY <2>2, <2>4 DEF above, last
<1> HIDE DEF path
<1>7. \A p : PassedSomewhere(stack, p) => PassedSomewhere(stack', p)
  <2> SUFFICES ASSUME NEW p, NEW i \in 1 .. n, Passed(stack, i, p)
               PROVE  i \in DOMAIN stack' /\ Passed(stack', i, p)
    BY <1>4 DEF PassedSomewhere
  <2>1. \A m \in 1 .. i - 1 : stack'[m] = stack[m]
    <3> TAKE m \in 1 .. i - 1
    <3>1. m \in 1 .. n
      BY <1>4
    <3> QED BY <1>4, <3>1
  <2>2. i \in DOMAIN stack' /\ stack'[i] = stack[i]
    BY <1>4
  <2> QED BY <2>1, <2>2 DEF Passed
<1>8. ASSUME NEW i \in 1 .. n
      PROVE  /\ i \in 1 .. n + 1 /\ stack'[i] = stack[i]
             /\ Placed(stack', i) /\ Counted(stack'[i])
             /\ RanInOrder(log, stack'[i].link_dir_path, 1 .. Started(stack'[i]))
  <2>1. /\ Placed(stack, i) /\ Counted(stack[i])
        /\ RanInOrder(log, stack[i].link_dir_path, 1 .. Started(stack[i]))
    BY <1>3, <1>4 DEF Accounted
  <2>2. i \in 1 .. n + 1 /\ stack'[i] = stack[i]
    BY <1>4
  <2>3. \A m \in 1 .. i - 1 : stack'[m] = stack[m]
    <3> TAKE m \in 1 .. i - 1
    <3>1. m \in 1 .. n
      BY <1>4
    <3> QED BY <1>4, <3>1
  <2> QED BY <2>1, <2>2, <2>3 DEF Placed
<1>9. Placed(stack', n + 1)
  <2>1. (n + 1) - 1 = n
    BY <1>4
  <2> QED BY <1>2, <1>4, <1>6, <2>1 DEF Placed
<1>10. Counted(g)
  <2>1. Len(g.layout.inspect) \in Nat
    <3>1. n + 1 \in DOMAIN stack'
      BY <1>4
    <3>2. Valid(g.layout)
      BY <1>4, <3>1 DEF IInv, Frames, Sound, Typed
    <3> QED BY <3>2, LayoutFacts
  <2>2. 1 <= Len(g.layout.inspect) + 1
    BY <2>1
  <2>3. g.inspection <= Len(g.layout.inspect) + 1
    BY <1>2, <2>2, Zenon
  <2>4. g.pc # "return"
    BY <1>2
  <2> QED BY <1>2, <2>3, <2>4, Zenon DEF Counted
<1>11. RanInOrder(log, path, 1 .. 0)
  <2>1. ASSUME NEW j \in DOMAIN log, Seqs!Last(log[j].stack).link_dir_path = path
        PROVE  FALSE
    <3>1. PassedSomewhere(stack, path) \/ \E i \in DOMAIN stack : path = stack[i].link_dir_path
      BY <1>3, <2>1 DEF Accounted
    <3>2. ASSUME NEW i \in DOMAIN stack, path = stack[i].link_dir_path
          PROVE  FALSE
      <4>1. 1 .. i - 1 = 1 .. n
        BY <1>3, <1>6, <3>2 DEF Accounted, Placed
      <4> QED BY <1>4, <4>1
    <3>3. ASSUME NEW i \in DOMAIN stack, Passed(stack, i, path)
          PROVE  FALSE
      <4>1. Frames /\ n \in 0 .. Len(stack)
        BY <1>4 DEF IInv, n
      <4>2. \A m \in 1 .. n : Waits(stack[m])
        <5> TAKE m \in 1 .. n
        <5>1. m = n \/ m \in 1 .. n - 1
          BY <1>4
        <5> QED BY <1>4, <1>5, <4>1, <5>1, WaitsBelow DEF n
      <4> QED BY <1>6, <3>3, <4>1, <4>2, NothingPassed
    <3> QED BY <3>1, <3>2, <3>3 DEF PassedSomewhere
  <2> QED BY <2>1, RanNone
<1>12. ASSUME NEW i \in 1 .. n + 1
       PROVE  /\ Placed(stack', i) /\ Counted(stack'[i])
              /\ RanInOrder(log, stack'[i].link_dir_path, 1 .. Started(stack'[i]))
  <2>1. CASE i \in 1 .. n
    BY <1>8, <2>1
  <2>2. CASE i = n + 1
    <3>1. Started(g) = 0
      <4>1. Started(g) = g.inspection - 1
        BY <1>2 DEF Started
      <4>2. Started(g) = 1 - 1
        BY <1>2, <4>1, Zenon
      <4> QED BY <4>2
    <3> QED BY <1>2, <1>4, <1>9, <1>10, <1>11, <2>2, <3>1
  <2>3. i \in 1 .. n \/ i = n + 1
    BY <1>4
  <2> QED BY <2>1, <2>2, <2>3
<1>13. Accounted(stack', log', returned')
  <2>1. ASSUME NEW p, PassedSomewhere(stack, p) \/ \E i \in DOMAIN stack : p = stack[i].link_dir_path
        PROVE  PassedSomewhere(stack', p) \/ \E i \in DOMAIN stack' : p = stack'[i].link_dir_path
    BY <1>4, <1>7, <1>8, <2>1
  <2> QED BY <1>1, <1>3, <1>4, <1>7, <1>12, <2>1 DEF Accounted
<1>14. EveryInspectionRan'
  BY <1>1, <1>3, RanStays
<1> QED BY <1>13, <1>14 DEF RunInv

\* The directory of a verification that returns is passed by the frame that waited for it.
LEMMA ReturnRun == ASSUME IInv, IInv', RunInv, Return PROVE RunInv'
<1> DEFINE g == Top
           n == Len(stack)
           summary == SummaryLink(g.layout, g.reduced)
<1>1. /\ status = "working" /\ g.pc = "return"
      /\ returned' = Append(returned, [frame |-> g, summary |-> summary])
      /\ UNCHANGED log
  BY DEF Return, At
<1>2. Accounted(stack, log, returned) /\ EveryInspectionRan
  BY <1>1 DEF RunInv
<1>3. /\ n \in Nat /\ n # 0 /\ DOMAIN stack = 1 .. n /\ n \in DOMAIN stack /\ stack[n] = g
  BY StackFacts DEF IInv, Top
<1>4. /\ Len(returned) \in Nat /\ DOMAIN returned = 1 .. Len(returned)
      /\ DOMAIN returned' = 1 .. Len(returned) + 1
      /\ \A i \in DOMAIN returned : returned'[i] = returned[i]
      /\ returned'[Len(returned) + 1].frame = g
  <2> DEFINE r == [frame |-> g, summary |-> summary]
  <2>1. r.frame = g
    OBVIOUS
  <2> HIDE DEF r, g
  <2>2. returned' = Append(returned, r)
    BY <1>1 DEF r
  <2>3. returned \in Seq(Elements(returned))
    BY DEF IInv, Past
  <2> QED BY <2>1, <2>2, <2>3, AppendKeeps
<1>5. Counted(g) /\ RanInOrder(log, g.link_dir_path, 1 .. Started(g)) /\ Placed(stack, n)
  BY <1>2, <1>3 DEF Accounted
<1>6. RanInOrder(log, g.link_dir_path, DOMAIN g.layout.inspect)
  <2>1. /\ Len(g.layout.inspect) \in Nat
        /\ DOMAIN g.layout.inspect = 1 .. Len(g.layout.inspect)
    BY TopFacts, LayoutFacts
  <2>2. g.inspection = Len(g.layout.inspect) + 1
    BY <1>1, <1>5 DEF Counted
  <2>3. Started(g) = g.inspection - 1
    BY <1>1 DEF Started
  <2>4. Started(g) = Len(g.layout.inspect)
    BY <2>1, <2>2, <2>3
  <2> QED BY <1>5, <2>1, <2>4, Zenon
<1>7. EveryInspectionRan'
  <2> SUFFICES ASSUME NEW i \in DOMAIN returned'
               PROVE  RanInOrder(log, returned'[i].frame.link_dir_path,
                                 DOMAIN returned'[i].frame.layout.inspect)
    BY <1>1 DEF EveryInspectionRan
  <2>1. CASE i \in DOMAIN returned
    BY <1>2, <1>4, <2>1 DEF EveryInspectionRan
  <2>2. CASE i \notin DOMAIN returned
    <3>1. i = Len(returned) + 1
      BY <1>4, <2>2
    <3> HIDE DEF g
    <3> QED BY <1>4, <1>6, <3>1
  <2> QED BY <2>1, <2>2
<1>8. CASE n = 1
  <2>1. status' = "passed"
    BY <1>8 DEF Return
  <2> QED BY <1>7, <2>1 DEF RunInv
<1>9. CASE n # 1
  <2> DEFINE f == stack[n - 1]
             st == f.layout.steps[f.step]
             k == f.steps_metadata[st.name].order[f.key]
             h == WithEntry(f, st.name, k, summary)
             p == n - 1
  <2>1. stack' = Append(SubSeq(stack, 1, n - 2), h)
    BY <1>9 DEF Return
  <2>2. /\ p \in Nat /\ p # 0 /\ p \in 1 .. n /\ p + 1 = n /\ n - 2 = p - 1
        /\ p \in 1 .. Len(stack) - 1
    <3> HIDE DEF n
    <3>1. p \in Nat /\ p # 0 /\ p \in 1 .. n /\ p + 1 = n /\ n - 2 = p - 1 /\ p \in 1 .. n - 1
      BY <1>3, <1>9
    <3> QED BY <3>1 DEF n
  <2>3. Waits(f)
    BY <2>2, WaitsBelow DEF IInv
  <2>4. Sound(f, returned, log)
    BY <1>3, <2>2 DEF IInv, Frames
  <2>5. /\ f.step \in Nat /\ f.key \in Nat /\ DOMAIN f = Fields /\ f.pc = "sublayouts"
        /\ f.pc \in LinksChecked
    <3>1. f.pc = "sublayouts" /\ f.pc \in LinksChecked
      BY <2>3 DEF Waits, LinksChecked, Loaded, Unexpired, Phases
    <3> HIDE DEF f
    <3> QED BY <2>4, <3>1 DEF Sound, Typed, Chained
  <2> HIDE DEF g, f, summary, n
  <2>6. /\ h.pc = "sublayouts" /\ h.link_dir_path = f.link_dir_path
        /\ h.inspection = f.inspection /\ h.layout = f.layout
        /\ h.steps_metadata = f.steps_metadata
        /\ h.step = f.step /\ h.key = f.key + 1
    <3> HIDE DEF st, k
    <3> QED BY <2>5, EntryTaken
  <2> HIDE DEF h, st, k
  <2>7. /\ DOMAIN stack' = 1 .. p /\ stack'[p] = h
        /\ \A i \in 1 .. p - 1 : stack'[i] = stack[i]
    <3>1. Frames
      BY DEF IInv
    <3> QED BY <1>9, <2>1, <2>2, <3>1, PopFacts DEF n
  <2>8. Placed(stack, p) /\ Counted(f)
    BY <1>2, <1>3, <2>2 DEF Accounted, f
  <2>9. \A a, b : Visited(f, a, b) /\ b \in Nat => Visited(h, a, b)
    <3>1. \A b \in Nat : b < f.key => b < f.key + 1
      BY <2>5
    <3> QED BY <2>5, <2>6, <3>1 DEF Visited
  <2>10. Advances(h, f)
    <3>1. ASSUME NEW a \in DOMAIN f.layout.steps,
                 NEW b \in DOMAIN f.steps_metadata[f.layout.steps[a].name].order,
                 Visited(f, a, b)
          PROVE  Visited(h, a, b)
      <4>1. Listed(f.steps_metadata[f.layout.steps[a].name])
        BY <2>4, <2>5 DEF Sound, Filed, NamesOf, LinksChecked
      <4>2. b \in Nat
        BY <4>1, Arithmetic DEF Listed
      <4> QED BY <2>9, <3>1, <4>2
    <3>2. Counted(h) /\ h.pc \in LinksChecked
      BY <2>5, <2>6, <2>8 DEF Counted
    <3> QED BY <2>6, <3>1, <3>2 DEF Advances
  <2>11. Advances(stack'[p], stack[p])
    BY <2>7, <2>10 DEF f
  \* A path through the entry that f has been at.
  <2>12. ASSUME NEW path, 1 .. p \subseteq DOMAIN path,
                \A m \in 1 .. p : path[m] = Current(stack[m])
         PROVE  Passed(stack', p, path)
    <3>1. \A m \in 1 .. p - 1 : path[m] = Current(stack'[m])
      <4> TAKE m \in 1 .. p - 1
      <4>1. m \in 1 .. p
        BY <2>2
      <4> QED BY <2>7, <2>12, <4>1
    <3>2. h.pc \in LinksChecked
      BY <2>5, <2>6
    <3>3. path[p] = Directory(h, f.step, f.key)
      <4>1. path[p] = Directory(f, f.step, f.key)
        BY <2>2, <2>12 DEF Current, f
      <4> QED BY <2>6, <4>1 DEF Directory
    <3>4. Visited(h, f.step, f.key)
      <4>1. f.key < f.key + 1
        BY <2>5
      <4> QED BY <2>6, <4>1 DEF Visited
    <3>5. /\ f.step \in DOMAIN h.layout.steps
          /\ f.key \in DOMAIN h.steps_metadata[h.layout.steps[f.step].name].order
      BY <2>3, <2>6 DEF Waits
    <3> QED BY <2>7, <2>12, <3>1, <3>2, <3>3, <3>4, <3>5 DEF Passed
  <2>13. \A path : PassedSomewhere(stack, path) => PassedSomewhere(stack', path)
    <3> SUFFICES ASSUME NEW path, NEW i \in 1 .. n, Passed(stack, i, path)
                 PROVE  PassedSomewhere(stack', path)
      BY <1>3 DEF PassedSomewhere
    <3>1. CASE i \in 1 .. p
      <4>1. Passed(stack', i, path)
        BY <2>2, <2>7, <2>11, <3>1, PassedStays
      <4> QED BY <2>7, <3>1, <4>1 DEF PassedSomewhere
    <3>2. CASE i = n
      <4>1. 1 .. n \subseteq DOMAIN path /\ \A m \in 1 .. n - 1 : path[m] = Current(stack[m])
        BY <3>2 DEF Passed
      <4>2. 1 .. p \subseteq 1 .. n
        BY <2>2
      <4>3. Passed(stack', p, path)
        BY <2>12, <4>1, <4>2
      <4>4. p \in DOMAIN stack'
        BY <2>2, <2>7
      <4> QED BY <4>3, <4>4 DEF PassedSomewhere
    <3>3. i \in 1 .. p \/ i = n
      BY <2>2
    <3> QED BY <3>1, <3>2, <3>3
  <2>14. PassedSomewhere(stack', g.link_dir_path)
    <3>1. Placed(stack, n)
      BY <1>5
    <3>2. /\ DOMAIN g.link_dir_path = 1 .. p
          /\ \A m \in 1 .. p : g.link_dir_path[m] = Current(stack[m])
      BY <1>3, <3>1 DEF Placed
    <3>3. Passed(stack', p, g.link_dir_path)
      BY <2>12, <3>2
    <3>4. p \in DOMAIN stack'
      BY <2>2, <2>7
    <3> QED BY <3>3, <3>4 DEF PassedSomewhere
  <2>15. ASSUME NEW i \in 1 .. p
         PROVE  /\ stack'[i].link_dir_path = stack[i].link_dir_path
                /\ Placed(stack', i) /\ Counted(stack'[i])
                /\ RanInOrder(log, stack'[i].link_dir_path, 1 .. Started(stack'[i]))
    <3>1. i \in 1 .. n /\ (i = p \/ i \in 1 .. p - 1)
      BY <2>2
    <3>2. /\ Placed(stack, i) /\ Counted(stack[i])
          /\ RanInOrder(log, stack[i].link_dir_path, 1 .. Started(stack[i]))
      BY <1>2, <1>3, <3>1 DEF Accounted
    <3>3. /\ stack'[i].link_dir_path = stack[i].link_dir_path
          /\ Placed(stack', i) /\ Counted(stack'[i])
      BY <2>2, <2>7, <2>11, <3>2, FramesStay
    <3>4. Started(stack'[i]) = Started(stack[i])
      <4>1. Started(h) = Started(f)
        BY <2>5, <2>6 DEF Started
      <4> QED BY <2>7, <3>1, <4>1 DEF f
    <3> QED BY <3>2, <3>3, <3>4
  <2>16. ASSUME NEW j \in DOMAIN log
         PROVE  LET path == Seqs!Last(log[j].stack).link_dir_path
                IN  PassedSomewhere(stack', path)
                      \/ \E i \in DOMAIN stack' : path = stack'[i].link_dir_path
    <3> DEFINE path == Seqs!Last(log[j].stack).link_dir_path
    <3>1. PassedSomewhere(stack, path) \/ \E i \in DOMAIN stack : path = stack[i].link_dir_path
      BY <1>2 DEF Accounted
    <3> HIDE DEF path
    <3>2. ASSUME NEW i \in 1 .. n, path = stack[i].link_dir_path
          PROVE  PassedSomewhere(stack', path)
                   \/ \E x \in DOMAIN stack' : path = stack'[x].link_dir_path
      <4>1. i \in 1 .. p \/ i = n
        BY <2>2
      <4> QED BY <1>3, <2>7, <2>14, <2>15, <3>2, <4>1
    <3>3. PassedSomewhere(stack', path)
            \/ \E i \in DOMAIN stack' : path = stack'[i].link_dir_path
      BY <1>3, <2>13, <3>1, <3>2
    <3> QED BY <3>3 DEF path
  <2>17. ASSUME NEW j \in DOMAIN returned'
         PROVE  PassedSomewhere(stack', returned'[j].frame.link_dir_path)
    <3>1. CASE j \in DOMAIN returned
      <4>1. PassedSomewhere(stack, returned[j].frame.link_dir_path)
        BY <1>2, <3>1 DEF Accounted
      <4> QED BY <1>4, <2>13, <3>1, <4>1
    <3>2. CASE j \notin DOMAIN returned
      <4>1. j = Len(returned) + 1
        BY <1>4, <3>2
      <4> QED BY <1>4, <2>14, <4>1
    <3> QED BY <3>1, <3>2
  <2>18. Accounted(stack', log', returned')
    BY <1>1, <2>7, <2>15, <2>16, <2>17 DEF Accounted
  <2> QED BY <1>7, <2>18 DEF RunInv
<1> QED BY <1>8, <1>9

LEMMA InitRunInv == Init => RunInv
<1> SUFFICES ASSUME Init PROVE RunInv
  OBVIOUS
<1> DEFINE f == Frame(call.metadata, call.keys, << >>, "unnamed", call.params, call.persist)
<1>1. stack = <<f>> /\ log = << >> /\ returned = << >>
  BY DEF Init
<1>2. f.link_dir_path = << >> /\ f.pc = "layout signatures" /\ f.inspection = 1
  BY DEF Frame
<1> HIDE DEF f
<1>3. DOMAIN stack = {1} /\ stack[1] = f /\ DOMAIN log = {} /\ DOMAIN returned = {}
  BY <1>1
<1>4. Placed(stack, 1)
  <2>1. << >> \in Seq(Elements(<< >>)) /\ DOMAIN << >> = {} /\ 1 .. 1 - 1 = {}
    BY EmptySeq
  <2> QED BY <1>2, <1>3, <2>1 DEF Placed
<1>5. Counted(f) /\ Started(f) = 0
  <2>1. Len(f.layout.inspect) \in Nat
    <3>1. Valid(f.layout)
      <4>1. Sound(stack[1], returned, log)
        BY <1>3, InitIInv DEF IInv, Frames
      <4> QED BY <1>3, <4>1 DEF Sound, Typed
    <3> QED BY <3>1, LayoutFacts
  <2>2. 1 <= Len(f.layout.inspect) + 1 /\ 1 - 1 = 0
    BY <2>1
  <2>3. f.inspection <= Len(f.layout.inspect) + 1
    BY <1>2, <2>2, Zenon
  <2>4. f.pc # "return" /\ f.pc # "command"
    BY <1>2
  <2>5. Started(f) = 0
    BY <1>2, <2>2, <2>4, Zenon DEF Started
  <2> QED BY <1>2, <2>3, <2>4, <2>5, Zenon DEF Counted
<1>6. RanInOrder(log, f.link_dir_path, 1 .. 0)
  BY <1>3, RanNone
<1>7. Accounted(stack, log, returned)
  BY <1>3, <1>4, <1>5, <1>6 DEF Accounted
<1> QED BY <1>3, <1>7 DEF RunInv, EveryInspectionRan

LEMMA NextRunInv ==
  ASSUME ShortDistinct
  PROVE  IInv /\ IInv' /\ RunInv /\ [Next]_vars => RunInv'
<1> SUFFICES ASSUME IInv, IInv', RunInv, [Next]_vars PROVE RunInv'
  OBVIOUS
<1>1. CASE VerifyLayoutSignatures
  BY <1>1, VerifyLayoutSignaturesRun
<1>2. CASE VerifyExpiration
  BY <1>2, VerifyExpirationRun
<1>3. CASE SubstituteParameters
  BY <1>3, SubstituteParametersRun
<1>4. CASE LoadLinks
  BY <1>4, LoadLinksRun
<1>5. CASE VerifyLinkSignatures
  BY <1>5, VerifyLinkSignaturesRun
<1>6. CASE TakeLink
  BY <1>6, TakeLinkRun
<1>7. CASE EnterSublayout
  BY <1>7, EnterSublayoutRun
<1>8. CASE NextStep
  BY <1>8, NextStepRun
<1>9. CASE SublayoutsEnd
  BY <1>9, SublayoutsEndRun
<1>10. CASE VerifyConstraints
  BY <1>10, VerifyConstraintsRun
<1>11. CASE Reduce
  BY <1>11, ReduceRun
<1>12. CASE VerifyStepRules
  BY <1>12, VerifyStepRulesRun
<1>13. CASE StartInspection
  BY <1>13, StartInspectionRun
<1>14. CASE EndInspection
  BY <1>14, EndInspectionRun
<1>15. CASE VerifyInspectionRules
  BY <1>15, VerifyInspectionRulesRun
<1>16. CASE Return
  BY <1>16, ReturnRun
<1>17. CASE Tick \/ UNCHANGED vars
  <2>1. UNCHANGED <<stack, status, log, returned>>
    BY <1>17 DEF Tick, vars, history
  <2> QED BY <2>1, RanStays DEF RunInv
<1> QED
  BY <1>1, <1>2, <1>3, <1>4, <1>5, <1>6, <1>7, <1>8, <1>9, <1>10, <1>11, <1>12, <1>13,
     <1>14, <1>15, <1>16, <1>17 DEF Next, Verify

\* When in_toto_verify returns, for the root or for a sublayout, every inspection of its
\* layout has been started exactly once and in order, whatever sublayouts were verified
\* before: where keyids do not begin alike, none of them shares its link directory.
THEOREM EveryInspectionCorrect ==
  ASSUME ShortDistinct
  PROVE  Spec => []EveryInspectionRan
<1>1. RunInv => EveryInspectionRan
  BY DEF RunInv
<1>2. IInv /\ IInv' /\ RunInv /\ [Next]_vars => RunInv'
  BY NextRunInv
<1> QED BY <1>1, <1>2, InitRunInv, Invariance, PTL DEF Spec
=============================================================================
