----------------------- MODULE MetadataSigningProofs -----------------------
(***************************************************************************)
(* What the invocations of in-toto-sign keep, whatever they are asked for  *)
(* and however they overlap.                                               *)
(***************************************************************************)
EXTENDS MetadataSigning, SequenceTheorems, WellFoundedInduction, TLAPS

Content == Document \cup {Absent, Torn}

Typed ==
  /\ file \in [Paths -> Content]
  /\ phase \in [Processes -> {"idle", "loaded", "writing", "done"}]
  /\ request \in [Processes -> Requests \cup {None}]
  /\ loaded \in [Processes -> Document \cup {None}]
  /\ exit \in [Processes -> {None, 0, 1, 2}]
  /\ kept \in [Paths -> SUBSET Signature]

\* All signatures of document have been made.
Vouched(document) ==
  \A s \in Seqs!ToSet(document.signatures) : <<s.keyid, s.payload>> \in made

Active(p) == phase[p] \in {"loaded", "writing"}

\* A run that has loaded its document.
RunOK(p) ==
  Active(p) =>
    /\ request[p] \in Requests /\ loaded[p] \in Document /\ exit[p] = None
    /\ ~BadForLink(request[p], loaded[p])
    /\ Vouched(loaded[p])
    /\ phase[p] = "writing" => /\ ~request[p].verify
                               /\ ~KeysFail(request[p], loaded[p])
                               /\ Vouched(Signed(p))

\* A run that has exited with 0.
ExitOK(p) ==
  phase[p] = "done" /\ exit[p] = 0 =>
    /\ request[p] \in Requests /\ loaded[p] \in Document
    /\ request[p].verify =>
         \A key \in Seqs!ToSet(request[p].keys) :
           \E keyid \in Ids(key) : <<keyid, loaded[p].payload>> \in made
    /\ ~request[p].verify => ~KeysFail(request[p], loaded[p])

\* What a path has kept is in its document, and no run is about to lose it.
KeptOK(f) ==
  /\ IsDocument(file[f]) => Vouched(file[f]) /\ kept[f] \subseteq Seqs!ToSet(file[f].signatures)
  /\ Writers(f) = {} /\ kept[f] # {} => IsDocument(file[f])

\* A process whose input is fresh has what its file has kept, and the file it has
\* opened is as it left it.
FreshOK(p) ==
  Active(p) /\ p \in fresh =>
    /\ kept[request[p].file] \subseteq Seqs!ToSet(loaded[p].signatures)
    /\ phase[p] = "writing" /\ OutPath(p) = request[p].file => file[request[p].file] = Torn

IInv ==
  /\ Typed
  /\ \A p \in Processes : RunOK(p) /\ ExitOK(p) /\ FreshOK(p)
  /\ \A f \in Paths : KeptOK(f)

\* Link files hold links, and a layout that is at hand comes from elsewhere.
NamesInv ==
  /\ \A keyid \in Keyids : NamedFor(file[LinkFile[keyid]], keyid)
  /\ \A p \in Processes, keyid \in Keyids :
       Active(p) /\ loaded[p].type = "layout" => request[p].file # LinkFile[keyid]

-----------------------------------------------------------------------------
(* Sequences of signatures *)

\* A set of indices has a first one.
LEMMA FirstIndex ==
  ASSUME NEW I \in SUBSET Nat, I # {}
  PROVE  \E i \in I : \A j \in I : i <= j
<1>1. PICK i \in I : \A j \in I : ~ (<<j, i>> \in OpToRel(<, Nat))
  BY NatLessThanWellFounded, WFMin
<1>2. \A j \in I : ~ (j < i)
  BY <1>1 DEF OpToRel
<1> QED BY <1>2

LEMMA ConcatIndex ==
  ASSUME NEW S, NEW s \in Seq(S), NEW t \in Seq(S)
  PROVE  /\ s \o t \in Seq(S) /\ Len(s) \in Nat /\ Len(t) \in Nat
         /\ DOMAIN s = 1 .. Len(s) /\ DOMAIN t = 1 .. Len(t)
         /\ DOMAIN (s \o t) = 1 .. Len(s) + Len(t)
         /\ \A i \in 1 .. Len(s) + Len(t) :
              (s \o t)[i] = IF i <= Len(s) THEN s[i] ELSE t[i - Len(s)]
         /\ \A j \in 1 .. Len(t) : /\ Len(s) + j \in 1 .. Len(s) + Len(t)
                                   /\ (s \o t)[Len(s) + j] = t[j]
OBVIOUS

\* A concatenation holds what its parts hold.
LEMMA ConcatElements ==
  ASSUME NEW S, NEW s \in Seq(S), NEW t \in Seq(S)
  PROVE  Seqs!ToSet(s \o t) = Seqs!ToSet(s) \cup Seqs!ToSet(t)
<1>1. /\ Len(s) \in Nat /\ Len(t) \in Nat
      /\ DOMAIN s = 1 .. Len(s) /\ DOMAIN t = 1 .. Len(t)
      /\ DOMAIN (s \o t) = 1 .. Len(s) + Len(t)
      /\ \A i \in 1 .. Len(s) + Len(t) :
           (s \o t)[i] = IF i <= Len(s) THEN s[i] ELSE t[i - Len(s)]
  BY ConcatIndex
<1>2. ASSUME NEW x \in Seqs!ToSet(s \o t) PROVE x \in Seqs!ToSet(s) \cup Seqs!ToSet(t)
  <2>1. PICK i \in 1 .. Len(s) + Len(t) : x = (s \o t)[i]
    BY <1>1, <1>2 DEF Seqs!ToSet
  <2>2. CASE i <= Len(s)
    BY <1>1, <2>1, <2>2 DEF Seqs!ToSet
  <2>3. CASE ~ (i <= Len(s))
    <3>1. i - Len(s) \in 1 .. Len(t)
      BY <1>1, <2>3
    <3> QED BY <1>1, <2>1, <2>3, <3>1 DEF Seqs!ToSet
  <2> QED BY <2>2, <2>3
<1>3. ASSUME NEW x \in Seqs!ToSet(s) PROVE x \in Seqs!ToSet(s \o t)
  <2>1. PICK i \in 1 .. Len(s) : x = s[i]
    BY <1>1, <1>3 DEF Seqs!ToSet
  <2>2. i \in 1 .. Len(s) + Len(t) /\ (s \o t)[i] = s[i]
    BY <1>1
  <2> QED BY <1>1, <2>1, <2>2 DEF Seqs!ToSet
<1>4. ASSUME NEW x \in Seqs!ToSet(t) PROVE x \in Seqs!ToSet(s \o t)
  <2>1. PICK i \in 1 .. Len(t) : x = t[i]
    BY <1>1, <1>4 DEF Seqs!ToSet
  <2>2. i + Len(s) \in 1 .. Len(s) + Len(t) /\ (s \o t)[i + Len(s)] = t[i]
    BY <1>1
  <2> QED BY <1>1, <2>1, <2>2 DEF Seqs!ToSet
<1> QED BY <1>2, <1>3, <1>4

LEMMA RequestFacts ==
  ASSUME NEW r \in Requests
  PROVE  /\ r.keys \in Seq(Keys \cup {MissingKey})
         /\ r.file \in Paths /\ r.output \in Paths \cup {None}
         /\ r.gpg \in BOOLEAN /\ r.append \in BOOLEAN /\ r.verify \in BOOLEAN
         /\ r.keys = << >> => r.gpg
<1>1. r \in [file : Paths, keys : Seq(Keys \cup {MissingKey}), gpg : BOOLEAN,
            append : BOOLEAN, verify : BOOLEAN, output : Paths \cup {None}]
  BY SigningAssumption
<1>2. r.keys = << >> => r.gpg
  BY SigningAssumption, Zenon
<1> QED BY <1>1, <1>2

\* Which keys sign, once none is missing.
LEMMA SigningKeysType ==
  ASSUME NEW r \in Requests, NEW document \in Document, ~KeysFail(r, document)
  PROVE  /\ SigningKeys(r) \in Seq(Keys) /\ SigningKeys(r) # << >>
         /\ Len(r.keys) <= 1 => Len(SigningKeys(r)) = 1
<1>1. /\ r.keys \in Seq(Keys \cup {MissingKey}) /\ (r.keys = << >> => r.gpg)
      /\ DefaultGpgKey \in Keys
  BY RequestFacts, SigningAssumption
<1>2. \A i \in 1 .. Len(r.keys) : r.keys[i] \in Keys
  BY <1>1 DEF KeysFail, Seqs!ToSet
<1>3. r.keys \in Seq(Keys)
  BY <1>1, <1>2
<1>4. CASE r.keys = << >>
  BY <1>1, <1>4 DEF SigningKeys
<1>5. CASE r.keys # << >>
  <2>1. SigningKeys(r) = r.keys
    BY <1>5 DEF SigningKeys
  <2>2. Len(r.keys) \in Nat \ {0}
    BY <1>3, <1>5, EmptySeq
  <2>3. \A n \in Nat \ {0} : n <= 1 => n = 1
    OBVIOUS
  <2> QED BY <1>3, <1>5, <2>1, <2>2, <2>3, Zenon
<1> QED BY <1>4, <1>5

\* One signature for each of them.
LEMMA NewSignaturesType ==
  ASSUME NEW r \in Requests, NEW document \in Document, ~KeysFail(r, document)
  PROVE  /\ NewSignatures(r, document) \in Seq(Signature)
         /\ Len(NewSignatures(r, document)) = Len(SigningKeys(r))
         /\ \A i \in 1 .. Len(SigningKeys(r)) :
              NewSignatures(r, document)[i] = [keyid |-> SigningKeyid[SigningKeys(r)[i]],
                                               payload |-> document.payload]
         /\ \A i \in 1 .. Len(NewSignatures(r, document)) :
              NewSignatures(r, document)[i].payload = document.payload
<1> DEFINE keys == SigningKeys(r)
<1>1. keys \in Seq(Keys) /\ DOMAIN keys = 1 .. Len(keys) /\ Len(keys) \in Nat
  BY SigningKeysType
<1> HIDE DEF keys
<1>2. NewSignatures(r, document) =
        [i \in DOMAIN keys |-> [keyid |-> SigningKeyid[keys[i]], payload |-> document.payload]]
  BY DEF NewSignatures, keys
<1>3. \A i \in DOMAIN keys :
        [keyid |-> SigningKeyid[keys[i]], payload |-> document.payload] \in Signature
  BY <1>1, SigningAssumption DEF Signature, Document
<1> QED BY <1>1, <1>2, <1>3 DEF keys

LEMMA BeforeType ==
  ASSUME NEW r, NEW document \in Document
  PROVE  Before(r, document) \in Seq(Signature)
BY DEF Before, Document

\* What is written has the payload that was loaded, and goes to a path.
LEMMA SignedType ==
  ASSUME NEW p, request[p] \in Requests, loaded[p] \in Document,
         ~KeysFail(request[p], loaded[p])
  PROVE  /\ Signed(p) \in Document
         /\ Signed(p).kind = loaded[p].kind /\ Signed(p).type = loaded[p].type
         /\ Signed(p).payload = loaded[p].payload
         /\ Signed(p).signatures =
              Before(request[p], loaded[p]) \o NewSignatures(request[p], loaded[p])
         /\ Seqs!ToSet(Signed(p).signatures) =
              Seqs!ToSet(Before(request[p], loaded[p]))
                \cup Seqs!ToSet(NewSignatures(request[p], loaded[p]))
<1> DEFINE old == Before(request[p], loaded[p])
           new == NewSignatures(request[p], loaded[p])
<1>1. old \in Seq(Signature) /\ new \in Seq(Signature)
  BY BeforeType, NewSignaturesType
<1>2. Signed(p) = [loaded[p] EXCEPT !.signatures = old \o new]
  BY DEF Signed
<1>3. Seqs!ToSet(old \o new) = Seqs!ToSet(old) \cup Seqs!ToSet(new)
  BY <1>1, ConcatElements
<1> HIDE DEF old, new
<1>4. old \o new \in Seq(Signature)
  BY <1>1
<1> QED BY <1>2, <1>3, <1>4 DEF Document, old, new

LEMMA OutPathType ==
  ASSUME NEW p, request[p] \in Requests, loaded[p] \in Document,
         ~KeysFail(request[p], loaded[p])
  PROVE  OutPath(p) \in Paths
<1>1. Signed(p).signatures \in Seq(Signature) /\ Len(Signed(p).signatures) > 0
  <2> DEFINE old == Before(request[p], loaded[p])
             new == NewSignatures(request[p], loaded[p])
  <2>1. old \in Seq(Signature) /\ new \in Seq(Signature)
    BY BeforeType, NewSignaturesType
  <2>2. Len(new) > 0
    <3>1. SigningKeys(request[p]) \in Seq(Keys) /\ SigningKeys(request[p]) # << >>
      BY SigningKeysType
    <3>2. Len(SigningKeys(request[p])) > 0
      BY <3>1
    <3> QED BY <3>2, NewSignaturesType
  <2> HIDE DEF old, new
  <2>3. Signed(p).signatures = old \o new
    BY SignedType DEF old, new
  <2> QED BY <2>1, <2>2, <2>3
<1>2. Seqs!Last(Signed(p).signatures) \in Signature
  BY <1>1 DEF Seqs!Last
<1>3. LinkFile[Seqs!Last(Signed(p).signatures).keyid] \in Paths
  BY <1>2, SigningAssumption DEF Signature
<1>4. request[p].file \in Paths /\ request[p].output \in Paths \cup {None}
  BY RequestFacts
<1> QED BY <1>3, <1>4 DEF OutPath

-----------------------------------------------------------------------------
(* What a new signature is worth *)

\* Some index of a signed document is of a new signature of key.
LEMMA NewSignatureOwn ==
  ASSUME NEW p, request[p] \in Requests, loaded[p] \in Document,
         ~KeysFail(request[p], loaded[p]),
         NEW key \in Seqs!ToSet(SigningKeys(request[p]))
  PROVE  /\ Own(Signed(p), key) \subseteq Nat
         /\ \E i \in Own(Signed(p), key) : Signed(p).signatures[i].payload = loaded[p].payload
<1> DEFINE r == request[p]
           old == Before(r, loaded[p])
           new == NewSignatures(r, loaded[p])
           all == Signed(p).signatures
           keys == SigningKeys(r)
<1>1. old \in Seq(Signature) /\ new \in Seq(Signature) /\ Len(new) = Len(keys)
  BY BeforeType, NewSignaturesType
<1>2. \A i \in 1 .. Len(keys) :
        new[i] = [keyid |-> SigningKeyid[keys[i]], payload |-> loaded[p].payload]
  BY NewSignaturesType
<1>3. all = old \o new
  BY SignedType
<1>4. keys \in Seq(Keys)
  BY SigningKeysType
<1>5. PICK j \in 1 .. Len(keys) : keys[j] = key
  BY <1>4 DEF Seqs!ToSet
<1>6. key \in Keys /\ SigningKeyid[key] \in Ids(key)
  BY <1>4, <1>5, SigningAssumption
<1> HIDE DEF old, new, all, keys
<1>7. /\ DOMAIN all = 1 .. Len(old) + Len(new) /\ Len(old) \in Nat /\ Len(new) \in Nat
      /\ Len(old) + j \in DOMAIN all /\ all[Len(old) + j] = new[j]
  <2>1. old \in Seq(Signature) /\ new \in Seq(Signature) /\ j \in 1 .. Len(new)
    BY <1>1, <1>5
  <2>2. /\ DOMAIN (old \o new) = 1 .. Len(old) + Len(new)
        /\ Len(old) \in Nat /\ Len(new) \in Nat
    BY <2>1, ConcatIndex
  <2>3. /\ Len(old) + j \in 1 .. Len(old) + Len(new)
        /\ (old \o new)[Len(old) + j] = new[j]
    BY <2>1, ConcatIndex
  <2> QED BY <1>3, <2>2, <2>3
<1>8. new[j].keyid \in Ids(key) /\ new[j].payload = loaded[p].payload
  <2>1. new[j] = [keyid |-> SigningKeyid[key], payload |-> loaded[p].payload]
    BY <1>2, <1>5 DEF new, keys
  <2> QED BY <1>6, <2>1
<1>9. Own(Signed(p), key) = {i \in DOMAIN all : all[i].keyid \in Ids(key)}
  BY DEF Own, all
<1>10. DOMAIN all \subseteq Nat
  BY <1>7
<1>11. Len(old) + j \in Own(Signed(p), key)
  BY <1>7, <1>8, <1>9
<1> QED BY <1>7, <1>8, <1>9, <1>10, <1>11 DEF all

\* A signature that is not over the payload is one that was there before.
LEMMA StaleIsOld ==
  ASSUME NEW p, request[p] \in Requests, loaded[p] \in Document,
         ~KeysFail(request[p], loaded[p]), NEW i \in DOMAIN Signed(p).signatures,
         Signed(p).signatures[i].payload # loaded[p].payload
  PROVE  /\ request[p].append /\ i \in DOMAIN loaded[p].signatures
         /\ Signed(p).signatures[i] = loaded[p].signatures[i]
<1> DEFINE r == request[p]
           old == Before(r, loaded[p])
           new == NewSignatures(r, loaded[p])
           all == Signed(p).signatures
<1>1. old \in Seq(Signature) /\ new \in Seq(Signature)
  BY BeforeType, NewSignaturesType
<1>2. \A j \in 1 .. Len(new) : new[j].payload = loaded[p].payload
  BY NewSignaturesType
<1>3. all = old \o new
  BY SignedType
<1> HIDE DEF old, new, all
<1>4. /\ DOMAIN all = 1 .. Len(old) + Len(new)
      /\ Len(old) \in Nat /\ Len(new) \in Nat /\ DOMAIN old = 1 .. Len(old)
      /\ \A j \in 1 .. Len(old) + Len(new) :
           all[j] = IF j <= Len(old) THEN old[j] ELSE new[j - Len(old)]
  BY <1>1, <1>3, ConcatIndex
<1>5. i \in 1 .. Len(old) + Len(new) /\ all[i].payload # loaded[p].payload
  BY <1>4 DEF all
<1>6. i <= Len(old)
  <2> SUFFICES ASSUME ~ (i <= Len(old)) PROVE FALSE
    OBVIOUS
  <2>1. all[i] = new[i - Len(old)] /\ i - Len(old) \in 1 .. Len(new)
    BY <1>4, <1>5
  <2> QED BY <1>2, <1>5, <2>1
<1>7. i \in DOMAIN old /\ all[i] = old[i]
  BY <1>4, <1>5, <1>6
<1>8. old # << >>
  BY <1>7
<1> QED BY <1>7, <1>8 DEF Before, old, all

\* The document verifies for each key that has signed it, except behind a stale
\* signature of that key in a Metablock.
LEMMA SignedVerifies ==
  ASSUME NEW p, request[p] \in Requests, loaded[p] \in Document,
         ~KeysFail(request[p], loaded[p]),
         NEW key \in Seqs!ToSet(SigningKeys(request[p]))
  PROVE  \/ Verifies(Signed(p), key)
         \/ /\ request[p].append /\ loaded[p].kind = "metablock"
            /\ \E i \in DOMAIN loaded[p].signatures :
                 LET s == loaded[p].signatures[i]
                 IN  s.keyid \in Ids(key) /\ s.payload # loaded[p].payload
<1> DEFINE own == Own(Signed(p), key)
           all == Signed(p).signatures
<1>1. /\ own \subseteq Nat
      /\ \E i \in own : all[i].payload = loaded[p].payload
  BY NewSignatureOwn
<1>2. Signed(p).payload = loaded[p].payload /\ Signed(p).kind = loaded[p].kind
  BY SignedType
<1>3. CASE loaded[p].kind # "metablock"
  BY <1>1, <1>2, <1>3 DEF Verifies
<1>4. CASE loaded[p].kind = "metablock"
  <2>1. PICK i \in own : \A j \in own : i <= j
    BY <1>1, FirstIndex
  <2>2. CASE all[i].payload = loaded[p].payload
    BY <1>2, <2>1, <2>2 DEF Verifies
  <2>3. CASE all[i].payload # loaded[p].payload
    <3>1. i \in DOMAIN all /\ all[i].keyid \in Ids(key)
      BY <2>1 DEF Own
    <3>2. /\ request[p].append /\ i \in DOMAIN loaded[p].signatures
          /\ all[i] = loaded[p].signatures[i]
      BY <2>3, <3>1, StaleIsOld
    <3> QED BY <1>4, <2>3, <3>1, <3>2
  <2> QED BY <2>2, <2>3
<1> QED BY <1>3, <1>4

\* What verifies with a key is signed by it or a subkey, over this payload.
LEMMA VerifiedIsMade ==
  ASSUME NEW document, Vouched(document), NEW key, Verifies(document, key)
  PROVE  \E keyid \in Ids(key) : <<keyid, document.payload>> \in made
<1>1. PICK i \in Own(document, key) : document.signatures[i].payload = document.payload
  BY DEF Verifies
<1>2. document.signatures[i] \in Seqs!ToSet(document.signatures)
  BY DEF Own, Seqs!ToSet
<1> QED BY <1>1, <1>2 DEF Own, Vouched

-----------------------------------------------------------------------------
(* What a step leaves alone *)

LEMMA SameRun ==
  ASSUME NEW p, request'[p] = request[p], loaded'[p] = loaded[p]
  PROVE  Signed(p)' = Signed(p) /\ OutPath(p)' = OutPath(p)
BY DEF Signed, OutPath

LEMMA SameVouched ==
  ASSUME made \subseteq made', NEW document, Vouched(document)
  PROVE  Vouched(document)'
BY DEF Vouched

\* Signatures that have been made stay made.
LEMMA OtherRun ==
  ASSUME NEW q, phase'[q] = phase[q], request'[q] = request[q], loaded'[q] = loaded[q],
         exit'[q] = exit[q], made \subseteq made', RunOK(q), ExitOK(q)
  PROVE  RunOK(q)' /\ ExitOK(q)'
<1>1. Signed(q)' = Signed(q)
  BY SameRun
<1>2. Active(q)' <=> Active(q)
  BY DEF Active
<1>3. RunOK(q)'
  <2> SUFFICES ASSUME Active(q) PROVE RunOK(q)'
    BY <1>2 DEF RunOK
  <2>1. /\ request[q] \in Requests /\ loaded[q] \in Document /\ exit[q] = None
        /\ ~BadForLink(request[q], loaded[q]) /\ Vouched(loaded[q])
        /\ phase[q] = "writing" => /\ ~request[q].verify
                                   /\ ~KeysFail(request[q], loaded[q])
                                   /\ Vouched(Signed(q))
    BY DEF RunOK
  <2>2. Vouched(loaded[q])'
    BY <2>1 DEF Vouched
  <2>3. phase[q] = "writing" => Vouched(Signed(q))'
    BY <1>1, <2>1 DEF Vouched
  <2> QED BY <2>1, <2>2, <2>3 DEF RunOK
<1>4. ExitOK(q)'
  BY DEF ExitOK
<1> QED BY <1>3, <1>4

LEMMA OtherFresh ==
  ASSUME NEW q, phase'[q] = phase[q], request'[q] = request[q], loaded'[q] = loaded[q],
         FreshOK(q),
         q \in fresh' => /\ q \in fresh
                         /\ kept'[request[q].file] \subseteq kept[request[q].file]
                         /\ file'[request[q].file] \in {file[request[q].file], Torn}
  PROVE  FreshOK(q)'
<1>1. Signed(q)' = Signed(q) /\ OutPath(q)' = OutPath(q)
  BY SameRun
<1> QED BY <1>1 DEF FreshOK, Active

LEMMA SamePath ==
  ASSUME NEW f, KeptOK(f), file'[f] = file[f], kept'[f] = kept[f], made \subseteq made',
         Writers(f)' = {} => Writers(f) = {}
  PROVE  KeptOK(f)'
<1>1. IsDocument(file[f]) => Vouched(file[f])'
  BY DEF KeptOK, Vouched
<1> QED BY <1>1 DEF KeptOK, IsDocument

\* A path without writers keeps having none.
LEMMA SameWriters ==
  ASSUME \A q \in Processes : phase[q] = "writing" =>
           phase'[q] = "writing" /\ request'[q] = request[q] /\ loaded'[q] = loaded[q],
         NEW f
  PROVE  Writers(f)' = {} => Writers(f) = {}
<1> SUFFICES ASSUME NEW q \in Writers(f) PROVE q \in Writers(f)'
  OBVIOUS
<1>1. q \in Processes /\ phase[q] = "writing" /\ OutPath(q) = f
  BY DEF Writers
<1>2. OutPath(q)' = OutPath(q)
  BY <1>1, SameRun
<1> QED BY <1>1, <1>2 DEF Writers

-----------------------------------------------------------------------------
(* The invariant *)

LEMMA InitIInv == Init => IInv
<1> SUFFICES ASSUME Init PROVE IInv
  OBVIOUS
<1>1. file \in [Paths -> Content] /\ None \notin 0 .. 2
  BY SigningAssumption DEF Init, Content
<1>2. Typed
  BY <1>1 DEF Init, Typed
<1>3. \A p \in Processes : RunOK(p) /\ ExitOK(p) /\ FreshOK(p)
  BY DEF Init, RunOK, ExitOK, FreshOK, Active
<1>4. ASSUME NEW f \in Paths PROVE KeptOK(f)
  <2>1. kept[f] = {}
    BY DEF Init
  <2>2. ASSUME IsDocument(file[f]), NEW s \in Seqs!ToSet(file[f].signatures)
        PROVE  <<s.keyid, s.payload>> \in made
    BY <2>2 DEF Init
  <2> QED BY <2>1, <2>2 DEF KeptOK, Vouched
<1> QED BY <1>2, <1>3, <1>4 DEF IInv

LEMMA StartIInv ==
  ASSUME IInv, NEW p \in Processes, NEW r \in Requests, Start(p, r) PROVE IInv'
<1>1. /\ phase[p] \in {"idle", "done"} /\ UNCHANGED <<file, made, kept>>
      /\ request' = [request EXCEPT ![p] = r]
  BY DEF Start
<1>2. r.file \in Paths
  BY RequestFacts
<1>3. CASE BadArguments(r) \/ ~IsDocument(file[r.file]) \/ BadForLink(r, file[r.file])
  <2>1. /\ phase' = [phase EXCEPT ![p] = "done"] /\ exit' = [exit EXCEPT ![p] = 2]
        /\ loaded' = [loaded EXCEPT ![p] = None] /\ fresh' = fresh \ {p}
    BY <1>3 DEF Start, Exit
  <2>2. Typed'
    BY <1>1, <2>1 DEF IInv, Typed
  <2>3. RunOK(p)' /\ ExitOK(p)' /\ FreshOK(p)'
    BY <2>1 DEF IInv, Typed, RunOK, ExitOK, FreshOK, Active
  <2>4. ASSUME NEW q \in Processes \ {p} PROVE RunOK(q)' /\ ExitOK(q)' /\ FreshOK(q)'
    BY <1>1, <2>1, OtherRun, OtherFresh DEF IInv, Typed
  <2>5. ASSUME NEW f \in Paths PROVE KeptOK(f)'
    <3>1. Writers(f)' = {} => Writers(f) = {}
      BY <1>1, <2>1, SameWriters DEF IInv, Typed
    <3> QED BY <1>1, <3>1, SamePath DEF IInv
  <2> QED BY <2>2, <2>3, <2>4, <2>5 DEF IInv
<1>4. CASE ~ (BadArguments(r) \/ ~IsDocument(file[r.file]) \/ BadForLink(r, file[r.file]))
  <2>1. /\ phase' = [phase EXCEPT ![p] = "loaded"] /\ exit' = [exit EXCEPT ![p] = None]
        /\ loaded' = [loaded EXCEPT ![p] = file[r.file]] /\ fresh' = fresh \cup {p}
    BY <1>4 DEF Start, Exit
  <2>2. /\ file[r.file] \in Document /\ Vouched(file[r.file])
        /\ kept[r.file] \subseteq Seqs!ToSet(file[r.file].signatures)
    BY <1>2, <1>4 DEF IInv, Typed, Content, KeptOK, IsDocument
  <2>3. Typed'
    BY <1>1, <2>1, <2>2 DEF IInv, Typed
  <2>4. phase'[p] = "loaded" /\ request'[p] = r /\ loaded'[p] = file[r.file] /\ exit'[p] = None
    BY <1>1, <2>1 DEF IInv, Typed
  <2>5. RunOK(p)' /\ ExitOK(p)' /\ FreshOK(p)'
    <3>1. Vouched(loaded[p])'
      BY <1>1, <2>2, <2>4 DEF Vouched
    <3> QED BY <1>1, <1>4, <2>2, <2>4, <3>1 DEF RunOK, ExitOK, FreshOK, Active
  <2>6. ASSUME NEW q \in Processes \ {p} PROVE RunOK(q)' /\ ExitOK(q)' /\ FreshOK(q)'
    BY <1>1, <2>1, OtherRun, OtherFresh DEF IInv, Typed
  <2>7. ASSUME NEW f \in Paths PROVE KeptOK(f)'
    <3>1. Writers(f)' = {} => Writers(f) = {}
      BY <1>1, <2>1, SameWriters DEF IInv, Typed
    <3> QED BY <1>1, <3>1, SamePath DEF IInv
  <2> QED BY <2>3, <2>5, <2>6, <2>7 DEF IInv
<1> QED BY <1>3, <1>4

LEMMA FailToSignIInv == ASSUME IInv, NEW p \in Processes, FailToSign(p) PROVE IInv'
<1>1. /\ phase[p] = "loaded"
      /\ phase' = [phase EXCEPT ![p] = "done"] /\ exit' = [exit EXCEPT ![p] = 2]
      /\ UNCHANGED <<file, request, loaded, made, fresh, kept>>
  BY DEF FailToSign, Signing, Exit
<1>2. Typed'
  BY <1>1 DEF IInv, Typed
<1>3. RunOK(p)' /\ ExitOK(p)' /\ FreshOK(p)'
  BY <1>1 DEF IInv, Typed, RunOK, ExitOK, FreshOK, Active
<1>4. ASSUME NEW q \in Processes \ {p} PROVE RunOK(q)' /\ ExitOK(q)' /\ FreshOK(q)'
  BY <1>1, OtherRun, OtherFresh DEF IInv, Typed
<1>5. ASSUME NEW f \in Paths PROVE KeptOK(f)'
  <2>1. Writers(f)' = {} => Writers(f) = {}
    BY <1>1, SameWriters DEF IInv, Typed
  <2> QED BY <1>1, <2>1, SamePath DEF IInv
<1> QED BY <1>2, <1>3, <1>4, <1>5 DEF IInv

LEMMA VerifyIInv == ASSUME IInv, NEW p \in Processes, Verify(p) PROVE IInv'
<1> DEFINE fails == KeysFail(request[p], loaded[p])
           good == \A key \in Seqs!ToSet(request[p].keys) : Verifies(loaded[p], key)
<1>1. /\ phase[p] = "loaded" /\ request[p].verify
      /\ phase' = [phase EXCEPT ![p] = "done"]
      /\ exit' = [exit EXCEPT ![p] = IF fails THEN 2 ELSE IF good THEN 0 ELSE 1]
      /\ UNCHANGED <<file, request, loaded, made, fresh, kept>>
  BY DEF Verify, Exit
<1>2. Typed'
  BY <1>1 DEF IInv, Typed
<1>3. request[p] \in Requests /\ loaded[p] \in Document /\ Vouched(loaded[p])
  BY <1>1 DEF IInv, RunOK, Active
<1>4. ExitOK(p)'
  <2> SUFFICES ASSUME exit'[p] = 0 PROVE ExitOK(p)'
    BY DEF ExitOK
  <2>1. good
    BY <1>1 DEF IInv, Typed
  <2>2. \A key \in Seqs!ToSet(request[p].keys) :
          \E keyid \in Ids(key) : <<keyid, loaded[p].payload>> \in made
    BY <1>3, <2>1, VerifiedIsMade
  <2> QED BY <1>1, <1>3, <2>2 DEF ExitOK
<1>5. RunOK(p)' /\ FreshOK(p)'
  BY <1>1 DEF IInv, Typed, RunOK, FreshOK, Active
<1>6. ASSUME NEW q \in Processes \ {p} PROVE RunOK(q)' /\ ExitOK(q)' /\ FreshOK(q)'
  BY <1>1, OtherRun, OtherFresh DEF IInv, Typed
<1>7. ASSUME NEW f \in Paths PROVE KeptOK(f)'
  <2>1. Writers(f)' = {} => Writers(f) = {}
    BY <1>1, SameWriters DEF IInv, Typed
  <2> QED BY <1>1, <2>1, SamePath DEF IInv
<1> QED BY <1>2, <1>4, <1>5, <1>6, <1>7 DEF IInv

\* The file is truncated: whoever else has read it is no longer fresh.
LEMMA SignAndOpenIInv == ASSUME IInv, NEW p \in Processes, SignAndOpen(p) PROVE IInv'
<1> DEFINE out == OutPath(p)
           new == NewSignatures(request[p], loaded[p])
<1>1. /\ phase[p] = "loaded" /\ ~request[p].verify /\ ~KeysFail(request[p], loaded[p])
      /\ phase' = [phase EXCEPT ![p] = "writing"]
      /\ made' = made \cup {<<s.keyid, s.payload>> : s \in Seqs!ToSet(new)}
      /\ file' = [file EXCEPT ![out] = Torn]
      /\ fresh' = fresh \ (Readers(out) \ {p})
      /\ UNCHANGED <<request, loaded, exit, kept>>
  BY DEF SignAndOpen, Signing
<1>2. /\ request[p] \in Requests /\ loaded[p] \in Document /\ Vouched(loaded[p])
      /\ ~BadForLink(request[p], loaded[p]) /\ exit[p] = None
  BY <1>1 DEF IInv, RunOK, Active
<1>3. out \in Paths
  BY <1>1, <1>2, OutPathType
<1>4. Signed(p)' = Signed(p) /\ OutPath(p)' = out
  BY <1>1, SameRun
<1>5. made \subseteq made'
  BY <1>1
<1> HIDE DEF out
<1>6. Typed'
  BY <1>1, <1>3 DEF IInv, Typed, Content
<1>7. RunOK(p)' /\ ExitOK(p)'
  <2>1. Vouched(loaded[p])'
    BY <1>1, <1>2 DEF Vouched
  <2>2. ASSUME NEW s \in Seqs!ToSet(Signed(p).signatures) PROVE <<s.keyid, s.payload>> \in made'
    <3>1. s \in Seqs!ToSet(Before(request[p], loaded[p])) \cup Seqs!ToSet(new)
      BY <1>1, <1>2, SignedType
    <3>2. CASE s \in Seqs!ToSet(new)
      BY <1>1, <3>2
    <3>3. CASE s \in Seqs!ToSet(Before(request[p], loaded[p]))
      <4>1. s \in Seqs!ToSet(loaded[p].signatures)
        BY <3>3 DEF Before, Seqs!ToSet
      <4> QED BY <1>2, <1>5, <4>1 DEF Vouched
    <3> QED BY <3>1, <3>2, <3>3
  <2>3. Vouched(Signed(p))'
    BY <1>4, <2>2 DEF Vouched
  <2>4. phase'[p] = "writing"
    BY <1>1 DEF IInv, Typed
  <2> QED BY <1>1, <1>2, <2>1, <2>3, <2>4 DEF RunOK, ExitOK
<1>8. FreshOK(p)'
  <2>1. p \in fresh' => kept[request[p].file] \subseteq Seqs!ToSet(loaded[p].signatures)
    BY <1>1 DEF IInv, FreshOK, Active
  <2>2. file'[out] = Torn
    BY <1>1, <1>3 DEF IInv, Typed
  <2> QED BY <1>1, <1>4, <2>1, <2>2 DEF FreshOK
<1>9. ASSUME NEW q \in Processes \ {p} PROVE RunOK(q)' /\ ExitOK(q)' /\ FreshOK(q)'
  <2>1. phase'[q] = phase[q] /\ request'[q] = request[q] /\ loaded'[q] = loaded[q]
        /\ exit'[q] = exit[q]
    BY <1>1 DEF IInv, Typed
  <2>2. \A f : file'[f] \in {file[f], Torn}
    BY <1>1 DEF IInv, Typed
  <2>3. FreshOK(q)'
    BY <1>1, <2>1, <2>2, OtherFresh DEF IInv
  <2> QED BY <1>5, <2>1, <2>3, OtherRun DEF IInv
<1>10. ASSUME NEW f \in Paths PROVE KeptOK(f)'
  <2>1. CASE f = out
    <3>1. file'[f] = Torn
      BY <1>1, <2>1 DEF IInv, Typed
    <3>2. p \in Writers(f)'
      <4>1. phase'[p] = "writing"
        BY <1>1 DEF IInv, Typed
      <4> QED BY <1>4, <2>1, <4>1 DEF Writers
    <3> QED BY <3>1, <3>2 DEF KeptOK, IsDocument
  <2>2. CASE f # out
    <3>1. Writers(f)' = {} => Writers(f) = {}
      BY <1>1, SameWriters DEF IInv, Typed
    <3>2. file'[f] = file[f]
      BY <1>1, <2>2 DEF IInv, Typed
    <3> QED BY <1>1, <1>5, <3>1, <3>2, SamePath DEF IInv
  <2> QED BY <2>1, <2>2
<1> QED BY <1>6, <1>7, <1>8, <1>9, <1>10 DEF IInv

\* Who has read a file whose content changes is no longer fresh.
LEMMA NotReader ==
  ASSUME IInv, NEW f, NEW q \in Processes, Active(q), q \notin Readers(f)
  PROVE  request[q].file # f
BY SigningAssumption DEF IInv, RunOK, Readers

LEMMA WriteIInv == ASSUME IInv, NEW p \in Processes, Write(p) PROVE IInv'
<1> DEFINE f == OutPath(p)
           r == request[p]
           new == NewSignatures(r, loaded[p])
           alone == p \in fresh /\ Writers(f) = {p} /\ f = r.file
           keeps == IF ~alone THEN {}
                    ELSE (IF r.append THEN kept[f] ELSE {}) \cup Seqs!ToSet(new)
<1>1. PICK content \in Overwritten(file[f], Signed(p)) :
        /\ phase[p] = "writing" /\ file' = [file EXCEPT ![f] = content]
        /\ kept' = [kept EXCEPT ![f] = keeps]
        /\ fresh' = fresh \ Readers(f)
        /\ phase' = [phase EXCEPT ![p] = "done"] /\ exit' = [exit EXCEPT ![p] = 0]
        /\ UNCHANGED <<request, loaded, made>>
  BY DEF Write, Exit
<1>2. /\ r \in Requests /\ loaded[p] \in Document /\ Vouched(loaded[p])
      /\ ~r.verify /\ ~KeysFail(r, loaded[p]) /\ Vouched(Signed(p))
  BY <1>1 DEF IInv, RunOK, Active
<1>3. /\ f \in Paths /\ Signed(p) \in Document
      /\ Seqs!ToSet(Signed(p).signatures) =
           Seqs!ToSet(Before(r, loaded[p])) \cup Seqs!ToSet(new)
  BY <1>2, OutPathType, SignedType
<1>4. content \in {Signed(p), Torn}
  BY DEF Overwritten
<1>5. alone => /\ content = Signed(p)
               /\ keeps \subseteq Seqs!ToSet(Signed(p).signatures)
  <2> SUFFICES ASSUME alone PROVE /\ content = Signed(p)
                                  /\ keeps \subseteq Seqs!ToSet(Signed(p).signatures)
    OBVIOUS
  <2>1. /\ kept[f] \subseteq Seqs!ToSet(loaded[p].signatures) /\ file[f] = Torn
    BY <1>1 DEF IInv, FreshOK, Active
  <2>2. content = Signed(p)
    BY <2>1 DEF Overwritten
  <2>3. r.append => kept[f] \subseteq Seqs!ToSet(Before(r, loaded[p]))
    BY <2>1 DEF Before
  <2> QED BY <1>3, <2>2, <2>3
<1>6. keeps \subseteq Signature
  <2>1. new \in Seq(Signature)
    BY <1>2, NewSignaturesType
  <2>2. Seqs!ToSet(new) \subseteq Signature
    BY <2>1 DEF Seqs!ToSet
  <2>3. kept[f] \subseteq Signature
    BY <1>3 DEF IInv, Typed
  <2> QED BY <2>2, <2>3
<1> HIDE DEF f, keeps, alone
<1>7. Typed'
  BY <1>1, <1>3, <1>4, <1>6 DEF IInv, Typed, Content
<1>8. RunOK(p)' /\ ExitOK(p)' /\ FreshOK(p)'
  <2>1. phase'[p] = "done"
    BY <1>1 DEF IInv, Typed
  <2> QED BY <1>1, <1>2, <2>1 DEF RunOK, ExitOK, FreshOK, Active
<1>9. ASSUME NEW q \in Processes \ {p} PROVE RunOK(q)' /\ ExitOK(q)' /\ FreshOK(q)'
  <2>1. /\ phase'[q] = phase[q] /\ request'[q] = request[q] /\ loaded'[q] = loaded[q]
        /\ exit'[q] = exit[q]
    BY <1>1 DEF IInv, Typed
  <2>2. CASE ~Active(q)
    <3>1. FreshOK(q)'
      BY <2>1, <2>2 DEF FreshOK, Active
    <3> QED BY <1>1, <2>1, <3>1, OtherRun DEF IInv
  <2>3. CASE Active(q)
    <3>1. q \in fresh' => q \in fresh /\ request[q].file # f
      BY <1>1, <2>3, NotReader
    <3>2. request[q].file # f => /\ kept'[request[q].file] = kept[request[q].file]
                                 /\ file'[request[q].file] = file[request[q].file]
      <4>1. request[q].file \in Paths
        BY <2>3, RequestFacts DEF IInv, RunOK
      <4> QED BY <1>1, <4>1 DEF IInv, Typed
    <3>3. FreshOK(q)'
      BY <2>1, <3>1, <3>2, OtherFresh DEF IInv
    <3> QED BY <1>1, <2>1, <3>3, OtherRun DEF IInv
  <2> QED BY <2>2, <2>3
<1>10. ASSUME NEW g \in Paths, g = f PROVE KeptOK(g)'
  <2>1. file'[g] = content /\ kept'[g] = keeps
    BY <1>1, <1>10 DEF IInv, Typed
  <2>2. \A s \in Seqs!ToSet(Signed(p).signatures) : <<s.keyid, s.payload>> \in made'
    BY <1>1, <1>2 DEF Vouched
  <2>3. ~alone => keeps = {}
    BY DEF keeps
  <2>4. IsDocument(Signed(p)) /\ ~IsDocument(Torn)
    BY <1>3, SigningAssumption DEF IsDocument
  <2>5. IsDocument(file[g])' => file'[g] = Signed(p)
    BY <1>4, <2>1, <2>4 DEF IsDocument
  <2>6. kept'[g] # {} => IsDocument(file[g])'
    BY <1>5, <2>1, <2>3, <2>4 DEF IsDocument
  <2>7. kept'[g] \subseteq Seqs!ToSet(Signed(p).signatures)
    BY <1>5, <2>1, <2>3
  <2> QED BY <2>2, <2>5, <2>6, <2>7 DEF KeptOK, Vouched
<1>11. ASSUME NEW g \in Paths, g # f PROVE KeptOK(g)'
  <2>1. file'[g] = file[g] /\ kept'[g] = kept[g]
    BY <1>1, <1>11 DEF IInv, Typed
  <2>2. ASSUME NEW q \in Writers(g) PROVE q \in Writers(g)'
    <3>1. q \in Processes /\ phase[q] = "writing" /\ OutPath(q) = g /\ q # p
      BY <1>11 DEF Writers, f
    <3>2. OutPath(q)' = OutPath(q) /\ phase'[q] = phase[q]
      BY <1>1, <3>1, SameRun DEF IInv, Typed
    <3> QED BY <3>1, <3>2 DEF Writers
  <2> QED BY <1>1, <2>1, <2>2, SamePath DEF IInv
<1> QED BY <1>7, <1>8, <1>9, <1>10, <1>11 DEF IInv

\* A killed run leaves what it has written, and nothing is kept there any more.
LEMMA CrashIInv == ASSUME IInv, NEW p \in Processes, Crash(p) PROVE IInv'
<1> DEFINE out == OutPath(p)
<1>1. /\ Active(p) /\ phase' = [phase EXCEPT ![p] = "done"] /\ fresh' = fresh \ {p}
      /\ kept' = IF phase[p] = "writing" THEN [kept EXCEPT ![out] = {}] ELSE kept
      /\ UNCHANGED <<file, request, loaded, exit, made>>
  BY DEF Crash, Active
<1>2. exit[p] = None /\ None # 0
  BY <1>1, SigningAssumption DEF IInv, RunOK
<1>3. \A f \in Paths : kept'[f] = kept[f] \/ (kept'[f] = {} /\ f = out)
  BY <1>1 DEF IInv, Typed
<1>4. phase[p] = "writing" /\ out \in Paths => kept'[out] = {}
  BY <1>1 DEF IInv, Typed
<1> HIDE DEF out
<1>5. Typed'
  BY <1>1 DEF IInv, Typed
<1>6. RunOK(p)' /\ ExitOK(p)' /\ FreshOK(p)'
  BY <1>1, <1>2 DEF IInv, Typed, RunOK, ExitOK, FreshOK, Active
<1>7. ASSUME NEW q \in Processes \ {p} PROVE RunOK(q)' /\ ExitOK(q)' /\ FreshOK(q)'
  <2>1. /\ phase'[q] = phase[q] /\ request'[q] = request[q] /\ loaded'[q] = loaded[q]
        /\ exit'[q] = exit[q]
    BY <1>1 DEF IInv, Typed
  <2>2. CASE ~Active(q)
    <3>1. FreshOK(q)'
      BY <2>1, <2>2 DEF FreshOK, Active
    <3> QED BY <1>1, <2>1, <3>1, OtherRun DEF IInv
  <2>3. CASE Active(q)
    <3>1. request[q].file \in Paths
      BY <2>3, RequestFacts DEF IInv, RunOK
    <3>2. kept'[request[q].file] \subseteq kept[request[q].file]
      BY <1>3, <3>1
    <3>3. FreshOK(q)'
      BY <1>1, <2>1, <3>2, OtherFresh DEF IInv
    <3> QED BY <1>1, <2>1, <3>3, OtherRun DEF IInv
  <2> QED BY <2>2, <2>3
<1>8. ASSUME NEW f \in Paths PROVE KeptOK(f)'
  <2>1. CASE kept'[f] = {}
    BY <1>1, <2>1 DEF IInv, KeptOK, Vouched, IsDocument
  <2>2. CASE kept'[f] # {}
    <3>1. kept'[f] = kept[f] /\ ~ (phase[p] = "writing" /\ f = out)
      BY <1>3, <1>4, <2>2
    <3>2. ASSUME NEW q \in Writers(f) PROVE q \in Writers(f)'
      <4>1. q \in Processes /\ phase[q] = "writing" /\ OutPath(q) = f /\ q # p
        BY <3>1 DEF Writers, out
      <4>2. OutPath(q)' = OutPath(q) /\ phase'[q] = phase[q]
        BY <1>1, <4>1, SameRun DEF IInv, Typed
      <4> QED BY <4>1, <4>2 DEF Writers
    <3> QED BY <1>1, <3>1, <3>2, SamePath DEF IInv
  <2> QED BY <2>1, <2>2
<1> QED BY <1>5, <1>6, <1>7, <1>8 DEF IInv

LEMMA EditPayloadIInv ==
  ASSUME IInv, NEW f \in Paths, NEW payload \in Payloads, EditPayload(f, payload) PROVE IInv'
<1>1. /\ IsDocument(file[f]) /\ file' = [file EXCEPT ![f].payload = payload]
      /\ fresh' = fresh \ Readers(f)
      /\ UNCHANGED <<phase, request, loaded, exit, made, kept>>
  BY DEF EditPayload
<1>2. file[f] \in Document
  BY <1>1 DEF IInv, Typed, Content, IsDocument
<1>3. /\ file'[f] = [file[f] EXCEPT !.payload = payload]
      /\ \A g \in Paths \ {f} : file'[g] = file[g]
  BY <1>1 DEF IInv, Typed
<1>4. file'[f] \in Document /\ file'[f].signatures = file[f].signatures
  BY <1>2, <1>3 DEF Document
<1>5. Typed'
  BY <1>1, <1>3, <1>4 DEF IInv, Typed, Content
<1>6. ASSUME NEW q \in Processes PROVE RunOK(q)' /\ ExitOK(q)' /\ FreshOK(q)'
  <2>1. CASE ~Active(q)
    <3>1. FreshOK(q)'
      BY <1>1, <2>1 DEF FreshOK, Active
    <3> QED BY <1>1, <3>1, OtherRun DEF IInv
  <2>2. CASE Active(q)
    <3>1. q \in fresh' => q \in fresh /\ request[q].file # f
      BY <1>1, <2>2, NotReader
    <3>2. request[q].file \in Paths
      BY <2>2, RequestFacts DEF IInv, RunOK
    <3>3. FreshOK(q)'
      BY <1>1, <1>3, <3>1, <3>2, OtherFresh DEF IInv
    <3> QED BY <1>1, <3>3, OtherRun DEF IInv
  <2> QED BY <2>1, <2>2
<1>7. KeptOK(f)'
  BY <1>1, <1>4, SigningAssumption DEF IInv, KeptOK, Vouched, IsDocument
<1>8. ASSUME NEW g \in Paths \ {f} PROVE KeptOK(g)'
  <2>1. Writers(g)' = {} => Writers(g) = {}
    BY <1>1, SameWriters
  <2> QED BY <1>1, <1>3, <2>1, SamePath DEF IInv
<1> QED BY <1>5, <1>6, <1>7, <1>8 DEF IInv

LEMMA NextIInv == IInv /\ [Next]_vars => IInv'
<1> SUFFICES ASSUME IInv, [Next]_vars PROVE IInv'
  OBVIOUS
<1>1. ASSUME NEW p \in Processes, NEW r \in Requests, Start(p, r) PROVE IInv'
  BY <1>1, StartIInv
<1>2. ASSUME NEW p \in Processes, FailToSign(p) \/ SignAndOpen(p) \/ Write(p) \/ Verify(p)
                                    \/ Crash(p)
      PROVE  IInv'
  BY <1>2, FailToSignIInv, SignAndOpenIInv, WriteIInv, VerifyIInv, CrashIInv
<1>3. ASSUME NEW f \in Paths, NEW payload \in Payloads, EditPayload(f, payload) PROVE IInv'
  BY <1>3, EditPayloadIInv
<1>4. CASE UNCHANGED vars
  <2>1. UNCHANGED <<file, phase, request, loaded, exit, made, fresh, kept>>
    BY <1>4 DEF vars
  <2>2. \A p \in Processes : RunOK(p)' /\ ExitOK(p)' /\ FreshOK(p)'
    BY <2>1, OtherRun, OtherFresh DEF IInv
  <2>3. ASSUME NEW f \in Paths PROVE KeptOK(f)'
    <3>1. Writers(f)' = {} => Writers(f) = {}
      BY <2>1, SameWriters
    <3> QED BY <2>1, <3>1, SamePath DEF IInv
  <2>4. Typed'
    BY <2>1 DEF IInv, Typed
  <2> QED BY <2>2, <2>3, <2>4 DEF IInv
<1> QED BY <1>1, <1>2, <1>3, <1>4 DEF Next

LEMMA Invariance == Spec => []IInv
BY InitIInv, NextIInv, PTL DEF Spec

-----------------------------------------------------------------------------
(* The names of link files *)

\* A link that is signed has one signature, of the key its file is named after.
LEMMA LinkSignature ==
  ASSUME NEW p, request[p] \in Requests, loaded[p] \in Document,
         ~KeysFail(request[p], loaded[p]), ~BadForLink(request[p], loaded[p]),
         loaded[p].type = "link"
  PROVE  LET signatures == Signed(p).signatures
         IN  /\ Seqs!Last(signatures).keyid \in Keyids
             /\ [i \in DOMAIN signatures |-> signatures[i].keyid] =
                  <<Seqs!Last(signatures).keyid>>
<1> DEFINE r == request[p]
           new == NewSignatures(r, loaded[p])
<1>1. ~r.append /\ ~ (Len(r.keys) > 1)
  BY DEF BadForLink
<1>2. Len(r.keys) \in Nat
  BY RequestFacts
<1>3. Len(SigningKeys(r)) = 1
  <2>1. Len(r.keys) <= 1
    BY <1>1, <1>2
  <2> QED BY <2>1, SigningKeysType
<1>4. new \in Seq(Signature) /\ Len(new) = 1
  BY <1>3, NewSignaturesType
<1>5. Signed(p).signatures = << >> \o new
  BY <1>1, SignedType DEF Before
<1> HIDE DEF new
<1>6. Signed(p).signatures = new
  BY <1>4, <1>5
<1>7. DOMAIN new = {1} /\ new[1] \in Signature /\ Seqs!Last(new) = new[1]
  <2>1. DOMAIN new = 1 .. 1
    BY <1>4
  <2>2. 1 .. 1 = {1}
    OBVIOUS
  <2>3. Seqs!Last(new) = new[1]
    BY <1>4 DEF Seqs!Last
  <2>4. new[1] \in Signature
    BY <1>4, <2>1, <2>2, ElementOfSeq
  <2> QED BY <2>1, <2>2, <2>3, <2>4
<1>8. [i \in DOMAIN new |-> new[i].keyid] = <<new[1].keyid>>
  BY <1>7
<1> QED BY <1>6, <1>7, <1>8 DEF Signature

LEMMA SameNames ==
  ASSUME NamesInv, NEW keyid \in Keyids,
         \/ file'[LinkFile[keyid]] = Torn
         \/ file'[LinkFile[keyid]] = file[LinkFile[keyid]]
  PROVE  NamedFor(file'[LinkFile[keyid]], keyid)
BY DEF NamesInv, NamedFor, IsDocument

LEMMA InitNames == ASSUME NamesRespected PROVE Init => NamesInv
BY DEF NamesRespected, Init, NamesInv, Active

LEMMA WriteNames ==
  ASSUME NamesRespected, IInv, NamesInv, NEW p \in Processes, Write(p),
         NEW keyid \in Keyids
  PROVE  NamedFor(file'[LinkFile[keyid]], keyid)
<1> DEFINE f == OutPath(p)
<1>1. PICK content \in Overwritten(file[f], Signed(p)) :
        phase[p] = "writing" /\ file' = [file EXCEPT ![f] = content]
  BY DEF Write
<1>2. /\ request[p] \in Requests /\ loaded[p] \in Document
      /\ ~BadForLink(request[p], loaded[p]) /\ ~KeysFail(request[p], loaded[p])
  BY <1>1 DEF IInv, RunOK, Active
<1>3. content \in {Signed(p), Torn}
  BY DEF Overwritten
<1>4. LinkFile[keyid] \in Paths
  BY SigningAssumption
<1>5. file'[LinkFile[keyid]] = IF LinkFile[keyid] = f THEN content ELSE file[LinkFile[keyid]]
  BY <1>1, <1>4 DEF IInv, Typed
<1>6. CASE LinkFile[keyid] # f \/ content = Torn
  BY <1>5, <1>6, SameNames
<1>7. CASE LinkFile[keyid] = f /\ content = Signed(p)
  <2>1. request[p].output = None
    BY <1>2, <1>7 DEF NamesRespected, OutPath
  <2>2. loaded[p].type = "link"
    BY <1>1, <1>2, <1>7, <2>1 DEF OutPath, NamesInv, Active, Document
  <2>3. /\ Seqs!Last(Signed(p).signatures).keyid \in Keyids
        /\ [i \in DOMAIN Signed(p).signatures |-> Signed(p).signatures[i].keyid] =
             <<Seqs!Last(Signed(p).signatures).keyid>>
    BY <1>2, <2>2, LinkSignature
  <2>4. keyid = Seqs!Last(Signed(p).signatures).keyid
    BY <1>7, <2>1, <2>2, <2>3, SigningAssumption DEF OutPath
  <2>5. Signed(p).type = "link"
    BY <1>2, <2>2, SignedType
  <2> QED BY <1>5, <1>7, <2>3, <2>4, <2>5 DEF NamedFor
<1> QED BY <1>3, <1>6, <1>7

LEMMA NextNames ==
  ASSUME NamesRespected, IInv, NamesInv, [Next]_vars
  PROVE  NamesInv'
<1> DEFINE Apart(q) == \A keyid \in Keyids :
                         Active(q) /\ loaded[q].type = "layout" =>
                           request[q].file # LinkFile[keyid]
           Named == \A keyid \in Keyids : NamedFor(file'[LinkFile[keyid]], keyid)
<1>1. ASSUME NEW q \in Processes, Active(q)' => Active(q), request'[q] = request[q],
             loaded'[q] = loaded[q]
      PROVE  Apart(q)'
  BY <1>1 DEF NamesInv
<1>2. ASSUME NEW p \in Processes, NEW r \in Requests, Start(p, r) PROVE NamesInv'
  <2>1. /\ UNCHANGED file /\ request' = [request EXCEPT ![p] = r]
        /\ \/ phase' = [phase EXCEPT ![p] = "done"] /\ loaded' = [loaded EXCEPT ![p] = None]
           \/ /\ phase' = [phase EXCEPT ![p] = "loaded"] /\ IsDocument(file[r.file])
              /\ loaded' = [loaded EXCEPT ![p] = file[r.file]]
    BY <1>2 DEF Start, Exit
  <2>2. Named
    BY <2>1, SameNames
  <2>3. ASSUME NEW q \in Processes, q # p PROVE Apart(q)'
    BY <1>1, <2>1, <2>3 DEF IInv, Typed, Active
  <2>4. Apart(p)'
    BY <2>1 DEF IInv, Typed, NamesInv, NamedFor, Active
  <2> QED BY <2>2, <2>3, <2>4 DEF NamesInv
<1>3. ASSUME NEW p \in Processes, FailToSign(p) \/ Verify(p) \/ Crash(p) PROVE NamesInv'
  <2>1. UNCHANGED <<file, request, loaded>> /\ phase' = [phase EXCEPT ![p] = "done"]
    BY <1>3 DEF FailToSign, Verify, Crash, Exit
  <2>2. \A q \in Processes : Apart(q)'
    BY <1>1, <2>1 DEF IInv, Typed, Active
  <2>3. Named
    BY <2>1, SameNames
  <2> QED BY <2>2, <2>3 DEF NamesInv
<1>4. ASSUME NEW p \in Processes, SignAndOpen(p) PROVE NamesInv'
  <2>1. /\ UNCHANGED <<request, loaded>> /\ phase[p] = "loaded"
        /\ phase' = [phase EXCEPT ![p] = "writing"]
        /\ \A f : file'[f] \in {file[f], Torn}
    BY <1>4 DEF SignAndOpen, Signing, IInv, Typed
  <2>2. \A q \in Processes : Apart(q)'
    BY <1>1, <2>1 DEF IInv, Typed, Active
  <2>3. Named
    BY <2>1, SameNames
  <2> QED BY <2>2, <2>3 DEF NamesInv
<1>5. ASSUME NEW p \in Processes, Write(p) PROVE NamesInv'
  <2>1. UNCHANGED <<request, loaded>> /\ phase' = [phase EXCEPT ![p] = "done"]
    BY <1>5 DEF Write, Exit
  <2>2. \A q \in Processes : Apart(q)'
    BY <1>1, <2>1 DEF IInv, Typed, Active
  <2>3. Named
    BY <1>5, WriteNames
  <2> QED BY <2>2, <2>3 DEF NamesInv
<1>6. ASSUME NEW f \in Paths, NEW payload \in Payloads, EditPayload(f, payload) PROVE NamesInv'
  <2>1. /\ UNCHANGED <<phase, request, loaded>> /\ IsDocument(file[f])
        /\ file' = [file EXCEPT ![f].payload = payload]
    BY <1>6 DEF EditPayload
  <2>2. \A q \in Processes : Apart(q)'
    BY <1>1, <2>1 DEF Active
  <2>3. ASSUME NEW keyid \in Keyids PROVE NamedFor(file'[LinkFile[keyid]], keyid)
    <3>1. file[f] \in Document
      BY <2>1 DEF IInv, Typed, Content, IsDocument
    <3>2. /\ file'[f].type = file[f].type /\ file'[f].signatures = file[f].signatures
          /\ \A g \in Paths \ {f} : file'[g] = file[g]
      BY <2>1, <3>1 DEF IInv, Typed, Document
    <3>3. LinkFile[keyid] \in Paths
      BY SigningAssumption
    <3>4. CASE LinkFile[keyid] = f
      BY <2>1, <3>2, <3>4 DEF NamesInv, NamedFor
    <3>5. CASE LinkFile[keyid] # f
      BY <3>2, <3>3, <3>5, SameNames
    <3> QED BY <3>4, <3>5
  <2> QED BY <2>2, <2>3 DEF NamesInv
<1>7. CASE UNCHANGED vars
  <2>1. UNCHANGED <<file, phase, request, loaded>>
    BY <1>7 DEF vars
  <2>2. \A q \in Processes : Apart(q)'
    BY <1>1, <2>1 DEF Active
  <2>3. Named
    BY <2>1, SameNames
  <2> QED BY <2>2, <2>3 DEF NamesInv
<1> QED BY <1>2, <1>3, <1>4, <1>5, <1>6, <1>7 DEF Next

-----------------------------------------------------------------------------
(* What follows *)

\* Types, and (if files begin as their names say and --output names no link
\* file) a link file has one signature, by the key its name tells: main refuses
\* more than one key and appending for a link, and _sign_and_dump_metadata names
\* the file after the signature it has made.
THEOREM TypeCorrect ==
  ASSUME NamesRespected
  PROVE  Spec => []TypeOK
<1>1. IInv /\ NamesInv => TypeOK
  <2> SUFFICES ASSUME IInv, NamesInv PROVE TypeOK
    OBVIOUS
  <2>1. \A f \in Paths : IsDocument(file[f]) => file[f] \in Document
    BY DEF IInv, Typed, Content, IsDocument
  <2>2. \A p \in Processes : /\ phase[p] \in {"idle", "loaded", "writing", "done"}
                             /\ exit[p] \in {None, 0, 1, 2}
                             /\ phase[p] \in {"loaded", "writing"} => loaded[p] \in Document
    BY DEF IInv, Typed, RunOK, Active
  <2> QED BY <2>1, <2>2 DEF TypeOK, NamesInv
<1>2. Init => IInv /\ NamesInv
  BY InitIInv, InitNames
<1>3. IInv /\ NamesInv /\ [Next]_vars => (IInv /\ NamesInv)'
  BY NextIInv, NextNames
<1> QED BY <1>1, <1>2, <1>3, PTL DEF Spec

\* Exit code 0 is the truth: of --verify, each of the keys has signed this
\* payload; of signing, what was written verifies for each key, unless a stale
\* signature of that key is in front of the new one in a Metablock.
THEOREM ExitsCorrect == Spec => []ExitsTruthfully
<1>1. IInv => ExitsTruthfully
  <2> SUFFICES ASSUME IInv, NEW p \in Processes, phase[p] = "done" /\ exit[p] = 0
               PROVE  IF request[p].verify
                      THEN \A key \in Seqs!ToSet(request[p].keys) :
                             \E keyid \in Ids(key) : <<keyid, loaded[p].payload>> \in made
                      ELSE \A key \in Seqs!ToSet(SigningKeys(request[p])) :
                             \/ Verifies(Signed(p), key)
                             \/ /\ request[p].append /\ loaded[p].kind = "metablock"
                                /\ \E i \in DOMAIN loaded[p].signatures :
                                     LET s == loaded[p].signatures[i]
                                     IN  s.keyid \in Ids(key) /\ s.payload # loaded[p].payload
    BY DEF ExitsTruthfully
  <2>1. /\ request[p] \in Requests /\ loaded[p] \in Document
        /\ request[p].verify =>
             \A key \in Seqs!ToSet(request[p].keys) :
               \E keyid \in Ids(key) : <<keyid, loaded[p].payload>> \in made
        /\ ~request[p].verify => ~KeysFail(request[p], loaded[p])
    BY DEF IInv, ExitOK
  <2>2. CASE request[p].verify
    BY <2>1, <2>2
  <2>3. CASE ~request[p].verify
    BY <2>1, <2>3, SignedVerifies
  <2> QED BY <2>2, <2>3
<1> QED BY <1>1, Invariance, PTL

\* Signatures that successful runs have put into a file stay there until a run
\* replaces them, is killed while it writes, or writes what it had loaded before.
THEOREM KeptCorrect == Spec => []SignaturesKept
<1>1. IInv => SignaturesKept
  BY DEF IInv, KeptOK, SignaturesKept
<1> QED BY <1>1, Invariance, PTL
=============================================================================
