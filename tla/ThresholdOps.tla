---------------------------- MODULE ThresholdOps ----------------------------
(***************************************************************************)
(* Layouts, metadata files and the operators that decide which links of a  *)
(* step count (verify_link_signature_thresholds, verify_threshold_         *)
(* constraints, reduce_chain_links in verifylib, and verify_signature of   *)
(* the two containers in models/metadata).                                 *)
(*                                                                         *)
(* Of a metadata file the model keeps its container, its signatures as     *)
(* (keyid, is it good?) in file order, and its payload.                    *)
(***************************************************************************)
EXTENDS Integers, Sequences, FiniteSets

CONSTANTS Keyids,       \* keyids of main keys and of their gpg subkeys
          StepNames,
          Payloads      \* what metadata may hold

Signature == [keyid : Keyids, good : BOOLEAN]
Doc == [container : {"metablock", "envelope"}, signatures : Seq(Signature),
        payload : Payloads]

Elements(s) == {s[i] : i \in DOMAIN s}

\* What the validation of a layout checks: its key store maps a main key to its
\* subkeys, and steps have unique names.
Validated(layout) ==
  /\ DOMAIN layout.keys \subseteq Keyids
  /\ \A m \in DOMAIN layout.keys : layout.keys[m] \in Seq(Keyids)
  /\ \A i \in DOMAIN layout.steps :
       /\ layout.steps[i].name \in StepNames
       /\ layout.steps[i].pubkeys \in Seq(Keyids)
       /\ layout.steps[i].threshold \in Int
  /\ \A i, j \in DOMAIN layout.steps :
       layout.steps[i].name = layout.steps[j].name => i = j

\* An assumption, which verify_link_signature_thresholds states in a comment ("a given
\* subkey can only belong to one master key") and no code enforces; and that no subkey
\* is a main key.
SubkeysApart(layout) ==
  /\ \A m \in DOMAIN layout.keys : Elements(layout.keys[m]) \cap DOMAIN layout.keys = {}
  /\ \A m, n \in DOMAIN layout.keys :
       m # n => Elements(layout.keys[m]) \cap Elements(layout.keys[n]) = {}

WellFormed(layout) == Validated(layout) /\ SubkeysApart(layout)

(***************************************************************************)
(* A dict keeps the order in which its keys were first inserted.           *)
(***************************************************************************)
EmptyDict == [order |-> << >>, at |-> << >>]
KeysOf(dict) == DOMAIN dict.at

\* (mutant) A key that is assigned again is listed again.
PutAgain(dict, k, v) ==
  [order |-> Append(dict.order, k),
   at |-> [x \in KeysOf(dict) \cup {k} |-> IF x = k THEN v ELSE dict.at[x]]]

Put(dict, k, v) ==
  [order |-> IF k \in KeysOf(dict) THEN dict.order ELSE Append(dict.order, k),
   at |-> [x \in KeysOf(dict) \cup {k} |-> IF x = k THEN v ELSE dict.at[x]]]

\* The elements of a finite set S in the order R, which is total on it.
Sorted(S, R) ==
  [n \in 1 .. Cardinality(S) |->
     CHOOSE x \in S : Cardinality({y \in S : <<y, x>> \in R}) = n]

\* The keys of keep in the order they have in s.
InOrder(s, keep) ==
  LET kept == {i \in DOMAIN s : s[i] \in keep}
      positions == Sorted(kept, {p \in kept \X kept : p[1] <= p[2]})
  IN  [n \in DOMAIN positions |-> s[positions[n]]]

\* The dict of the keys in keep (of is applied to a set, and TLC evaluates it once).
Keeping(dict, keep) ==
  LET of[kept \in SUBSET KeysOf(dict)] ==
        [order |-> InOrder(dict.order, kept), at |-> [k \in kept |-> dict.at[k]]]
  IN  of[KeysOf(dict) \cap keep]

PayloadsOf(dict) ==
  [order |-> dict.order, at |-> [k \in KeysOf(dict) |-> dict.at[k].payload]]

\* list(dict.values())[0]
FirstValue(dict) == dict.at[dict.order[1]]

(***************************************************************************)
(* Keys and signatures.                                                    *)
(***************************************************************************)
SubkeysOf(layout, m) == IF m \in DOMAIN layout.keys THEN Elements(layout.keys[m]) ELSE {}
KeyWithSubkeys(layout, m) == {m} \cup SubkeysOf(layout, m)

\* main_keys_for_subkeys.get(k), as a set of at most one key
MainOfSubkey(layout, k) == {m \in DOMAIN layout.keys : k \in SubkeysOf(layout, m)}

\* The key an entry of step.pubkeys makes responsible for a link named by
\* link_keyid: itself, its main key, or the main key whose subkey link_keyid is.
Responsible(layout, authorized, link_keyid) ==
  {m \in DOMAIN layout.keys :
     \/ m = authorized /\ link_keyid \in KeyWithSubkeys(layout, m)
     \/ m \in MainOfSubkey(layout, authorized) /\ link_keyid = authorized}

\* The inner for-else: the key found by the first entry of pubkeys that finds one.
VerificationKey(layout, pubkeys, link_keyid) ==
  LET finds == {i \in DOMAIN pubkeys : Responsible(layout, pubkeys[i], link_keyid) # {}}
      first == CHOOSE i \in finds : \A j \in finds : i <= j
  IN  IF finds = {} THEN {} ELSE Responsible(layout, pubkeys[first], link_keyid)

\* (mutant) Any good signature of the file counts, whoever made it.
VerifySignatureByAnyone(doc, own, m) == \E s \in Elements(doc.signatures) : s.good

\* An Envelope makes a Key of the key of keyid m, own being m and its subkeys; what gpg
\* exports, told by its subkeys here, is no input for Key.from_dict (ValueError).
NoKey(doc, own, m) == doc.container = "envelope" /\ own # {m}

\* Does Metadata.verify_signature return?  A Metablock looks at the first signature by
\* m or a subkey and at no other; an Envelope needs any good signature by m.
VerifySignature(doc, own, m) ==
  LET sigs == doc.signatures
      mine == {i \in DOMAIN sigs : sigs[i].keyid \in own}
  IN  \/ /\ doc.container = "metablock"
         /\ \E i \in mine : sigs[i].good /\ \A j \in mine : i <= j
      \/ /\ doc.container = "envelope" /\ ~NoKey(doc, own, m)
         /\ \E i \in DOMAIN sigs : sigs[i].keyid = m /\ sigs[i].good

\* verified_key_link_dict: the links whose responsible key verifies them.
Verified(layout, pubkeys, dict) ==
  {k \in KeysOf(dict) :
     \E m \in VerificationKey(layout, pubkeys, k) :
       VerifySignature(dict.at[k], KeyWithSubkeys(layout, m), m)}

\* The ValueError, which is not caught.
ValueErrorRaised(layout, pubkeys, dict) ==
  \E k \in KeysOf(dict) : \E m \in VerificationKey(layout, pubkeys, k) :
    NoKey(dict.at[k], KeyWithSubkeys(layout, m), m)

\* (mutant) used_main_keyids collects the keyids links are filed under.
UsedLinkKeyids(layout, pubkeys, dict) == Verified(layout, pubkeys, dict)

UsedMainKeyids(layout, pubkeys, dict) ==
  UNION {VerificationKey(layout, pubkeys, k) : k \in Verified(layout, pubkeys, dict)}

\* (mutant) Only the first two links are compared.
DisagreeFirstTwo(links) ==
  Len(links.order) > 1 /\ links.at[links.order[2]] # FirstValue(links)

\* Some link reports other materials or products than the first one.
Disagree(links) == \E k \in KeysOf(links) : links.at[k] # FirstValue(links)

(***************************************************************************)
(* Who vouches for what, independently of dicts, file names and order.     *)
(***************************************************************************)

\* The main keys whose keyid, or a subkey's, the step lists.
AuthorizedMains(layout, st) ==
  {m \in DOMAIN layout.keys : KeyWithSubkeys(layout, m) \cap Elements(st.pubkeys) # {}}

Signed(layout, m, doc) ==
  \E s \in Elements(doc.signatures) : s.good /\ s.keyid \in KeyWithSubkeys(layout, m)
=============================================================================
