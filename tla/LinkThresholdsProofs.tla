------------------------ MODULE LinkThresholdsProofs ------------------------
(***************************************************************************)
(* Safety of LinkThresholds for every layout, directory and publication,   *)
(* and its refinement of ThresholdPromise.                                 *)
(***************************************************************************)
EXTENDS LinkThresholds, ThresholdOpsProofs

(***************************************************************************)
(* The inductive invariant.  The loops of the four functions are somewhere *)
(* in their ranges (Position).  What a file, a dict under construction or  *)
(* a finished dict holds has been published for its step (Sources); this   *)
(* connects files that were read at different moments.  The dicts are      *)
(* those of the steps done so far (Dicts).  Each function's check holds of *)
(* the steps that its loop has passed, and no later one undoes it          *)
(* (OnlyAuthorizedLinks, EnoughFunctionaries, Agreement).                  *)
(***************************************************************************)
Subkeys(k) == IF k \in DOMAIN layout.keys THEN Len(layout.keys[k]) ELSE 0

Position ==
  /\ layout \in Layouts
  /\ writing \subseteq FileName /\ dumps \in 0 .. MaxDumps
  /\ phase \in {"load", "signatures", "constraints", "reduce"}
  /\ step \in 1 .. Len(layout.steps) + 1
  /\ status \in {"working", "passed"} \cup Errors
  /\ phase = "load" /\ step \in DOMAIN layout.steps =>
       /\ pubkey \in 1 .. Len(ThisStep.pubkeys) + 1 /\ subkey \in Nat
       /\ pubkey <= Len(ThisStep.pubkeys) => subkey <= Subkeys(ThisStep.pubkeys[pubkey])
       /\ pubkey = Len(ThisStep.pubkeys) + 1 => subkey = 0
  /\ phase = "load" /\ step = Len(layout.steps) + 1 => pubkey = 1 /\ subkey = 0

Sources ==
  /\ IsDirectory(disk)
  /\ published \in [StepNames -> SUBSET Doc]
  /\ \A f \in FileName : disk[f].kind = "metadata" => disk[f].doc \in published[f[1]]

\* The names of the steps that have a dict.
Done ==
  {layout.steps[i].name : i \in {j \in DOMAIN layout.steps : phase = "load" => j < step}}

Dicts ==
  /\ Listed(links_per_step)
  /\ KeysOf(links_per_step) # {} => phase = "load" /\ step \in DOMAIN layout.steps
  /\ \A k \in KeysOf(links_per_step) : links_per_step.at[k] \in published[ThisStep.name]
  /\ DOMAIN steps_metadata = Done
  /\ \A n \in Done : /\ Listed(steps_metadata[n])
                     /\ \A k \in KeysOf(steps_metadata[n]) :
                          steps_metadata[n].at[k] \in published[n]

\* Links were compared where the threshold is more than one.
Agreed(i) ==
  \/ phase = "reduce"
  \/ phase = "constraints" /\ i < step

Agreement ==
  \A i \in DOMAIN layout.steps : Agreed(i) /\ layout.steps[i].threshold > 1 =>
    LET dict == steps_metadata[layout.steps[i].name]
    IN  \A k, l \in KeysOf(dict) : dict.at[k].payload = dict.at[l].payload

IInv ==
  Position /\ Sources /\ Dicts /\ OnlyAuthorizedLinks /\ EnoughFunctionaries /\ Agreement

-----------------------------------------------------------------------------
(* Layouts and files *)

\* What ThresholdsAssumption says of the layout in hand.
LEMMA LayoutFacts ==
  ASSUME layout \in Layouts
  PROVE  /\ WellFormed(layout)
         /\ Len(layout.steps) \in Nat /\ DOMAIN layout.steps = 1 .. Len(layout.steps)
         /\ \A i \in DOMAIN layout.steps :
              /\ layout.steps[i].name \in StepNames
              /\ layout.steps[i].pubkeys \in Seq(Keyids)
              /\ Len(layout.steps[i].pubkeys) \in Nat
              /\ layout.steps[i].threshold \in Int
         /\ \A i, j \in DOMAIN layout.steps :
              layout.steps[i].name = layout.steps[j].name => i = j
         /\ \A m \in DOMAIN layout.keys : Len(layout.keys[m]) \in Nat
<1>1. WellFormed(layout)
  BY ThresholdsAssumption
<1>2. Len(layout.steps) \in Nat /\ DOMAIN layout.steps = 1 .. Len(layout.steps)
  BY ThresholdsAssumption, LenProperties
<1> QED BY <1>1, <1>2, LenProperties DEF WellFormed, Validated, SubkeysApart

LEMMA Contents ==
  /\ IsContent(Absent) /\ IsContent(Torn)
  /\ \A doc \in Doc : IsContent(Holding(doc)) /\ Holding(doc).kind = "metadata"
                      /\ Holding(doc).doc = doc
  /\ Absent.kind = "absent" /\ Torn.kind = "torn"
  /\ \A c : IsContent(c) => /\ c.kind \in {"absent", "torn", "metadata"}
                            /\ c.kind = "metadata" => c.doc \in Doc
BY DEF IsContent, Absent, Torn, Holding

\* The keyid of the file at hand.
LEMMA LoadingFacts ==
  ASSUME Position, Running("load"), pubkey <= Len(ThisStep.pubkeys)
  PROVE  /\ step \in DOMAIN layout.steps
         /\ LoadingKeyid \in Keyids
         /\ <<ThisStep.name, Short[LoadingKeyid]>> \in FileName
         /\ ThisStep.name \in StepNames
<1>1. step \in DOMAIN layout.steps /\ layout \in Layouts
  BY LayoutFacts DEF Position, Running
<1>2. pubkey \in 1 .. Len(ThisStep.pubkeys) /\ subkey \in 0 .. Subkeys(ThisStep.pubkeys[pubkey])
  BY <1>1, LayoutFacts DEF Position, Running, ThisStep, Subkeys
<1>3. ThisStep.pubkeys[pubkey] \in Keyids
  BY <1>1, <1>2, LayoutFacts, ElementOfSeq DEF ThisStep
<1>4. LoadingKeyid \in Keyids
  <2>1. CASE subkey = 0
    BY <1>3, <2>1 DEF LoadingKeyid
  <2>2. CASE subkey # 0
    <3>1. /\ ThisStep.pubkeys[pubkey] \in DOMAIN layout.keys
          /\ subkey \in 1 .. Len(layout.keys[ThisStep.pubkeys[pubkey]])
      BY <1>2, <2>2 DEF Subkeys
    <3>2. layout.keys[ThisStep.pubkeys[pubkey]] \in Seq(Keyids)
      BY <1>1, <3>1, LayoutFacts DEF WellFormed, Validated, SubkeysApart
    <3> QED BY <2>2, <3>1, <3>2, ElementOfSeq DEF LoadingKeyid
  <2> QED BY <2>1, <2>2
<1> QED BY <1>1, <1>4, LayoutFacts DEF FileName, ThisStep

-----------------------------------------------------------------------------
(* The invariant holds initially and is kept by every step. *)

LEMMA InitIInv == Init => IInv
<1> SUFFICES ASSUME Init PROVE IInv
  OBVIOUS
<1>1. layout \in Layouts /\ MaxDumps \in Nat
  BY ThresholdsAssumption DEF Init
<1>2. Position
  <2>1. step \in 1 .. Len(layout.steps) + 1 /\ step = 1 /\ pubkey = 1 /\ subkey = 0
    BY <1>1, LayoutFacts DEF Init
  <2>2. \A k : Subkeys(k) \in Nat
    BY <1>1, LayoutFacts DEF Subkeys
  <2>3. step \in DOMAIN layout.steps => Len(ThisStep.pubkeys) \in Nat
    BY <1>1, LayoutFacts DEF ThisStep
  <2> QED BY <1>1, <2>1, <2>2, <2>3 DEF Init, Position
<1>3. Sources
  <2>1. IsDirectory(disk)
    BY <1>1, ThresholdsAssumption DEF Init
  <2>2. \A f \in FileName : disk[f].kind = "metadata" => disk[f].doc \in Doc
    BY <2>1, Contents DEF IsDirectory
  <2>3. published \in [StepNames -> SUBSET Doc]
    BY <2>2 DEF Init, InFiles
  <2>4. \A f \in FileName : f[1] \in StepNames
    BY DEF FileName
  <2>5. \A f \in FileName : disk[f].kind = "metadata" => disk[f].doc \in published[f[1]]
    BY <2>4 DEF Init, InFiles
  <2> QED BY <2>1, <2>3, <2>5 DEF Sources
<1>4. Dicts
  <2>1. Done = {}
    BY <1>1, LayoutFacts DEF Init, Done
  <2>2. DOMAIN steps_metadata = {}
    BY DEF Init
  <2> QED BY <2>1, <2>2, EmptyListed DEF Init, Dicts
<1>5. OnlyAuthorizedLinks /\ EnoughFunctionaries /\ Agreement
  BY DEF Init, OnlyAuthorizedLinks, EnoughFunctionaries, Agreement, Checked, Agreed
<1> QED BY <1>2, <1>3, <1>4, <1>5 DEF IInv

\* Nothing about the dicts changes while no step is checked further.
LEMMA NotFurther ==
  ASSUME OnlyAuthorizedLinks, EnoughFunctionaries, Agreement,
         layout' = layout, steps_metadata' = steps_metadata,
         \A i \in DOMAIN layout.steps : Checked(i)' => Checked(i),
         \A i \in DOMAIN layout.steps :
           Agreed(i)' => Agreed(i) \/ ~ (layout.steps[i].threshold > 1)
  PROVE  (OnlyAuthorizedLinks /\ EnoughFunctionaries /\ Agreement)'
<1>1. OnlyAuthorizedLinks'
  BY DEF OnlyAuthorizedLinks
<1>2. EnoughFunctionaries'
  BY DEF EnoughFunctionaries
<1>3. Agreement'
  BY DEF Agreement
<1> QED BY <1>1, <1>2, <1>3

\* Raising leaves everything else as it is.
LEMMA FailStep == ASSUME IInv, NEW error \in Errors, Fail(error) PROVE IInv'
<1>1. /\ UNCHANGED <<layout, directory, history, phase, step, pubkey, subkey, links_per_step,
                     steps_metadata, reduced>>
      /\ status' \in Errors
  BY DEF Fail
<1>2. Position'
  BY <1>1 DEF IInv, Position, directory, Subkeys, ThisStep
<1>3. (Sources /\ Dicts)'
  BY <1>1 DEF IInv, Sources, Dicts, directory, history, Done, ThisStep, IsDirectory
<1>4. (OnlyAuthorizedLinks /\ EnoughFunctionaries /\ Agreement)'
  BY <1>1, NotFurther DEF IInv, Checked, Agreed
<1> QED BY <1>2, <1>3, <1>4 DEF IInv

\* A file read while loading adds a link that is published for the step at hand.
LEMMA LoadLinkStep == ASSUME IInv, LoadLink PROVE IInv'
<1> DEFINE authorized == ThisStep.pubkeys[pubkey]
           content == disk[<<ThisStep.name, Short[LoadingKeyid]>>]
<1>1. /\ Running("load") /\ pubkey <= Len(ThisStep.pubkeys)
      /\ step \in DOMAIN layout.steps /\ LoadingKeyid \in Keyids
      /\ <<ThisStep.name, Short[LoadingKeyid]>> \in FileName /\ ThisStep.name \in StepNames
  BY LoadingFacts DEF LoadLink, IInv
<1>2. CASE content.kind = "torn"
  <2>1. Fail("JSONDecodeError")
    BY <1>2 DEF LoadLink
  <2> QED BY <2>1, FailStep DEF Errors
<1>3. CASE content.kind # "torn"
  <2>1. /\ links_per_step' = IF content.kind = "absent" THEN links_per_step
                             ELSE Put(links_per_step, LoadingKeyid, content.doc)
        /\ \/ subkey < Subkeys(authorized) /\ subkey' = subkey + 1 /\ pubkey' = pubkey
           \/ ~ (subkey < Subkeys(authorized)) /\ subkey' = 0 /\ pubkey' = pubkey + 1
        /\ UNCHANGED <<layout, directory, history, phase, step, steps_metadata, reduced, status>>
    BY <1>3 DEF LoadLink, Subkeys
  <2>2. Position'
    <3>1. /\ layout \in Layouts /\ Len(ThisStep.pubkeys) \in Nat
          /\ pubkey \in 1 .. Len(ThisStep.pubkeys) + 1 /\ subkey \in Nat
          /\ \A k : Subkeys(k) \in Nat /\ Subkeys(k)' = Subkeys(k)
          /\ ThisStep' = ThisStep
          /\ Len(layout.steps) \in Nat /\ DOMAIN layout.steps = 1 .. Len(layout.steps)
      BY <1>1, <2>1, LayoutFacts DEF IInv, Position, ThisStep, Subkeys, Running
    <3>2. /\ pubkey' \in 1 .. Len(ThisStep.pubkeys) + 1 /\ subkey' \in Nat
          /\ pubkey' <= Len(ThisStep.pubkeys) => subkey' <= Subkeys(ThisStep.pubkeys[pubkey'])
          /\ pubkey' = Len(ThisStep.pubkeys) + 1 => subkey' = 0
      BY <1>1, <2>1, <3>1
    <3>3. step # Len(layout.steps) + 1
      BY <1>1, <3>1
    <3> QED BY <2>1, <3>1, <3>2, <3>3 DEF IInv, Position, directory
  <2>3. Sources'
    BY <2>1 DEF IInv, Sources, directory, history, IsDirectory
  <2>4. Dicts'
    <3>1. Done' = Done /\ ThisStep' = ThisStep /\ published' = published
      BY <2>1 DEF Done, ThisStep, history
    <3>2. /\ Listed(links_per_step')
          /\ \A k \in KeysOf(links_per_step') : links_per_step'.at[k] \in published[ThisStep.name]
      <4>1. CASE content.kind = "absent"
        BY <2>1, <4>1 DEF IInv, Dicts
      <4>2. CASE content.kind = "metadata"
        <5>1. content.doc \in published[ThisStep.name]
          BY <1>1, <4>2 DEF IInv, Sources
        <5>2. links_per_step' = Put(links_per_step, LoadingKeyid, content.doc)
          BY <2>1, <4>2
        <5> QED BY <1>1, <5>1, <5>2, PutListed DEF IInv, Dicts
      <4> QED BY <1>1, <1>3, <4>1, <4>2, Contents DEF IInv, Sources, IsDirectory
    <3> QED BY <1>1, <2>1, <3>1, <3>2 DEF IInv, Dicts, Running
  <2>5. (OnlyAuthorizedLinks /\ EnoughFunctionaries /\ Agreement)'
    BY <2>1, NotFurther DEF IInv, Checked, Agreed
  <2> QED BY <2>2, <2>3, <2>4, <2>5 DEF IInv
<1> QED BY <1>2, <1>3

LEMMA CheckLoadedStep == ASSUME IInv, CheckLoaded PROVE IInv'
<1> DEFINE n == ThisStep.name
<1>1. CASE Cardinality(KeysOf(links_per_step)) < ThisStep.threshold
  BY <1>1, FailStep DEF CheckLoaded, Errors
<1>2. CASE ~ (Cardinality(KeysOf(links_per_step)) < ThisStep.threshold)
  <2>1. /\ Running("load")
        /\ steps_metadata' = [x \in DOMAIN steps_metadata \cup {n} |->
                                IF x = n THEN links_per_step ELSE steps_metadata[x]]
        /\ links_per_step' = EmptyDict
        /\ pubkey' = 1 /\ subkey' = 0 /\ step' = step + 1
        /\ UNCHANGED <<layout, directory, history, phase, reduced, status>>
    BY <1>2 DEF CheckLoaded
  <2>2. /\ layout \in Layouts /\ step \in DOMAIN layout.steps
        /\ Len(layout.steps) \in Nat /\ DOMAIN layout.steps = 1 .. Len(layout.steps)
        /\ step \in 1 .. Len(layout.steps)
    BY <2>1, LayoutFacts DEF IInv, Position, Running
  <2>3. Position'
    <3>1. \A k : Subkeys(k)' \in Nat
      BY <2>1, <2>2, LayoutFacts DEF Subkeys
    <3>2. step' \in DOMAIN layout.steps => Len(ThisStep'.pubkeys) \in Nat
      BY <2>1, <2>2, LayoutFacts DEF ThisStep
    <3> QED BY <2>1, <2>2, <3>1, <3>2 DEF IInv, Position, directory
  <2>4. Sources'
    BY <2>1 DEF IInv, Sources, directory, history, IsDirectory
  <2>5. Dicts'
    <3>1. Done' = Done \cup {n} /\ n \notin Done
      <4>1. phase = "load" /\ phase' = "load"
        BY <2>1 DEF Running
      <4>2. \A j \in DOMAIN layout.steps : j < step + 1 <=> j < step \/ j = step
        BY <2>2
      <4>3. Done' = Done \cup {n}
        BY <2>1, <2>2, <4>1, <4>2 DEF Done, ThisStep
      <4>4. \A j \in DOMAIN layout.steps : layout.steps[j].name = n => j = step
        BY <2>2, LayoutFacts DEF ThisStep
      <4>5. n \notin Done
        BY <2>2, <4>1, <4>4 DEF Done
      <4> QED BY <4>3, <4>5
    <3>2. \A x \in Done : steps_metadata'[x] = steps_metadata[x]
      BY <2>1, <3>1 DEF IInv, Dicts
    <3>3. steps_metadata'[n] = links_per_step
      BY <2>1
    <3> QED BY <2>1, <3>1, <3>2, <3>3, EmptyListed DEF IInv, Dicts, history
  <2>6. (OnlyAuthorizedLinks /\ EnoughFunctionaries /\ Agreement)'
    <3>1. phase' = "load"
      BY <2>1 DEF Running
    <3> QED BY <3>1 DEF OnlyAuthorizedLinks, EnoughFunctionaries, Agreement, Checked, Agreed
  <2> QED BY <2>3, <2>4, <2>5, <2>6 DEF IInv
<1> QED BY <1>1, <1>2

\* The end of a loop checks nothing further.
LEMMA LoopEndsStep ==
  ASSUME IInv, NEW p, NEW next, LoopEnds(p, next),
         <<p, next>> \in {<<"load", "signatures">>, <<"signatures", "constraints">>,
                          <<"constraints", "reduce">>}
  PROVE  IInv'
<1>1. /\ phase = p /\ step = Len(layout.steps) + 1 /\ phase' = next /\ step' = 1
      /\ UNCHANGED <<layout, directory, history, pubkey, subkey, links_per_step,
                     steps_metadata, reduced, status>>
  BY DEF LoopEnds
<1>2. /\ layout \in Layouts
      /\ Len(layout.steps) \in Nat /\ DOMAIN layout.steps = 1 .. Len(layout.steps)
  BY LayoutFacts DEF IInv, Position
<1>3. next # "load" /\ next \in {"signatures", "constraints", "reduce"}
  OBVIOUS
<1>4. Position'
  BY <1>1, <1>2, <1>3 DEF IInv, Position, directory
<1>5. Sources'
  BY <1>1 DEF IInv, Sources, directory, history, IsDirectory
<1>6. Dicts'
  <2>1. Done' = Done
    BY <1>1, <1>2, <1>3 DEF Done
  <2>2. KeysOf(links_per_step) = {}
    BY <1>1, <1>2 DEF IInv, Dicts
  <2> QED BY <1>1, <2>1, <2>2 DEF IInv, Dicts, history
<1>7. (OnlyAuthorizedLinks /\ EnoughFunctionaries /\ Agreement)'
  <2>1. \A i \in DOMAIN layout.steps : Checked(i)' => Checked(i)
    BY <1>1, <1>2 DEF Checked
  <2>2. \A i \in DOMAIN layout.steps : Agreed(i)' => Agreed(i)
    BY <1>1, <1>2 DEF Agreed
  <2> QED BY <1>1, <2>1, <2>2, NotFurther DEF IInv
<1> QED BY <1>4, <1>5, <1>6, <1>7 DEF IInv

\* Checking the signatures of a step leaves, of its links, those that a main key
\* authorized for the step has signed, and raises if these keys are too few.
LEMMA VerifySignaturesStep == ASSUME IInv, VerifySignatures PROVE IInv'
<1> DEFINE dict == steps_metadata[ThisStep.name]
           used == UsedMainKeyids(layout, ThisStep.pubkeys, dict)
           verified == Verified(layout, ThisStep.pubkeys, dict)
           kept == Keeping(dict, verified)
           n == ThisStep.name
<1> DEFINE refused == ValueErrorRaised(layout, ThisStep.pubkeys, dict)
<1>1. CASE refused \/ Cardinality(used) < ThisStep.threshold
  BY <1>1, FailStep DEF VerifySignatures, Errors
<1>2. CASE ~ refused /\ ~ (Cardinality(used) < ThisStep.threshold)
  <2>1. /\ Running("signatures")
        /\ steps_metadata' = [steps_metadata EXCEPT ![n] = kept]
        /\ step' = step + 1
        /\ UNCHANGED <<layout, directory, history, phase, pubkey, subkey, links_per_step,
                       reduced, status>>
    BY <1>2 DEF VerifySignatures
  <2>2. /\ layout \in Layouts /\ step \in DOMAIN layout.steps
        /\ Len(layout.steps) \in Nat /\ DOMAIN layout.steps = 1 .. Len(layout.steps)
        /\ phase = "signatures"
    BY <2>1, LayoutFacts DEF IInv, Position, Running
  <2>3. ThisStep.pubkeys \in Seq(Keyids) /\ ThisStep.threshold \in Int
    BY <2>2, LayoutFacts DEF ThisStep
  <2>4. n \in Done /\ Listed(dict) /\ n \in DOMAIN steps_metadata
    BY <2>2 DEF Done, ThisStep, IInv, Dicts
  <2>5. /\ Listed(kept) /\ KeysOf(kept) = KeysOf(dict) \cap verified
        /\ \A k \in KeysOf(dict) \cap verified : kept.at[k] = dict.at[k]
    BY <2>4, KeepingListed
  <2>6. /\ steps_metadata'[n] = kept /\ DOMAIN steps_metadata' = DOMAIN steps_metadata
        /\ \A x \in DOMAIN steps_metadata \ {n} : steps_metadata'[x] = steps_metadata[x]
    BY <2>1, <2>4
  <2>7. Position'
    BY <2>1, <2>2 DEF IInv, Position, directory
  <2>8. Sources'
    BY <2>1 DEF IInv, Sources, directory, history, IsDirectory
  <2>9. Dicts'
    <3>1. Done' = Done
      BY <2>1, <2>2 DEF Done
    <3>2. KeysOf(links_per_step) = {}
      BY <2>2 DEF IInv, Dicts
    <3> QED BY <2>1, <2>4, <2>5, <2>6, <3>1, <3>2 DEF IInv, Dicts, history
  <2>10. \A i \in DOMAIN layout.steps : i # step => layout.steps[i].name \in Done \ {n}
    BY <2>2, LayoutFacts DEF Done, ThisStep
  <2>11. \A i \in DOMAIN layout.steps : Checked(i)' => i = step \/ (i # step /\ Checked(i))
    BY <2>1, <2>2 DEF Checked
  <2>12. \A i \in DOMAIN layout.steps : i # step =>
           steps_metadata'[layout.steps[i].name] = steps_metadata[layout.steps[i].name]
    BY <2>6, <2>10 DEF IInv, Dicts
  <2>13. OnlyAuthorizedLinks'
    <3>1. ASSUME NEW k \in KeysOf(kept)
          PROVE  \E m \in AuthorizedMains(layout, ThisStep) : Signed(layout, m, kept.at[k])
      <4>1. PICK m \in VerificationKey(layout, ThisStep.pubkeys, k) :
              VerifySignature(dict.at[k], KeyWithSubkeys(layout, m), m)
        BY <2>5, <3>1 DEF Verified
      <4>2. m \in AuthorizedMains(layout, ThisStep)
        BY <2>3, <4>1, VerificationKeyAuthorized
      <4> QED BY <2>5, <3>1, <4>1, <4>2, VerifiedIsSigned
    <3>2. ASSUME NEW i \in DOMAIN layout.steps, Checked(i)'
          PROVE  \A k \in KeysOf(steps_metadata'[layout.steps[i].name]) :
                   \E m \in AuthorizedMains(layout, layout.steps[i]) :
                     Signed(layout, m, steps_metadata'[layout.steps[i].name].at[k])
      <4>1. CASE i = step
        BY <2>6, <3>1, <4>1 DEF ThisStep
      <4>2. CASE i # step /\ Checked(i)
        BY <2>12, <4>2 DEF IInv, OnlyAuthorizedLinks
      <4> QED BY <2>11, <3>2, <4>1, <4>2
    <3> QED BY <2>1, <3>2 DEF OnlyAuthorizedLinks
  <2>14. EnoughFunctionaries'
    <3>1. Cardinality({m \in AuthorizedMains(layout, ThisStep) :
                         \E k \in KeysOf(kept) : Signed(layout, m, kept.at[k])})
            >= ThisStep.threshold
      <4> DEFINE vouchers == {m \in AuthorizedMains(layout, ThisStep) :
                                \E k \in KeysOf(kept) : Signed(layout, m, kept.at[k])}
      <4>1. /\ Cardinality(used) \in Nat /\ Cardinality(vouchers) \in Nat
            /\ Cardinality(used) <= Cardinality(vouchers)
        BY <2>2, <2>3, LayoutFacts, UsedAreVouchers
      <4> HIDE DEF vouchers, used
      <4> QED BY <1>2, <2>3, <4>1 DEF vouchers
    <3>2. ASSUME NEW i \in DOMAIN layout.steps, Checked(i)'
          PROVE  LET d == steps_metadata'[layout.steps[i].name]
                 IN  Cardinality({m \in AuthorizedMains(layout, layout.steps[i]) :
                           \E k \in KeysOf(d) : Signed(layout, m, d.at[k])})
                       >= layout.steps[i].threshold
      <4>1. CASE i = step
        BY <2>6, <3>1, <4>1 DEF ThisStep
      <4>2. CASE i # step /\ Checked(i)
        BY <2>12, <4>2 DEF IInv, EnoughFunctionaries
      <4> QED BY <2>11, <3>2, <4>1, <4>2
    <3> QED BY <2>1, <3>2 DEF EnoughFunctionaries
  <2>15. Agreement'
    BY <2>1, <2>2 DEF Agreement, Agreed
  <2> QED BY <2>7, <2>8, <2>9, <2>13, <2>14, <2>15 DEF IInv
<1> QED BY <1>1, <1>2

\* Links are compared where the threshold is more than one.
LEMMA VerifyConstraintsStep == ASSUME IInv, VerifyConstraints PROVE IInv'
<1> DEFINE dict == steps_metadata[ThisStep.name]
           bad == /\ ThisStep.threshold > 1
                  /\ \/ Cardinality(KeysOf(dict)) < ThisStep.threshold
                     \/ Disagree(PayloadsOf(dict))
<1>1. CASE bad
  BY <1>1, FailStep DEF VerifyConstraints, Errors
<1>2. CASE ~ bad
  <2>1. /\ Running("constraints") /\ step' = step + 1
        /\ UNCHANGED <<layout, directory, history, phase, pubkey, subkey, links_per_step,
                       steps_metadata, reduced, status>>
    BY <1>2 DEF VerifyConstraints
  <2>2. /\ layout \in Layouts /\ step \in DOMAIN layout.steps /\ phase = "constraints"
        /\ Len(layout.steps) \in Nat /\ DOMAIN layout.steps = 1 .. Len(layout.steps)
    BY <2>1, LayoutFacts DEF IInv, Position, Running
  <2>3. Position'
    BY <2>1, <2>2 DEF IInv, Position, directory
  <2>4. Sources'
    BY <2>1 DEF IInv, Sources, directory, history, IsDirectory
  <2>5. Dicts'
    <3>1. Done' = Done
      BY <2>1, <2>2 DEF Done
    <3>2. KeysOf(links_per_step) = {}
      BY <2>2 DEF IInv, Dicts
    <3> QED BY <2>1, <3>1, <3>2 DEF IInv, Dicts, history
  <2>6. OnlyAuthorizedLinks' /\ EnoughFunctionaries'
    <3>1. \A i \in DOMAIN layout.steps : Checked(i)' => Checked(i)
      BY <2>1, <2>2 DEF Checked
    <3>2. OnlyAuthorizedLinks'
      BY <2>1, <3>1 DEF IInv, OnlyAuthorizedLinks
    <3>3. EnoughFunctionaries'
      BY <2>1, <3>1 DEF IInv, EnoughFunctionaries
    <3> QED BY <3>2, <3>3
  <2>7. Agreement'
    <3>1. ThisStep.threshold > 1 =>
            \A k, l \in KeysOf(dict) : dict.at[k].payload = dict.at[l].payload
      BY <1>2 DEF Disagree, PayloadsOf, KeysOf
    <3>2. \A i \in DOMAIN layout.steps : Agreed(i)' => i = step \/ Agreed(i)
      BY <2>1, <2>2 DEF Agreed
    <3>3. ASSUME NEW i \in DOMAIN layout.steps, Agreed(i)', layout.steps[i].threshold > 1
          PROVE  LET d == steps_metadata[layout.steps[i].name]
                 IN  \A k, l \in KeysOf(d) : d.at[k].payload = d.at[l].payload
      <4>1. CASE i = step
        BY <3>1, <3>3, <4>1 DEF ThisStep
      <4>2. CASE Agreed(i)
        BY <3>3, <4>2 DEF IInv, Agreement
      <4> QED BY <3>2, <3>3, <4>1, <4>2
    <3> QED BY <2>1, <3>3 DEF Agreement
  <2> QED BY <2>3, <2>4, <2>5, <2>6, <2>7 DEF IInv
<1> QED BY <1>1, <1>2

LEMMA ReduceStep == ASSUME IInv, Reduce PROVE IInv'
<1>1. CASE \E n \in DOMAIN steps_metadata : KeysOf(steps_metadata[n]) = {}
  BY <1>1, FailStep DEF Reduce, Errors
<1>2. CASE ~ \E n \in DOMAIN steps_metadata : KeysOf(steps_metadata[n]) = {}
  <2>1. /\ status' = "passed"
        /\ UNCHANGED <<layout, directory, history, phase, step, pubkey, subkey,
                       links_per_step, steps_metadata>>
    BY <1>2 DEF Reduce
  <2>2. Position'
    BY <2>1 DEF IInv, Position, directory, Subkeys, ThisStep
  <2>3. (Sources /\ Dicts)'
    BY <2>1 DEF IInv, Sources, Dicts, directory, history, Done, ThisStep, IsDirectory
  <2>4. (OnlyAuthorizedLinks /\ EnoughFunctionaries /\ Agreement)'
    BY <2>1, NotFurther DEF IInv, Checked, Agreed
  <2> QED BY <2>2, <2>3, <2>4 DEF IInv
<1> QED BY <1>1, <1>2

\* What functionaries do to the directory touches nothing the verifier has.
LEMMA PublishStep ==
  ASSUME IInv, Sources', UNCHANGED <<layout, verifier>>,
         writing' \subseteq FileName, dumps' \in 0 .. MaxDumps,
         \A n \in StepNames : published[n] \subseteq published'[n]
  PROVE  IInv'
<1>1. UNCHANGED <<layout, phase, step, pubkey, subkey, links_per_step, steps_metadata, reduced,
                  status>>
  BY DEF verifier
<1>2. Position'
  BY <1>1 DEF IInv, Position, Subkeys, ThisStep
<1>3. Dicts'
  <2>1. Done' = Done /\ ThisStep' = ThisStep
    BY <1>1 DEF Done, ThisStep
  <2>2. layout \in Layouts
    BY DEF IInv, Position
  <2>3. Done \subseteq StepNames
    BY <2>2, LayoutFacts DEF Done
  <2>4. KeysOf(links_per_step) # {} => ThisStep.name \in StepNames
    BY <2>2, LayoutFacts DEF IInv, Dicts, ThisStep
  <2> QED BY <1>1, <2>1, <2>3, <2>4 DEF IInv, Dicts
<1>4. (OnlyAuthorizedLinks /\ EnoughFunctionaries /\ Agreement)'
  BY <1>1, NotFurther DEF IInv, Checked, Agreed
<1> QED BY <1>2, <1>3, <1>4 DEF IInv

LEMMA OpenLinkStep == ASSUME IInv, NEW file \in FileName, OpenLink(file) PROVE IInv'
<1>1. /\ disk' = [disk EXCEPT ![file] = Torn]
      /\ writing' = writing \cup {file} /\ dumps' = dumps + 1 /\ dumps < MaxDumps
      /\ UNCHANGED <<layout, verifier, history>>
  BY DEF OpenLink
<1>2. Sources'
  BY <1>1, Contents DEF IInv, Sources, history, IsDirectory
<1>3. writing' \subseteq FileName /\ dumps' \in 0 .. MaxDumps
  BY <1>1, ThresholdsAssumption DEF IInv, Position
<1>4. \A n \in StepNames : published[n] \subseteq published'[n]
  BY <1>1 DEF history
<1> QED BY <1>1, <1>2, <1>3, <1>4, PublishStep

LEMMA WriteLinkStep == ASSUME IInv, NEW file \in FileName, WriteLink(file) PROVE IInv'
<1>1. PICK doc \in Publications[layout][file] :
        /\ disk' = [disk EXCEPT ![file] = Holding(doc)]
        /\ published' = [published EXCEPT ![file[1]] = @ \cup {doc}]
  BY DEF WriteLink
<1>2. writing' = writing \ {file} /\ UNCHANGED <<layout, dumps, verifier, atStart>>
  BY DEF WriteLink
<1>3. doc \in Doc /\ file[1] \in StepNames
  BY ThresholdsAssumption DEF IInv, Position, FileName
<1>4. \A n \in StepNames : published[n] \subseteq published'[n]
  BY <1>1, <1>3 DEF IInv, Sources
<1>5. Sources'
  <2>1. IsDirectory(disk') /\ disk'[file] = Holding(doc)
    BY <1>1, <1>3, Contents DEF IInv, Sources, IsDirectory
  <2>2. published' \in [StepNames -> SUBSET Doc] /\ doc \in published'[file[1]]
    BY <1>1, <1>3 DEF IInv, Sources
  <2>3. ASSUME NEW f \in FileName, disk'[f].kind = "metadata"
        PROVE  disk'[f].doc \in published'[f[1]]
    <3>1. CASE f = file
      BY <1>3, <2>1, <2>2, <3>1, Contents
    <3>2. CASE f # file
      <4>1. disk'[f] = disk[f] /\ f[1] \in StepNames
        BY <1>1, <3>2 DEF IInv, Sources, IsDirectory, FileName
      <4> QED BY <1>4, <2>3, <4>1 DEF IInv, Sources
    <3> QED BY <3>1, <3>2
  <2> QED BY <2>1, <2>2, <2>3 DEF Sources
<1> QED BY <1>2, <1>4, <1>5, PublishStep DEF IInv, Position

LEMMA NextIInv == IInv /\ [Next]_vars => IInv'
<1> SUFFICES ASSUME IInv, [Next]_vars PROVE IInv'
  OBVIOUS
<1>1. CASE LoadLink
  BY <1>1, LoadLinkStep
<1>2. CASE CheckLoaded
  BY <1>2, CheckLoadedStep
<1>3. CASE LoadingEnds
  BY <1>3, LoopEndsStep DEF LoadingEnds
<1>4. CASE VerifySignatures
  BY <1>4, VerifySignaturesStep
<1>5. CASE SignaturesEnd
  BY <1>5, LoopEndsStep DEF SignaturesEnd
<1>6. CASE VerifyConstraints
  BY <1>6, VerifyConstraintsStep
<1>7. CASE ConstraintsEnd
  BY <1>7, LoopEndsStep DEF ConstraintsEnd
<1>8. CASE Reduce
  BY <1>8, ReduceStep
<1>9. CASE \E file \in FileName : OpenLink(file) \/ WriteLink(file)
  BY <1>9, OpenLinkStep, WriteLinkStep
<1>10. CASE UNCHANGED vars
  <2>1. UNCHANGED <<layout, disk, writing, dumps, phase, step, pubkey, subkey, links_per_step,
                    steps_metadata, reduced, status, published>>
    BY <1>10 DEF vars, directory, verifier, history
  <2>2. Position' /\ Sources' /\ Dicts'
    BY <2>1 DEF IInv, Position, Sources, Dicts, Done, ThisStep, Subkeys, IsDirectory
  <2> QED BY <2>1, <2>2, NotFurther DEF IInv, Checked, Agreed
<1> QED BY <1>1, <1>2, <1>3, <1>4, <1>5, <1>6, <1>7, <1>8, <1>9, <1>10 DEF Next, Verify, Publish

LEMMA Invariance == Spec => []IInv
BY InitIInv, NextIInv, PTL DEF Spec

-----------------------------------------------------------------------------
(* What follows *)

\* Types, and dicts that list exactly their keys, in every reachable state.
THEOREM TypeCorrect == Spec => []TypeOK
<1>1. IInv => TypeOK
  <2> SUFFICES ASSUME IInv PROVE TypeOK
    OBVIOUS
  <2>1. \A dict : Listed(dict) => /\ dict.order \in Seq(Keyids)
                                  /\ Elements(dict.order) = KeysOf(dict)
                                  /\ Len(dict.order) = Cardinality(KeysOf(dict))
    BY ListedCount DEF Listed
  <2>2. layout \in Layouts /\ Done \subseteq StepNames
    BY LayoutFacts DEF IInv, Position, Done
  <2>3. DictOK(links_per_step)
    <3>1. KeysOf(links_per_step) # {} => ThisStep.name \in StepNames
      BY <2>2, LayoutFacts DEF IInv, Dicts, ThisStep
    <3> QED BY <2>1, <3>1 DEF IInv, Dicts, Sources, DictOK
  <2>4. \A n \in DOMAIN steps_metadata : DictOK(steps_metadata[n])
    BY <2>1, <2>2 DEF IInv, Dicts, Sources, DictOK
  <2> QED BY <2>3, <2>4 DEF IInv, TypeOK, Position, Sources
<1> QED BY <1>1, Invariance, PTL

\* No link that nobody authorized has signed gets past
\* verify_link_signature_thresholds, for every layout and directory.
THEOREM AuthorizedCorrect == Spec => []OnlyAuthorizedLinks
<1>1. IInv => OnlyAuthorizedLinks
  BY DEF IInv
<1> QED BY <1>1, Invariance, PTL

\* Of every step past verify_link_signature_thresholds, threshold different main
\* keys have signed kept links, for every layout and directory.
THEOREM EnoughCorrect == Spec => []EnoughFunctionaries
<1>1. IInv => EnoughFunctionaries
  BY DEF IInv
<1> QED BY <1>1, Invariance, PTL

-----------------------------------------------------------------------------
(* ThresholdPromise *)

evidence == [n \in DOMAIN reduced |-> reduced[n].payload]

\* The functionaries who have published a link with this payload, for a step.
Vouchers(st, payload) ==
  {m \in AuthorizedMains(layout, st) :
     \E doc \in published[st.name] : doc.payload = payload /\ Signed(layout, m, doc)}

\* What reduce_chain_links takes for a step is backed by as many of them as the
\* threshold says: above 1 because all links of the step report the same, for 1
\* because the first link is signed by one of them, below because nobody is needed.
LEMMA FirstLinkIsBacked ==
  ASSUME IInv, phase = "reduce", NEW i \in DOMAIN layout.steps,
         KeysOf(steps_metadata[layout.steps[i].name]) # {}
  PROVE  Cardinality(Vouchers(layout.steps[i],
                              FirstValue(steps_metadata[layout.steps[i].name]).payload))
           >= layout.steps[i].threshold
<1> DEFINE st == layout.steps[i]
           dict == steps_metadata[st.name]
           payload == FirstValue(dict).payload
           vouchers == Vouchers(st, payload)
           signers == {m \in AuthorizedMains(layout, st) :
                         \E k \in KeysOf(dict) : Signed(layout, m, dict.at[k])}
<1>1. /\ WellFormed(layout) /\ st.pubkeys \in Seq(Keyids) /\ st.threshold \in Int
  BY LayoutFacts DEF IInv, Position
<1>2. /\ Listed(dict) /\ \A k \in KeysOf(dict) : dict.at[k] \in published[st.name]
  BY DEF IInv, Dicts, Done
<1>3. PICK k \in KeysOf(dict) : FirstValue(dict) = dict.at[k]
  BY <1>2, FirstIsAValue
<1>4. vouchers \in SUBSET AuthorizedMains(layout, st)
  BY DEF Vouchers
<1>5. IsFiniteSet(vouchers) /\ Cardinality(vouchers) \in Nat
  BY <1>1, <1>4, AuthorizedFinite, FS_Subset, FS_CardinalityType
<1>6. CASE st.threshold > 1
  <2>1. \A l \in KeysOf(dict) : dict.at[l].payload = payload
    BY <1>3, <1>6 DEF IInv, Agreement, Agreed
  <2>2. signers \in SUBSET vouchers
    BY <1>2, <2>1 DEF Vouchers
  <2>3. IsFiniteSet(signers) /\ Cardinality(signers) <= Cardinality(vouchers)
    BY <1>5, <2>2, FS_Subset
  <2>4. Cardinality(signers) \in Nat
    BY <2>3, FS_CardinalityType
  <2>5. Cardinality(signers) >= st.threshold
    BY DEF IInv, EnoughFunctionaries, Checked
  <2> HIDE DEF signers, vouchers, st
  <2> QED BY <1>1, <1>5, <2>3, <2>4, <2>5 DEF vouchers, st
<1>7. CASE ~ (st.threshold > 1)
  <2>1. PICK m \in AuthorizedMains(layout, st) : Signed(layout, m, dict.at[k])
    BY <1>3 DEF IInv, OnlyAuthorizedLinks, Checked
  <2>2. m \in vouchers
    BY <1>2, <1>3, <2>1 DEF Vouchers
  <2>3. Cardinality(vouchers) # 0
    BY <1>5, <2>2, FS_EmptySet
  <2> HIDE DEF vouchers, st
  <2> QED BY <1>1, <1>5, <1>7, <2>3 DEF vouchers, st
<1> QED BY <1>6, <1>7

\* ThresholdPromise extends ThresholdOps: the operators are the same.
LEMMA SameOps ==
  /\ Promise!Doc = Doc
  /\ \A S : Promise!Cardinality(S) = Cardinality(S)
  /\ \A lay, st : Promise!AuthorizedMains(lay, st) = AuthorizedMains(lay, st)
  /\ \A lay, m, doc : Promise!Signed(lay, m, doc) = Signed(lay, m, doc)
<1>1. Promise!Doc = Doc
  BY DEF Promise!Doc, Doc, Promise!Signature, Signature
<1>2. \A S : Promise!Cardinality(S) = Cardinality(S)
  BY DEF Promise!Cardinality, Cardinality
<1>3. \A lay, m : Promise!KeyWithSubkeys(lay, m) = KeyWithSubkeys(lay, m)
  BY DEF Promise!KeyWithSubkeys, KeyWithSubkeys, Promise!SubkeysOf, SubkeysOf,
         Promise!Elements, Elements
<1>4. \A lay, st : Promise!AuthorizedMains(lay, st) = AuthorizedMains(lay, st)
  BY <1>3 DEF Promise!AuthorizedMains, AuthorizedMains, Promise!Elements, Elements
<1>5. \A lay, m, doc : Promise!Signed(lay, m, doc) = Signed(lay, m, doc)
  BY <1>3 DEF Promise!Signed, Signed, Promise!Elements, Elements
<1> QED BY <1>1, <1>2, <1>4, <1>5

\* A verdict is given once, and an accepted link has its threshold behind it.
LEMMA PromiseInit == Init => Promise!Init
<1> SUFFICES ASSUME Init PROVE Promise!Init
  OBVIOUS
<1>1. Sources
  BY InitIInv DEF IInv
<1>2. evidence = << >>
  BY DEF Init, evidence
<1> QED BY <1>1, <1>2, SameOps DEF Init, Promise!Init, Sources, Errors, evidence

LEMMA PromiseStep == IInv /\ [Next]_vars => [Promise!Next]_(Promise!vars)
<1> SUFFICES ASSUME IInv, [Next]_vars PROVE [Promise!Next]_(Promise!vars)
  OBVIOUS
<1> DEFINE outcome == IF status \in Errors THEN "failed" ELSE status
<1>1. ASSUME NEW error \in Errors, Fail(error), status = "working"
      PROVE  Promise!Next
  <2>1. UNCHANGED <<layout, published, reduced>> /\ status' = error
    BY <1>1 DEF Fail, history
  <2>2. outcome = "working" /\ outcome' = "failed" /\ evidence' = evidence
    BY <1>1, <2>1 DEF Errors, evidence
  <2>3. Promise!Reject
    BY <2>1, <2>2 DEF Promise!Reject, evidence
  <2> QED BY <2>3 DEF Promise!Next
<1>2. ASSUME UNCHANGED <<layout, published, reduced, status>>
      PROVE  UNCHANGED Promise!vars
  BY <1>2 DEF Promise!vars
<1>3. CASE LoadLink
  <2>1. CASE Fail("JSONDecodeError")
    BY <1>1, <1>3, <2>1 DEF LoadLink, Running, Errors
  <2>2. CASE ~ Fail("JSONDecodeError")
    BY <1>2, <1>3, <2>2 DEF LoadLink, history
  <2> QED BY <2>1, <2>2
<1>4. CASE CheckLoaded
  <2>1. CASE Fail("LinkNotFoundError")
    BY <1>1, <1>4, <2>1 DEF CheckLoaded, Running, Errors
  <2>2. CASE ~ Fail("LinkNotFoundError")
    BY <1>2, <1>4, <2>2 DEF CheckLoaded, history
  <2> QED BY <2>1, <2>2
<1>5. CASE VerifySignatures
  <2>1. CASE Fail("ValueError") \/ Fail("ThresholdVerificationError")
    BY <1>1, <1>5, <2>1 DEF VerifySignatures, Running, Errors
  <2>2. CASE ~ Fail("ValueError") /\ ~ Fail("ThresholdVerificationError")
    BY <1>2, <1>5, <2>2 DEF VerifySignatures, history
  <2> QED BY <2>1, <2>2
<1>6. CASE VerifyConstraints
  <2>1. CASE Fail("ThresholdVerificationError")
    BY <1>1, <1>6, <2>1 DEF VerifyConstraints, Running, Errors
  <2>2. CASE ~ Fail("ThresholdVerificationError")
    BY <1>2, <1>6, <2>2 DEF VerifyConstraints, history
  <2> QED BY <2>1, <2>2
<1>7. CASE LoadingEnds \/ SignaturesEnd \/ ConstraintsEnd
  BY <1>2, <1>7 DEF LoadingEnds, SignaturesEnd, ConstraintsEnd, LoopEnds, history
<1>8. CASE Reduce
  <2>1. CASE \E n \in DOMAIN steps_metadata : KeysOf(steps_metadata[n]) = {}
    BY <1>1, <1>8, <2>1 DEF Reduce, Errors
  <2>2. CASE ~ \E n \in DOMAIN steps_metadata : KeysOf(steps_metadata[n]) = {}
    <3>1. /\ status = "working" /\ phase = "reduce" /\ status' = "passed"
          /\ reduced' = [n \in DOMAIN steps_metadata |-> FirstValue(steps_metadata[n])]
          /\ UNCHANGED <<layout, published>>
      BY <1>8, <2>2 DEF Reduce, history
    <3>2. outcome = "working" /\ outcome' = "passed"
      BY <3>1 DEF Errors
    <3>3. DOMAIN steps_metadata = {layout.steps[i].name : i \in DOMAIN layout.steps}
      BY <3>1 DEF IInv, Dicts, Done
    <3>4. evidence' = [n \in DOMAIN steps_metadata |-> FirstValue(steps_metadata[n]).payload]
      BY <3>1 DEF evidence
    <3>5. ASSUME NEW i \in DOMAIN layout.steps
          PROVE  Cardinality(Vouchers(layout.steps[i], evidence'[layout.steps[i].name]))
                   >= layout.steps[i].threshold
      <4>1. layout.steps[i].name \in DOMAIN steps_metadata
        BY <3>3
      <4>2. evidence'[layout.steps[i].name]
              = FirstValue(steps_metadata[layout.steps[i].name]).payload
        BY <3>4, <4>1
      <4> QED BY <2>2, <3>1, <4>1, <4>2, FirstLinkIsBacked
    <3>6. Promise!Accept
      BY <3>1, <3>2, <3>3, <3>4, <3>5, SameOps
         DEF Promise!Accept, Promise!Backed, Promise!Names, Vouchers, evidence
    <3> QED BY <3>6 DEF Promise!Next
  <2> QED BY <2>1, <2>2
<1>9. ASSUME NEW file \in FileName, OpenLink(file)
      PROVE  UNCHANGED Promise!vars
  BY <1>2, <1>9 DEF OpenLink, verifier, history
<1>10. ASSUME NEW file \in FileName, WriteLink(file)
       PROVE  Promise!Next
  <2>1. PICK doc \in Publications[layout][file] :
          published' = [published EXCEPT ![file[1]] = @ \cup {doc}]
    BY <1>10 DEF WriteLink
  <2>2. UNCHANGED <<layout, reduced, status>>
    BY <1>10 DEF WriteLink, verifier
  <2>3. file[1] \in StepNames /\ file[1] \in DOMAIN published
    BY DEF FileName, IInv, Sources
  <2>4. /\ published[file[1]] \subseteq published'[file[1]]
        /\ published' = [published EXCEPT ![file[1]] = published'[file[1]]]
    BY <2>1, <2>3
  <2>5. Promise!Publish
    BY <2>2, <2>3, <2>4 DEF Promise!Publish
  <2> QED BY <2>5 DEF Promise!Next
<1>11. CASE UNCHANGED vars
  BY <1>2, <1>11 DEF vars, verifier, history
<1> QED
  BY <1>3, <1>4, <1>5, <1>6, <1>7, <1>8, <1>9, <1>10, <1>11 DEF Next, Verify, Publish

\* LinkThresholds implements ThresholdPromise: in spite of files that are read at
\* different moments while they are written, what passes has been published, by then,
\* by threshold different authorized functionaries.
THEOREM PromiseCorrect == Spec => PromiseKept
BY PromiseInit, PromiseStep, Invariance, PTL DEF Spec, PromiseKept, Promise!Safety

-----------------------------------------------------------------------------
(***************************************************************************)
(* NobodyOverlooked.  A link in place at the start may be replaced by      *)
(* another good one, or be torn, but never becomes a bad one (GoodOrTorn); *)
(* a torn file ends verification, so that the keyids looked for so far     *)
(* have their good links in the dict (Found), which it keeps until the     *)
(* signatures are checked (Kept).                                          *)
(***************************************************************************)
Verifies(m, doc) == VerifySignature(doc, KeyWithSubkeys(layout, m), m)

GoodOrTorn ==
  \A i \in DOMAIN layout.steps : LET st == layout.steps[i] IN
    Distinguished(layout, st) =>
      \A k \in Candidates(layout, st), m \in DOMAIN layout.keys :
        InPlace(m, k, st, atStart) =>
          LET content == disk[<<st.name, Short[k]>>]
          IN  content.kind = "torn" \/ (content.kind = "metadata" /\ Verifies(m, content.doc))

\* The keyid looked for at positions p, j of the loops, and the positions passed.
KeyidAt(p, j) ==
  IF j = 0 THEN ThisStep.pubkeys[p] ELSE layout.keys[ThisStep.pubkeys[p]][j]
Passed(p, j) == p < pubkey \/ (p = pubkey /\ j < subkey)
LookedFor(k) ==
  \E p \in DOMAIN ThisStep.pubkeys : \E j \in 0 .. Subkeys(ThisStep.pubkeys[p]) :
    Passed(p, j) /\ k = KeyidAt(p, j)

Found ==
  phase = "load" /\ step \in DOMAIN layout.steps /\ Distinguished(layout, ThisStep) =>
    \A k \in Candidates(layout, ThisStep), m \in DOMAIN layout.keys :
      InPlace(m, k, ThisStep, atStart) /\ LookedFor(k) =>
        k \in KeysOf(links_per_step) /\ Verifies(m, links_per_step.at[k])

Complete(st, dict) ==
  Distinguished(layout, st) =>
    \A k \in Candidates(layout, st), m \in DOMAIN layout.keys :
      InPlace(m, k, st, atStart) => k \in KeysOf(dict) /\ Verifies(m, dict.at[k])

Kept ==
  \A i \in DOMAIN layout.steps :
    (phase = "load" /\ i < step) \/ (phase = "signatures" /\ i >= step) =>
      Complete(layout.steps[i], steps_metadata[layout.steps[i].name])

NobodyInv == GoodOrTorn /\ Found /\ Kept /\ NobodyOverlooked

\* A keyid of the step names a file of its own.
LEMMA CandidateFile ==
  ASSUME layout \in Layouts, NEW i \in DOMAIN layout.steps,
         NEW k \in Candidates(layout, layout.steps[i])
  PROVE  k \in Keyids /\ <<layout.steps[i].name, Short[k]>> \in FileName
<1> DEFINE st == layout.steps[i]
<1>1. /\ st.name \in StepNames /\ st.pubkeys \in Seq(Keyids) /\ WellFormed(layout)
  BY LayoutFacts
<1>2. \A x \in Elements(st.pubkeys) : x \in Keyids
  BY <1>1, ElementOfSeq, LenProperties DEF Elements
<1>3. \A m \in DOMAIN layout.keys : \A x \in Elements(layout.keys[m]) : x \in Keyids
  <2> SUFFICES ASSUME NEW m \in DOMAIN layout.keys, NEW x \in Elements(layout.keys[m])
               PROVE  x \in Keyids
    OBVIOUS
  <2>1. layout.keys[m] \in Seq(Keyids)
    BY <1>1 DEF WellFormed, Validated, SubkeysApart
  <2> QED BY <2>1, ElementOfSeq, LenProperties DEF Elements
<1>4. k \in Keyids
  BY <1>2, <1>3 DEF Candidates, SubkeysOf
<1> QED BY <1>1, <1>4 DEF FileName

\* The links that are in place belong to no more functionaries than there are keys
\* in a dict that has them all.
LEMMA InPlaceCount ==
  ASSUME IInv, NEW i \in DOMAIN layout.steps, NEW dict, Listed(dict),
         Distinguished(layout, layout.steps[i]), Complete(layout.steps[i], dict)
  PROVE  LET st == layout.steps[i]
             owners == {m \in DOMAIN layout.keys :
                          \E k \in Candidates(layout, st) : InPlace(m, k, st, atStart)}
         IN  /\ IsFiniteSet(owners) /\ Cardinality(owners) \in Nat
             /\ Cardinality(owners) <= Cardinality(KeysOf(dict))
             /\ owners \subseteq UsedMainKeyids(layout, st.pubkeys, dict)
<1> DEFINE st == layout.steps[i]
           owners == {m \in DOMAIN layout.keys :
                        \E k \in Candidates(layout, st) : InPlace(m, k, st, atStart)}
           Of(m) == CHOOSE k \in Candidates(layout, st) : InPlace(m, k, st, atStart)
           f == [m \in owners |-> Of(m)]
<1>1. \A m \in owners : /\ InPlace(m, Of(m), st, atStart) /\ Of(m) \in KeysOf(dict)
                         /\ Verifies(m, dict.at[Of(m)])
  BY DEF Complete
<1>2. \A m \in owners : VerificationKey(layout, st.pubkeys, Of(m)) = {m}
  BY <1>1 DEF InPlace
<1>3. owners \subseteq UsedMainKeyids(layout, st.pubkeys, dict)
  BY <1>1, <1>2 DEF UsedMainKeyids, Verified, Verifies
<1> HIDE DEF Of
<1>4. \A m, n \in owners : f[m] = f[n] => m = n
  BY <1>2
<1>5. f \in [owners -> KeysOf(dict)]
  BY <1>1
<1>6. IsFiniteSet(KeysOf(dict))
  BY ListedCount
<1> HIDE DEF f, owners
<1>7. IsFiniteSet(owners) /\ Cardinality(owners) <= Cardinality(KeysOf(dict))
  BY <1>4, <1>5, <1>6, NoMoreThan
<1> QED BY <1>3, <1>7, FS_CardinalityType DEF owners

\* Every keyid of the step at hand has been looked for when its loops are done.
LEMMA AllLookedFor ==
  ASSUME layout \in Layouts, step \in DOMAIN layout.steps,
         pubkey = Len(ThisStep.pubkeys) + 1, NEW k \in Candidates(layout, ThisStep)
  PROVE  LookedFor(k)
<1>1. /\ DOMAIN ThisStep.pubkeys = 1 .. Len(ThisStep.pubkeys) /\ Len(ThisStep.pubkeys) \in Nat
  BY LayoutFacts, LenProperties DEF ThisStep
<1>2. PICK p \in DOMAIN ThisStep.pubkeys :
        k = ThisStep.pubkeys[p] \/ k \in SubkeysOf(layout, ThisStep.pubkeys[p])
  BY DEF Candidates, Elements
<1>3. Passed(p, 0) /\ \A j : Passed(p, j)
  BY <1>1 DEF Passed
<1>4. CASE k = ThisStep.pubkeys[p]
  <2>1. 0 \in 0 .. Subkeys(ThisStep.pubkeys[p])
    BY LayoutFacts DEF Subkeys
  <2> QED BY <1>3, <1>4, <2>1 DEF LookedFor, KeyidAt
<1>5. CASE k \in SubkeysOf(layout, ThisStep.pubkeys[p])
  <2> DEFINE m == ThisStep.pubkeys[p]
  <2>1. m \in DOMAIN layout.keys
    BY <1>5 DEF SubkeysOf
  <2>2. PICK j \in DOMAIN layout.keys[m] : k = layout.keys[m][j]
    BY <1>5, <2>1 DEF SubkeysOf, Elements
  <2>3. layout.keys[m] \in Seq(Keyids)
    BY <2>1, LayoutFacts DEF WellFormed, Validated, SubkeysApart
  <2>4. j \in 1 .. Len(layout.keys[m]) /\ Len(layout.keys[m]) \in Nat
    BY <2>2, <2>3, LenProperties
  <2>5. j \in 0 .. Subkeys(m) /\ j # 0
    BY <2>1, <2>4 DEF Subkeys
  <2> QED BY <1>3, <2>2, <2>5 DEF LookedFor, KeyidAt
<1> QED BY <1>2, <1>4, <1>5

LEMMA InitNobody == Init => NobodyInv
<1> SUFFICES ASSUME Init PROVE NobodyInv
  OBVIOUS
<1>1. layout \in Layouts
  BY DEF Init
<1>2. GoodOrTorn
  BY DEF Init, GoodOrTorn, InPlace, Verifies
<1>3. Found
  <2>1. step \in DOMAIN layout.steps => DOMAIN ThisStep.pubkeys \subseteq Nat \ {0}
    BY <1>1, LayoutFacts, LenProperties DEF ThisStep
  <2>2. step \in DOMAIN layout.steps => \A k : ~ LookedFor(k)
    BY <2>1 DEF Init, LookedFor, Passed
  <2> QED BY <2>2 DEF Found
<1>4. Kept
  BY <1>1, LayoutFacts DEF Init, Kept
<1>5. NobodyOverlooked
  BY DEF Init, NobodyOverlooked
<1> QED BY <1>2, <1>3, <1>4, <1>5 DEF NobodyInv

\* Completeness depends on nothing but the layout and the directory at the start.
LEMMA SameKept ==
  ASSUME UNCHANGED <<layout, atStart>>,
         \A i \in DOMAIN layout.steps :
           (phase' = "load" /\ i < step') \/ (phase' = "signatures" /\ i >= step') =>
             Complete(layout.steps[i], steps_metadata'[layout.steps[i].name])
  PROVE  Kept'
<1> SUFFICES ASSUME NEW i \in DOMAIN layout.steps,
                    (phase' = "load" /\ i < step') \/ (phase' = "signatures" /\ i >= step')
             PROVE  Complete(layout.steps[i], steps_metadata[layout.steps[i].name])'
  BY DEF Kept
<1>1. Complete(layout.steps[i], steps_metadata'[layout.steps[i].name])
  OBVIOUS
<1> QED BY <1>1 DEF Complete, InPlace, Verifies

\* What is neither read nor written stays as good as it was.
LEMMA SameDirectory ==
  ASSUME GoodOrTorn, UNCHANGED <<layout, disk, atStart>>
  PROVE  GoodOrTorn'
BY DEF GoodOrTorn, Verifies, InPlace

LEMMA SameLinks ==
  ASSUME Found, UNCHANGED <<layout, atStart, phase, step, pubkey, subkey, links_per_step>>
  PROVE  Found'
<1>1. ThisStep' = ThisStep
  BY DEF ThisStep
<1>2. \A k : LookedFor(k)' <=> LookedFor(k)
  BY DEF LookedFor, Passed, KeyidAt, Subkeys, ThisStep
<1>3. \A m, doc : Verifies(m, doc)' <=> Verifies(m, doc)
  BY DEF Verifies
<1> QED BY <1>1, <1>2, <1>3 DEF Found, InPlace

LEMMA SameDicts ==
  ASSUME Kept, UNCHANGED <<layout, atStart, phase, step, steps_metadata>>
  PROVE  Kept'
BY DEF Kept, Complete, Verifies, InPlace

\* Raising another error, or later, overlooks nobody.
LEMMA NobodyFail ==
  ASSUME NobodyInv, NEW error, Fail(error), NobodyOverlooked'
  PROVE  NobodyInv'
BY SameDirectory, SameLinks, SameDicts DEF Fail, NobodyInv, directory, history

\* A file that is not torn gives the dict its good link.
LEMMA NobodyLoadLink == ASSUME IInv, NobodyInv, LoadLink PROVE NobodyInv'
<1> DEFINE authorized == ThisStep.pubkeys[pubkey]
           content == disk[<<ThisStep.name, Short[LoadingKeyid]>>]
<1>1. /\ Running("load") /\ pubkey <= Len(ThisStep.pubkeys)
      /\ step \in DOMAIN layout.steps /\ LoadingKeyid \in Keyids
      /\ <<ThisStep.name, Short[LoadingKeyid]>> \in FileName
  BY LoadingFacts DEF LoadLink, IInv
<1>2. CASE content.kind = "torn"
  <2>1. Fail("JSONDecodeError")
    BY <1>2 DEF LoadLink
  <2>2. NobodyOverlooked'
    BY <2>1 DEF Fail, NobodyOverlooked
  <2> QED BY <2>1, <2>2, NobodyFail
<1>3. CASE content.kind # "torn"
  <2>1. /\ links_per_step' = IF content.kind = "absent" THEN links_per_step
                             ELSE Put(links_per_step, LoadingKeyid, content.doc)
        /\ \/ subkey < Subkeys(authorized) /\ subkey' = subkey + 1 /\ pubkey' = pubkey
           \/ ~ (subkey < Subkeys(authorized)) /\ subkey' = 0 /\ pubkey' = pubkey + 1
        /\ UNCHANGED <<layout, disk, atStart, phase, step, steps_metadata, status>>
    BY <1>3 DEF LoadLink, Subkeys, directory, history
  <2>2. GoodOrTorn' /\ Kept'
    BY <2>1, SameDirectory, SameDicts DEF NobodyInv
  <2>3. NobodyOverlooked'
    BY <1>1, <2>1 DEF NobodyOverlooked, Running
  <2>4. ThisStep' = ThisStep
    BY <2>1 DEF ThisStep
  <2>5. ASSUME NEW k, LookedFor(k)' PROVE LookedFor(k) \/ k = LoadingKeyid
    <3>1. /\ layout \in Layouts /\ pubkey \in Nat /\ subkey \in Nat
          /\ subkey <= Subkeys(authorized) /\ \A m : Subkeys(m) \in Nat
          /\ DOMAIN ThisStep.pubkeys \subseteq Nat
      <4>1. /\ layout \in Layouts /\ phase = "load"
            /\ ThisStep.pubkeys \in Seq(Keyids) /\ Len(ThisStep.pubkeys) \in Nat
        BY <1>1, LayoutFacts DEF IInv, Position, ThisStep, Running
      <4>2. pubkey \in Nat /\ subkey \in Nat /\ subkey <= Subkeys(authorized)
        BY <1>1, <4>1 DEF IInv, Position
      <4>3. \A m : Subkeys(m) \in Nat
        BY <4>1, LayoutFacts DEF Subkeys
      <4> QED BY <4>1, <4>2, <4>3, LenProperties
    <3>2. PICK p \in DOMAIN ThisStep.pubkeys : \E j \in 0 .. Subkeys(ThisStep.pubkeys[p]) :
            Passed(p, j)' /\ k = KeyidAt(p, j)
      BY <2>1, <2>4, <2>5 DEF LookedFor, KeyidAt, Subkeys
    <3>3. PICK j \in 0 .. Subkeys(ThisStep.pubkeys[p]) : Passed(p, j)' /\ k = KeyidAt(p, j)
      BY <3>2
    <3>4. Passed(p, j) \/ (p = pubkey /\ j = subkey)
      BY <2>1, <3>1, <3>3 DEF Passed
    <3>5. KeyidAt(pubkey, subkey) = LoadingKeyid
      BY DEF KeyidAt, LoadingKeyid
    <3> QED BY <3>3, <3>4, <3>5 DEF LookedFor
  <2>6. Found'
    <3> SUFFICES ASSUME Distinguished(layout, ThisStep), NEW k \in Candidates(layout, ThisStep),
                        NEW m \in DOMAIN layout.keys, InPlace(m, k, ThisStep, atStart),
                        LookedFor(k)'
                 PROVE  /\ k \in KeysOf(links_per_step')
                        /\ VerifySignature(links_per_step'.at[k], KeyWithSubkeys(layout, m), m)
      BY <1>1, <2>1, <2>4 DEF Found, InPlace, Verifies
    <3>1. Listed(links_per_step)
      BY DEF IInv, Dicts
    <3>2. CASE k = LoadingKeyid
      <4>1. content.kind = "metadata" /\ Verifies(m, content.doc)
        BY <1>1, <1>3, <3>2 DEF NobodyInv, GoodOrTorn, ThisStep
      <4>2. links_per_step' = Put(links_per_step, LoadingKeyid, content.doc)
        BY <2>1, <4>1
      <4> QED BY <1>1, <3>1, <3>2, <4>1, <4>2, PutListed DEF Verifies
    <3>3. CASE k # LoadingKeyid
      <4>1. k \in KeysOf(links_per_step) /\ Verifies(m, links_per_step.at[k])
        BY <1>1, <2>5, <3>3 DEF NobodyInv, Found, Running
      <4>2. /\ k \in KeysOf(links_per_step')
            /\ links_per_step'.at[k] = links_per_step.at[k]
        BY <1>1, <2>1, <3>1, <3>3, <4>1, PutListed
      <4> QED BY <4>1, <4>2 DEF Verifies
    <3> QED BY <3>2, <3>3
  <2> QED BY <2>2, <2>3, <2>6 DEF NobodyInv
<1> QED BY <1>2, <1>3

\* The preliminary check fails only where too few links are in place.
LEMMA NobodyCheckLoaded == ASSUME IInv, NobodyInv, CheckLoaded PROVE NobodyInv'
<1>1. /\ Running("load") /\ pubkey = Len(ThisStep.pubkeys) + 1
      /\ layout \in Layouts /\ step \in DOMAIN layout.steps
  BY LayoutFacts DEF CheckLoaded, Running, IInv, Position
<1>2. Complete(ThisStep, links_per_step)
  <2>1. \A k \in Candidates(layout, ThisStep) : LookedFor(k)
    BY <1>1, AllLookedFor
  <2> QED BY <1>1, <2>1 DEF NobodyInv, Found, Complete, Running
<1>3. CASE Cardinality(KeysOf(links_per_step)) < ThisStep.threshold
  <2>1. Fail("LinkNotFoundError")
    BY <1>3 DEF CheckLoaded
  <2> DEFINE owners == {m \in DOMAIN layout.keys :
                 \E k \in Candidates(layout, ThisStep) : InPlace(m, k, ThisStep, atStart)}
  <2>2. Distinguished(layout, ThisStep) => Cardinality(owners) < ThisStep.threshold
    <3> SUFFICES ASSUME Distinguished(layout, ThisStep)
                 PROVE  Cardinality(owners) < ThisStep.threshold
      OBVIOUS
    <3>1. /\ Cardinality(owners) \in Nat
          /\ Cardinality(owners) <= Cardinality(KeysOf(links_per_step))
      BY <1>1, <1>2, InPlaceCount DEF ThisStep, IInv, Dicts
    <3>2. Cardinality(KeysOf(links_per_step)) \in Nat
      BY ListedCount, FS_CardinalityType DEF IInv, Dicts
    <3>3. ThisStep.threshold \in Int
      BY <1>1, LayoutFacts DEF ThisStep
    <3> HIDE DEF owners
    <3> QED BY <1>3, <3>1, <3>2, <3>3
  <2>3. NobodyOverlooked'
    <3>1. UNCHANGED <<layout, atStart, phase, step>>
      BY <2>1 DEF Fail, history
    <3> QED BY <2>2, <3>1 DEF NobodyOverlooked, ThisStep, InPlace
  <2> QED BY <2>1, <2>3, NobodyFail
<1>4. CASE ~ (Cardinality(KeysOf(links_per_step)) < ThisStep.threshold)
  <2> DEFINE n == ThisStep.name
  <2>1. /\ steps_metadata' = [x \in DOMAIN steps_metadata \cup {n} |->
                                IF x = n THEN links_per_step ELSE steps_metadata[x]]
        /\ pubkey' = 1 /\ subkey' = 0 /\ step' = step + 1
        /\ UNCHANGED <<layout, disk, atStart, phase, status>>
    BY <1>4 DEF CheckLoaded, directory, history
  <2>2. GoodOrTorn'
    BY <2>1, SameDirectory DEF NobodyInv
  <2>3. NobodyOverlooked'
    BY <1>1, <2>1 DEF NobodyOverlooked, Running
  <2>4. Found'
    <3>1. step' \in DOMAIN layout.steps => DOMAIN ThisStep'.pubkeys \subseteq Nat \ {0}
      BY <1>1, <2>1, LayoutFacts, LenProperties DEF ThisStep
    <3>2. step' \in DOMAIN layout.steps => \A k : ~ LookedFor(k)'
      BY <2>1, <3>1 DEF LookedFor, Passed
    <3> QED BY <2>1, <3>2 DEF Found
  <2>5. Kept'
    <3> SUFFICES ASSUME NEW i \in DOMAIN layout.steps, i < step + 1
                 PROVE  Complete(layout.steps[i], steps_metadata'[layout.steps[i].name])
      BY <1>1, <2>1, SameKept DEF Running
    <3>1. CASE i = step
      BY <1>2, <2>1, <3>1 DEF ThisStep
    <3>2. CASE i # step
      <4>1. i < step /\ layout.steps[i].name # n
        BY <1>1, <3>2, LayoutFacts DEF ThisStep
      <4>2. layout.steps[i].name \in DOMAIN steps_metadata
        BY <1>1, <4>1 DEF IInv, Dicts, Done
      <4>3. steps_metadata'[layout.steps[i].name] = steps_metadata[layout.steps[i].name]
        BY <2>1, <4>1, <4>2
      <4> QED BY <1>1, <4>1, <4>3 DEF NobodyInv, Kept, Running
    <3> QED BY <3>1, <3>2
  <2> QED BY <2>2, <2>3, <2>4, <2>5 DEF NobodyInv
<1> QED BY <1>3, <1>4

\* Nor does the check of signatures.
LEMMA NobodyVerifySignatures == ASSUME IInv, NobodyInv, VerifySignatures PROVE NobodyInv'
<1> DEFINE n == ThisStep.name
           dict == steps_metadata[n]
           used == UsedMainKeyids(layout, ThisStep.pubkeys, dict)
<1>1. /\ Running("signatures") /\ phase = "signatures"
      /\ layout \in Layouts /\ step \in DOMAIN layout.steps
      /\ ThisStep.pubkeys \in Seq(Keyids) /\ ThisStep.threshold \in Int
      /\ WellFormed(layout)
  BY LayoutFacts DEF VerifySignatures, Running, IInv, Position, ThisStep
<1> DEFINE refused == ValueErrorRaised(layout, ThisStep.pubkeys, dict)
<1>2. CASE refused
  <2>1. Fail("ValueError")
    BY <1>2 DEF VerifySignatures
  <2>2. NobodyOverlooked'
    BY <2>1 DEF Fail, NobodyOverlooked
  <2> QED BY <2>1, <2>2, NobodyFail
<1>3. CASE ~ refused /\ Cardinality(used) < ThisStep.threshold
  <2>1. Fail("ThresholdVerificationError")
    BY <1>3 DEF VerifySignatures
  <2> DEFINE owners == {m \in DOMAIN layout.keys :
                 \E k \in Candidates(layout, ThisStep) : InPlace(m, k, ThisStep, atStart)}
  <2>2. Distinguished(layout, ThisStep) => Cardinality(owners) < ThisStep.threshold
    <3> SUFFICES ASSUME Distinguished(layout, ThisStep)
                 PROVE  Cardinality(owners) < ThisStep.threshold
      OBVIOUS
    <3>1. Complete(ThisStep, dict) /\ Listed(dict)
      BY <1>1 DEF NobodyInv, Kept, ThisStep, IInv, Dicts, Done, Position
    <3>2. Cardinality(owners) \in Nat /\ owners \subseteq used
      BY <1>1, <3>1, InPlaceCount DEF ThisStep
    <3>3. IsFiniteSet(used)
      <4> DEFINE kept == Keeping(dict, Verified(layout, ThisStep.pubkeys, dict))
                 vouchers == {m \in AuthorizedMains(layout, ThisStep) :
                                \E k \in KeysOf(kept) : Signed(layout, m, kept.at[k])}
      <4>1. IsFiniteSet(vouchers) /\ used \subseteq vouchers
        BY <1>1, UsedAreVouchers
      <4> HIDE DEF vouchers, used
      <4> QED BY <4>1, FS_Subset
    <3>4. Cardinality(owners) <= Cardinality(used) /\ Cardinality(used) \in Nat
      BY <3>2, <3>3, FS_Subset, FS_CardinalityType
    <3> HIDE DEF owners, used
    <3> QED BY <1>1, <1>3, <3>2, <3>4
  <2>3. NobodyOverlooked'
    <3>1. UNCHANGED <<layout, atStart, phase, step>>
      BY <2>1 DEF Fail, history
    <3> QED BY <2>2, <3>1 DEF NobodyOverlooked, ThisStep, InPlace
  <2> QED BY <2>1, <2>3, NobodyFail
<1>4. CASE ~ refused /\ ~ (Cardinality(used) < ThisStep.threshold)
  <2>1. /\ steps_metadata' = [steps_metadata EXCEPT ![n] =
                                Keeping(dict, Verified(layout, ThisStep.pubkeys, dict))]
        /\ step' = step + 1
        /\ UNCHANGED <<layout, disk, atStart, phase, status>>
    BY <1>4 DEF VerifySignatures, directory, history
  <2>2. GoodOrTorn'
    BY <2>1, SameDirectory DEF NobodyInv
  <2>3. NobodyOverlooked' /\ Found'
    BY <1>1, <2>1 DEF NobodyOverlooked, Found, Running
  <2>4. Kept'
    <3> SUFFICES ASSUME NEW i \in DOMAIN layout.steps, i >= step + 1
                 PROVE  Complete(layout.steps[i], steps_metadata'[layout.steps[i].name])
      BY <1>1, <2>1, SameKept
    <3>1. i >= step /\ layout.steps[i].name # n
      BY <1>1, LayoutFacts DEF ThisStep
    <3>2. steps_metadata'[layout.steps[i].name] = steps_metadata[layout.steps[i].name]
      BY <2>1, <3>1
    <3> QED BY <1>1, <3>1, <3>2 DEF NobodyInv, Kept
  <2> QED BY <2>2, <2>3, <2>4 DEF NobodyInv
<1> QED BY <1>2, <1>3, <1>4

\* The end of loading is the beginning of checking signatures.
LEMMA NobodyLoopEnds ==
  ASSUME IInv, NobodyInv, NEW p, NEW next, LoopEnds(p, next),
         <<p, next>> \in {<<"load", "signatures">>, <<"signatures", "constraints">>,
                          <<"constraints", "reduce">>}
  PROVE  NobodyInv'
<1>1. /\ phase = p /\ step = Len(layout.steps) + 1 /\ phase' = next /\ step' = 1
      /\ status = "working"
      /\ UNCHANGED <<layout, disk, atStart, steps_metadata, status>>
  BY DEF LoopEnds, directory, history
<1>2. layout \in Layouts
  BY DEF IInv, Position
<1>3. GoodOrTorn'
  BY <1>1, SameDirectory DEF NobodyInv
<1>4. Found' /\ NobodyOverlooked'
  BY <1>1 DEF Found, NobodyOverlooked
<1>5. Kept'
  <2>1. CASE p = "load"
    <3>1. \A i \in DOMAIN layout.steps : i < step
      BY <1>1, <1>2, LayoutFacts
    <3>2. \A i \in DOMAIN layout.steps :
            Complete(layout.steps[i], steps_metadata[layout.steps[i].name])
      BY <1>1, <2>1, <3>1 DEF NobodyInv, Kept
    <3>3. UNCHANGED <<layout, atStart, steps_metadata>> /\ phase' = next
      BY <1>1 DEF history
    <3>4. \A st, dict : Complete(st, dict)' = Complete(st, dict)
      BY <3>3 DEF Complete, InPlace, Verifies
    <3> QED BY <1>1, <3>2, <3>3, <3>4 DEF Kept
  <2>2. CASE p # "load"
    BY <1>1, <2>2 DEF Kept
  <2> QED BY <2>1, <2>2
<1> QED BY <1>3, <1>4, <1>5 DEF NobodyInv

\* After the signatures there is nothing left to overlook.
LEMMA NobodyLater ==
  ASSUME NobodyInv, phase \in {"constraints", "reduce"}, phase' = phase,
         UNCHANGED <<layout, disk, atStart>>
  PROVE  NobodyInv'
<1>1. GoodOrTorn'
  BY SameDirectory DEF NobodyInv
<1>2. Found' /\ Kept' /\ NobodyOverlooked'
  BY DEF Found, Kept, NobodyOverlooked
<1> QED BY <1>1, <1>2 DEF NobodyInv

\* A functionary tears a file, or puts a good link in place of a good one.
LEMMA NobodyPublish ==
  ASSUME HonestPublications, IInv, NobodyInv, NEW file \in FileName,
         OpenLink(file) \/ WriteLink(file)
  PROVE  NobodyInv'
<1>1. /\ status = "working"
      /\ UNCHANGED <<layout, atStart, phase, step, pubkey, subkey, links_per_step,
                     steps_metadata, status>>
  BY DEF OpenLink, WriteLink, verifier, history
<1>2. layout \in Layouts /\ DOMAIN disk = FileName
  BY DEF IInv, Position, Sources, IsDirectory
<1>3. \/ disk' = [disk EXCEPT ![file] = Torn]
      \/ \E doc \in Publications[layout][file] : disk' = [disk EXCEPT ![file] = Holding(doc)]
  BY DEF OpenLink, WriteLink
<1>4. GoodOrTorn'
  <2> SUFFICES ASSUME NEW i \in DOMAIN layout.steps, Distinguished(layout, layout.steps[i]),
                      NEW k \in Candidates(layout, layout.steps[i]),
                      NEW m \in DOMAIN layout.keys,
                      InPlace(m, k, layout.steps[i], atStart)
               PROVE  LET content == disk'[<<layout.steps[i].name, Short[k]>>]
                      IN  \/ content.kind = "torn"
                          \/ (content.kind = "metadata" /\ Verifies(m, content.doc))
    BY <1>1 DEF GoodOrTorn, InPlace, Verifies
  <2> DEFINE own == <<layout.steps[i].name, Short[k]>>
  <2>1. own \in FileName
    BY <1>2, CandidateFile
  <2>2. CASE file # own
    <3>1. disk'[own] = disk[own]
      BY <1>2, <1>3, <2>1, <2>2
    <3> QED BY <3>1 DEF NobodyInv, GoodOrTorn
  <2>3. CASE file = own /\ disk' = [disk EXCEPT ![file] = Torn]
    BY <1>2, <2>1, <2>3, Contents
  <2>4. ASSUME file = own, NEW doc \in Publications[layout][file],
               disk' = [disk EXCEPT ![file] = Holding(doc)]
        PROVE  disk'[own].kind = "metadata" /\ Verifies(m, disk'[own].doc)
    <3>1. disk'[own].kind = "metadata" /\ disk'[own].doc = doc
      BY <1>2, <2>1, <2>4 DEF Holding
    <3>2. m \in VerificationKey(layout, layout.steps[i].pubkeys, k)
      BY DEF InPlace
    <3>3. layout.steps[i] \in Elements(layout.steps)
      BY DEF Elements
    <3> QED BY <1>2, <2>4, <3>1, <3>2, <3>3 DEF HonestPublications, Verifies
  <2> QED BY <1>3, <2>2, <2>3, <2>4
<1>5. Found' /\ Kept'
  BY <1>1, SameLinks, SameDicts DEF NobodyInv
<1>6. NobodyOverlooked'
  BY <1>1 DEF NobodyOverlooked
<1> QED BY <1>4, <1>5, <1>6 DEF NobodyInv

LEMMA NextNobody ==
  ASSUME HonestPublications, IInv, NobodyInv, [Next]_vars
  PROVE  NobodyInv'
<1>1. CASE LoadLink
  BY <1>1, NobodyLoadLink
<1>2. CASE CheckLoaded
  BY <1>2, NobodyCheckLoaded
<1>3. CASE LoadingEnds
  BY <1>3, NobodyLoopEnds DEF LoadingEnds
<1>4. CASE VerifySignatures
  BY <1>4, NobodyVerifySignatures
<1>5. CASE SignaturesEnd
  BY <1>5, NobodyLoopEnds DEF SignaturesEnd
<1>6. CASE VerifyConstraints
  <2>1. phase = "constraints" /\ UNCHANGED <<phase, layout, disk, atStart>>
    BY <1>6 DEF VerifyConstraints, Running, Fail, directory, history
  <2> QED BY <2>1, NobodyLater
<1>7. CASE ConstraintsEnd
  BY <1>7, NobodyLoopEnds DEF ConstraintsEnd
<1>8. CASE Reduce
  <2>1. phase = "reduce" /\ UNCHANGED <<phase, layout, disk, atStart>>
    BY <1>8 DEF Reduce, Fail, directory, history
  <2> QED BY <2>1, NobodyLater
<1>9. CASE \E file \in FileName : OpenLink(file) \/ WriteLink(file)
  BY <1>9, NobodyPublish
<1>10. CASE UNCHANGED vars
  <2>1. UNCHANGED <<layout, disk, atStart, phase, step, pubkey, subkey, links_per_step,
                    steps_metadata, status>>
    BY <1>10 DEF vars, directory, verifier, history
  <2>2. NobodyOverlooked'
    BY <2>1 DEF NobodyInv, NobodyOverlooked, ThisStep, InPlace
  <2> QED BY <2>1, <2>2, SameDirectory, SameLinks, SameDicts DEF NobodyInv
<1> QED BY <1>1, <1>2, <1>3, <1>4, <1>5, <1>6, <1>7, <1>8, <1>9, <1>10 DEF Next, Verify, Publish

\* Where threshold functionaries have their links in place when verification starts, and
\* what is dumped meanwhile to a file is signed by the functionary it belongs to, then
\* neither load_links_for_layout nor verify_link_signature_thresholds finds too few.
THEOREM OverlookedCorrect ==
  ASSUME HonestPublications
  PROVE  Spec => []NobodyOverlooked
<1>1. Init => IInv /\ NobodyInv
  BY InitIInv, InitNobody
<1>2. IInv /\ NobodyInv /\ [Next]_vars => (IInv /\ NobodyInv)'
  BY NextIInv, NextNobody
<1>3. NobodyInv => NobodyOverlooked
  BY DEF NobodyInv
<1> QED BY <1>1, <1>2, <1>3, PTL DEF Spec
=============================================================================
