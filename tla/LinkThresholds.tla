--------------------------- MODULE LinkThresholds ---------------------------
(***************************************************************************)
(* From link files to one link per step (verifylib):                       *)
(* load_links_for_layout, verify_link_signature_thresholds,                *)
(* verify_threshold_constraints and reduce_chain_links, in the order       *)
(* in_toto_verify calls them, while functionaries still write link files   *)
(* to the directory the verifier reads (Metadata.dump is not atomic).      *)
(*                                                                         *)
(* Payloads are what a link reports, its materials and products; steps     *)
(* that are delegated to sublayouts are InTotoVerify's business.           *)
(***************************************************************************)
EXTENDS ThresholdOps

CONSTANTS Short,        \* Short[keyid]: the part of it in a file name (:.8)
          Layouts,      \* layouts verification may be called with
          Files,        \* Files[layout]: initial contents of the link directory
          Publications, \* Publications[layout][file]: what may be dumped to it meanwhile
          MaxDumps      \* bound on the dumps during one verification

FileName == StepNames \X {Short[k] : k \in Keyids}
Absent == [kind |-> "absent"]
Torn == [kind |-> "torn"]      \* opened for writing, not (or never) written
Holding(doc) == [kind |-> "metadata", doc |-> doc]
IsContent(c) == c \in {Absent, Torn} \/ (c = Holding(c.doc) /\ c.doc \in Doc)
IsDirectory(files) == DOMAIN files = FileName /\ \A f \in FileName : IsContent(files[f])

ASSUME ThresholdsAssumption ==
  /\ \A lay \in Layouts :
       /\ WellFormed(lay)
       /\ lay.steps \in Seq([name : StepNames, pubkeys : Seq(Keyids), threshold : Int])
       /\ \A files \in Files[lay] : IsDirectory(files)
       /\ \A f \in FileName : \A doc \in Publications[lay][f] : doc \in Doc
  /\ MaxDumps \in Nat

VARIABLES
  layout,          \* argument, never assigned
  disk,            \* the link directory
  writing,         \* link files opened by a functionary that has not written yet
  dumps,           \* number of link files opened since verification started
  phase,           \* which function runs
  step,            \* index of the step in the loop of that function
  pubkey, subkey,  \* load: position in step.pubkeys; 0, or position in its subkeys
  links_per_step,  \* load: the dict under construction
  steps_metadata,  \* step name -> dict of metadata, replaced by the verified ones
  reduced,         \* reduced_chain_link_dict: step name -> metadata
  status,          \* "working", "passed" or the exception raised
  atStart,         \* history: the link directory when verification started
  published        \* history: step name -> links that have been in the directory

verifier == <<phase, step, pubkey, subkey, links_per_step, steps_metadata, reduced, status>>
directory == <<disk, writing, dumps>>
history == <<atStart, published>>
vars == <<layout, directory, verifier, history>>

-----------------------------------------------------------------------------
ThisStep == layout.steps[step]

\* The links that a directory holds for step n.
InFiles(n, files) ==
  {files[f].doc : f \in {g \in FileName : g[1] = n /\ files[g].kind = "metadata"}}

Init ==
  /\ layout \in Layouts
  /\ disk \in Files[layout]
  /\ atStart = disk
  /\ published = [n \in StepNames |-> InFiles(n, disk)]
  /\ writing = {} /\ dumps = 0
  /\ phase = "load" /\ step = 1
  /\ pubkey = 1 /\ subkey = 0
  /\ links_per_step = EmptyDict
  /\ steps_metadata = << >> /\ reduced = << >>
  /\ status = "working"

Running(p) == status = "working" /\ phase = p /\ step <= Len(layout.steps)

\* The loop of phase p is done with its last step.
LoopEnds(p, next) ==
  /\ status = "working" /\ phase = p /\ step = Len(layout.steps) + 1
  /\ phase' = next /\ step' = 1
  /\ UNCHANGED <<layout, directory, history, pubkey, subkey, links_per_step,
                 steps_metadata, reduced, status>>

\* (mutant) Load again instead of raising.
FailRetrying(error) ==
  /\ pubkey' = 1 /\ subkey' = 0 /\ links_per_step' = EmptyDict
  /\ UNCHANGED <<layout, directory, history, phase, step, steps_metadata, reduced, status>>

Fail(error) ==
  /\ status' = error
  /\ UNCHANGED <<layout, directory, history, phase, step, pubkey, subkey,
                 links_per_step, steps_metadata, reduced>>

\* (mutant) Subkeys of authorized keys are not looked for.
LoadingMainKeyid == ThisStep.pubkeys[pubkey]

LoadingKeyid ==
  IF subkey = 0 THEN ThisStep.pubkeys[pubkey]
                ELSE layout.keys[ThisStep.pubkeys[pubkey]][subkey]

\* One file: absent (IOError) is skipped, but a half-written one is no JSON.
LoadLink ==
  /\ Running("load") /\ pubkey <= Len(ThisStep.pubkeys)
  /\ LET authorized == ThisStep.pubkeys[pubkey]
         nsub == IF authorized \in DOMAIN layout.keys THEN Len(layout.keys[authorized]) ELSE 0
         content == disk[<<ThisStep.name, Short[LoadingKeyid]>>]
     IN  IF content.kind = "torn"
         THEN Fail("JSONDecodeError")
         ELSE /\ links_per_step' = IF content.kind = "absent" THEN links_per_step
                                   ELSE Put(links_per_step, LoadingKeyid, content.doc)
              /\ IF subkey < nsub
                 THEN subkey' = subkey + 1 /\ UNCHANGED pubkey
                 ELSE subkey' = 0 /\ pubkey' = pubkey + 1
              /\ UNCHANGED <<layout, directory, history, phase, step, steps_metadata,
                             reduced, status>>

\* The preliminary threshold check, then on to the next step.
CheckLoaded ==
  /\ Running("load") /\ pubkey = Len(ThisStep.pubkeys) + 1
  /\ IF Cardinality(KeysOf(links_per_step)) < ThisStep.threshold
     THEN Fail("LinkNotFoundError")
     ELSE /\ steps_metadata' =
               [n \in DOMAIN steps_metadata \cup {ThisStep.name} |->
                  IF n = ThisStep.name THEN links_per_step ELSE steps_metadata[n]]
          /\ links_per_step' = EmptyDict
          /\ pubkey' = 1 /\ subkey' = 0 /\ step' = step + 1
          /\ UNCHANGED <<layout, directory, history, phase, reduced, status>>

LoadingEnds == LoopEnds("load", "signatures")

\* One step of verify_link_signature_thresholds.
VerifySignatures ==
  /\ Running("signatures")
  /\ LET dict == steps_metadata[ThisStep.name]
     IN  IF ValueErrorRaised(layout, ThisStep.pubkeys, dict)
         THEN Fail("ValueError")
         ELSE IF Cardinality(UsedMainKeyids(layout, ThisStep.pubkeys, dict)) < ThisStep.threshold
         THEN Fail("ThresholdVerificationError")
         ELSE /\ steps_metadata' = [steps_metadata EXCEPT ![ThisStep.name] =
                                      Keeping(dict, Verified(layout, ThisStep.pubkeys, dict))]
              /\ step' = step + 1
              /\ UNCHANGED <<layout, directory, history, phase, pubkey, subkey,
                             links_per_step, reduced, status>>

SignaturesEnd == LoopEnds("signatures", "constraints")

\* One step of verify_threshold_constraints; a threshold of 1 or less skips it.
VerifyConstraints ==
  /\ Running("constraints")
  /\ LET dict == steps_metadata[ThisStep.name]
     IN  IF /\ ThisStep.threshold > 1
            /\ Cardinality(KeysOf(dict)) < ThisStep.threshold \/ Disagree(PayloadsOf(dict))
         THEN Fail("ThresholdVerificationError")
         ELSE /\ step' = step + 1
              /\ UNCHANGED <<layout, directory, history, phase, pubkey, subkey,
                             links_per_step, steps_metadata, reduced, status>>

ConstraintsEnd == LoopEnds("constraints", "reduce")

\* reduce_chain_links: list(values)[0] of every step, if every step has a link.
Reduce ==
  /\ status = "working" /\ phase = "reduce"
  /\ IF \E n \in DOMAIN steps_metadata : KeysOf(steps_metadata[n]) = {}
     THEN Fail("IndexError")
     ELSE /\ reduced' = [n \in DOMAIN steps_metadata |-> FirstValue(steps_metadata[n])]
          /\ status' = "passed"
          /\ UNCHANGED <<layout, directory, history, phase, step, pubkey, subkey,
                         links_per_step, steps_metadata>>

Verify ==
  \/ LoadLink \/ CheckLoaded \/ LoadingEnds
  \/ VerifySignatures \/ SignaturesEnd
  \/ VerifyConstraints \/ ConstraintsEnd
  \/ Reduce

(***************************************************************************)
(* Functionaries: open(path, "wb") truncates, write fills.  A functionary  *)
(* that crashes in between leaves the file torn.  What is dumped after the *)
(* last file is loaded is never read, and left out.                        *)
(***************************************************************************)
OpenLink(file) ==
  /\ status = "working" /\ phase = "load" /\ dumps < MaxDumps
  /\ file \notin writing /\ Publications[layout][file] # {}
  /\ disk' = [disk EXCEPT ![file] = Torn]
  /\ writing' = writing \cup {file} /\ dumps' = dumps + 1
  /\ UNCHANGED <<layout, verifier, history>>

WriteLink(file) ==
  /\ status = "working" /\ phase = "load" /\ file \in writing
  /\ \E doc \in Publications[layout][file] :
       /\ disk' = [disk EXCEPT ![file] = Holding(doc)]
       /\ published' = [published EXCEPT ![file[1]] = @ \cup {doc}]
  /\ writing' = writing \ {file}
  /\ UNCHANGED <<layout, dumps, verifier, atStart>>

Publish == \E file \in FileName : OpenLink(file) \/ WriteLink(file)

Next == Verify \/ Publish

\* The verifier is sequential code and keeps running; functionaries may stop.
Spec == Init /\ [][Next]_vars /\ WF_vars(Verify)

-----------------------------------------------------------------------------
(* Properties *)

Errors == {"LinkNotFoundError", "ThresholdVerificationError", "JSONDecodeError", "ValueError",
           "IndexError"}

\* Types; the dicts list exactly their keys, once each.
DictOK(dict) ==
  /\ dict.order \in Seq(Keyids)
  /\ \A k \in KeysOf(dict) : dict.at[k] \in Doc
  /\ Elements(dict.order) = KeysOf(dict)
  /\ Len(dict.order) = Cardinality(KeysOf(dict))

TypeOK ==
  /\ layout \in Layouts
  /\ IsDirectory(disk) /\ writing \subseteq FileName /\ dumps \in 0 .. MaxDumps
  /\ phase \in {"load", "signatures", "constraints", "reduce"}
  /\ step \in 1 .. Len(layout.steps) + 1
  /\ DictOK(links_per_step)
  /\ \A n \in DOMAIN steps_metadata : DictOK(steps_metadata[n])
  /\ status \in {"working", "passed"} \cup Errors

Checked(i) ==
  \/ phase \in {"constraints", "reduce"}
  \/ phase = "signatures" /\ i < step

\* No link gets past verify_link_signature_thresholds that no functionary
\* authorized for its step has signed, whatever name it was filed under.
OnlyAuthorizedLinks ==
  \A i \in DOMAIN layout.steps : Checked(i) =>
    LET st == layout.steps[i]
        dict == steps_metadata[st.name]
    IN  \A k \in KeysOf(dict) : \E m \in AuthorizedMains(layout, st) : Signed(layout, m, dict.at[k])

\* "different authorized functionaries": the links kept for a step were signed by
\* at least threshold different main keys; several subkeys of one key, or several
\* files, do not make several functionaries.
EnoughFunctionaries ==
  \A i \in DOMAIN layout.steps : Checked(i) =>
    LET st == layout.steps[i]
        dict == steps_metadata[st.name]
    IN  Cardinality({m \in AuthorizedMains(layout, st) :
                       \E k \in KeysOf(dict) : Signed(layout, m, dict.at[k])}) >= st.threshold

\* What later stages work with is what ThresholdPromise allows: for every step one
\* link whose artifacts threshold different authorized functionaries have published
\* under their signatures, or an exception.  Neither the order of files and dicts,
\* nor a file dumped in the middle of loading, makes any other link pass.
Promise == INSTANCE ThresholdPromise WITH
  layout <- layout,
  published <- published,
  outcome <- IF status \in Errors THEN "failed" ELSE status,
  evidence <- [n \in DOMAIN reduced |-> reduced[n].payload]
PromiseKept == Promise!Safety

\* Nobody's link is overlooked: if, when verification starts, threshold different
\* functionaries have their links in place, then verification does not fail for
\* want of links or signatures, whatever they and others publish meanwhile.
\* (File names tell the keyids of the step apart; see the README for the other case.)
InPlace(m, k, st, files) ==
  LET content == files[<<st.name, Short[k]>>]
  IN  /\ VerificationKey(layout, st.pubkeys, k) = {m}
      /\ content.kind = "metadata" /\ VerifySignature(content.doc, KeyWithSubkeys(layout, m), m)

Candidates(lay, st) == UNION {{k} \cup SubkeysOf(lay, k) : k \in Elements(st.pubkeys)}
Distinguished(lay, st) == \A k, l \in Candidates(lay, st) : Short[k] = Short[l] => k = l

NobodyOverlooked ==
  /\ phase \in {"load", "signatures"}
  /\ status \in {"LinkNotFoundError", "ThresholdVerificationError"}
  /\ Distinguished(layout, ThisStep)
  => Cardinality({m \in DOMAIN layout.keys :
                    \E k \in Candidates(layout, ThisStep) : InPlace(m, k, ThisStep, atStart)})
       < ThisStep.threshold

\* The premise of NobodyOverlooked on publications: what is dumped to the file of a
\* keyid meanwhile is signed by the functionary it belongs to, as in_toto_run and
\* in_toto_record_stop do it.  (Somebody else could replace a link by a worthless one.)
HonestPublications ==
  \A lay \in Layouts : \A st \in Elements(lay.steps) : Distinguished(lay, st) =>
    \A k \in Candidates(lay, st) : \A m \in VerificationKey(lay, st.pubkeys, k) :
      \A doc \in Publications[lay][<<st.name, Short[k]>>] :
        VerifySignature(doc, KeyWithSubkeys(lay, m), m)

\* Verification comes to an end whatever is published.
Decides == <>(status # "working")
=============================================================================
