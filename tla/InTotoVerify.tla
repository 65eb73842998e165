---------------------------- MODULE InTotoVerify ----------------------------
(***************************************************************************)
(* in_toto_verify (verifylib): the phases of the verification of a final   *)
(* product, its recursion into sublayouts, and the inspections it runs.    *)
(*                                                                         *)
(* The stack holds one frame per call of in_toto_verify that has not       *)
(* returned.  An exception is caught by none of them, and nothing is undone *)
(* on the way out: raising freezes the state.                              *)
(*                                                                         *)
(* A metadata file, a payload's type included, is a Doc of ThresholdOps.   *)
(* Loading a directory is one step here, LinkThresholds has it file by     *)
(* file; so is the application of all rules, which ItemRules has rule by   *)
(* rule and proves equal to ItemHolds.                                     *)
(***************************************************************************)
EXTENDS RuleOps, ThresholdOps

CONSTANTS Short,     \* Short[keyid]: the part of it in file and directory names (:.8)
          Calls,     \* arguments in_toto_verify is called with, and the files it finds
          Format,    \* Format[params][layout]: the layout with its placeholders replaced,
                     \* undefined when one of them has no value
          Commands,  \* Commands[run][artifacts]: how a command may end
          Project,   \* artifacts below ARTIFACT_BASE_PATH when that is set
          MaxTime    \* bound on the clock

Seqs == INSTANCE SequencesExt

NoParams == "no parameters"
Key(keyid, subkeys) == [keyid |-> keyid, subkeys |-> subkeys]

IsLayout(payload) == payload.type_ = "layout"
LinkOf(materials, products) ==
  [type_ |-> "link", materials |-> materials, products |-> products]

\* How a command may end: what in_toto_run and the check of the return value make
\* of it, and the artifacts it leaves.
Ending == [result : {"zero", "BadReturnValueError", "TimeoutExpired"}, after : Artifacts]

\* A layout as its validation leaves it, the subkeys being as WellFormed assumes.
Valid(layout) ==
  /\ WellFormed(layout)
  /\ layout.steps \in Seq(Elements(layout.steps))
  /\ layout.inspect \in Seq(Elements(layout.inspect))
  /\ \A i \in DOMAIN layout.inspect : layout.inspect[i].run \in DOMAIN Commands
  /\ layout.expires \in Int

ASSUME VerifyAssumption ==
  /\ MaxTime \in Nat
  /\ \A payload \in Payloads : IsLayout(payload) => Valid(payload)
  /\ \A params \in DOMAIN Format : \A layout \in DOMAIN Format[params] :
       IsLayout(Format[params][layout]) /\ Valid(Format[params][layout])
  /\ \A run \in DOMAIN Commands : Commands[run] \in [Artifacts -> SUBSET Ending]
  /\ \A c \in Calls :
       /\ c.metadata \in Doc /\ IsLayout(c.metadata.payload)
       /\ \A path \in DOMAIN c.files : \A file \in DOMAIN c.files[path] :
            c.files[path][file] \in Doc
       /\ c.params \in {NoParams} \cup DOMAIN Format
       /\ c.cwd \in Artifacts

VARIABLES
  call,       \* the arguments and the files of the outermost call
  stack,      \* frames of the calls of in_toto_verify, the innermost last
  now,        \* the clock
  cwd,        \* artifacts below the current working directory
  base_path,  \* settings.ARTIFACT_BASE_PATH: "unset" or "project"
  persisted,  \* names of the inspection links written to cwd
  status,     \* "working", "passed" or the exception raised
  log,        \* history: stack and cwd when a command was started
  returned    \* history: frames that have returned, with their summary links

vars == <<call, stack, now, cwd, base_path, persisted, status, log, returned>>
history == <<log, returned>>
world == <<cwd, base_path, persisted>>

-----------------------------------------------------------------------------
(* Frames *)

NoLinks == << >>

\* Entering in_toto_verify.
Frame(metadata, keys, path, step_name, params, persist) ==
  [metadata |-> metadata, layout_key_dict |-> keys, link_dir_path |-> path,
   step_name |-> step_name, substitution_parameters |-> params, persist |-> persist,
   pc |-> "layout signatures", layout |-> metadata.payload,
   steps_metadata |-> NoLinks, chain |-> NoLinks, step |-> 1, key |-> 1,
   reduced |-> NoLinks, inspection |-> 1, inspection_links |-> NoLinks,
   base_path_backup |-> "unset", materials |-> << >>]

Top == stack[Len(stack)]
At(pc) == status = "working" /\ Top.pc = pc
Becomes(frame) == stack' = [stack EXCEPT ![Len(stack)] = frame]

\* (mutant) The innermost call is made again instead.
RaiseRetrying(error) ==
  /\ Becomes(Frame(Top.metadata, Top.layout_key_dict, Top.link_dir_path, Top.step_name,
                   Top.substitution_parameters, Top.persist))
  /\ UNCHANGED status

Raise(error) == status' = error /\ UNCHANGED stack
Proceed(frame) == Becomes(frame) /\ UNCHANGED status

OnStack == UNCHANGED <<call, now, world, history>>

NamesOf(layout) == {layout.steps[i].name : i \in DOMAIN layout.steps}
StepNamed(layout, n) == CHOOSE st \in Elements(layout.steps) : st.name = n
With(f, k, v) == [x \in DOMAIN f \cup {k} |-> IF x = k THEN v ELSE f[x]]

Init ==
  /\ call \in Calls
  /\ stack = <<Frame(call.metadata, call.keys, << >>, "unnamed", call.params, call.persist)>>
  /\ now = 0
  /\ cwd = call.cwd /\ base_path = call.base_path /\ persisted = {}
  /\ status = "working"
  /\ log = << >> /\ returned = << >>

-----------------------------------------------------------------------------
(* The phases, in order *)

Own(key) == {key.keyid} \cup Elements(key.subkeys)
KeyAccepts(key, doc) == VerifySignature(doc, Own(key), key.keyid)

\* (mutant) One good signature is enough.
VerifyLayoutSignaturesAny ==
  LET keys == UNION {Top.layout_key_dict[k] : k \in DOMAIN Top.layout_key_dict}
  IN  /\ At("layout signatures")
      /\ IF \E k \in DOMAIN Top.layout_key_dict : Top.layout_key_dict[k] = {}
         THEN Raise("FormatError")
         ELSE IF \A key \in keys : ~KeyAccepts(key, Top.metadata)
         THEN Raise("SignatureVerificationError")
         ELSE Proceed([Top EXCEPT !.pc = "expiration"])
      /\ OnStack

\* The error is that of the first key that does not accept the layout.
VerifyLayoutSignatures ==
  LET keys == UNION {Top.layout_key_dict[k] : k \in DOMAIN Top.layout_key_dict}
      refused(key) == NoKey(Top.metadata, Own(key), key.keyid)
  IN  /\ At("layout signatures")
      /\ IF \E k \in DOMAIN Top.layout_key_dict : Top.layout_key_dict[k] = {}
         THEN Raise("FormatError")
         ELSE \/ /\ keys = {} \/ \E key \in keys : ~KeyAccepts(key, Top.metadata) /\ ~refused(key)
                 /\ Raise("SignatureVerificationError")
              \/ /\ \E key \in keys : refused(key)
                 /\ Raise("ValueError")
              \/ /\ keys # {} /\ \A key \in keys : KeyAccepts(key, Top.metadata)
                 /\ Proceed([Top EXCEPT !.pc = "expiration"])
      /\ OnStack

VerifyExpiration ==
  /\ At("expiration")
  /\ IF Top.layout.expires <= now THEN Raise("LayoutExpiredError")
     ELSE Proceed([Top EXCEPT !.pc = "substitution"])
  /\ OnStack

SubstituteParameters ==
  LET params == Top.substitution_parameters
  IN  /\ At("substitution")
      /\ IF params = NoParams THEN Proceed([Top EXCEPT !.pc = "load"])
         ELSE IF Top.layout \notin DOMAIN Format[params] THEN Raise("KeyError")
         ELSE Proceed([Top EXCEPT !.pc = "load", !.layout = Format[params][Top.layout]])
      /\ OnStack

\* Links and sublayouts of a step in a directory, in the order they are looked for.
FilesIn(path) == IF path \in DOMAIN call.files THEN call.files[path] ELSE << >>

\* Each entry of pubkeys is looked for, then its subkeys; a keyid found again keeps
\* its place in the dict.
LoadedFor(layout, st, path) ==
  LET subkeys(k) == IF k \in DOMAIN layout.keys THEN layout.keys[k] ELSE << >>
      lookups == UNION {{i} \X (0 .. Len(subkeys(st.pubkeys[i]))) : i \in DOMAIN st.pubkeys}
      keyid(p) == IF p[2] = 0 THEN st.pubkeys[p[1]] ELSE subkeys(st.pubkeys[p[1]])[p[2]]
      NotAfter(p, q) == p[1] < q[1] \/ (p[1] = q[1] /\ p[2] <= q[2])
      first(k) == CHOOSE p \in lookups :
                    keyid(p) = k /\ \A q \in lookups : keyid(q) = k => NotAfter(p, q)
      file(k) == <<st.name, Short[k]>>
      found == {k \in {keyid(p) : p \in lookups} : file(k) \in DOMAIN FilesIn(path)}
  IN  [order |-> Sorted(found, {r \in found \X found : NotAfter(first(r[1]), first(r[2]))}),
       at |-> [k \in found |-> FilesIn(path)[file(k)]]]

LoadLinks ==
  LET loaded == [n \in NamesOf(Top.layout) |->
                   LoadedFor(Top.layout, StepNamed(Top.layout, n), Top.link_dir_path)]
  IN  /\ At("load")
      /\ IF \E st \in Elements(Top.layout.steps) :
              Cardinality(KeysOf(loaded[st.name])) < st.threshold
         THEN Raise("LinkNotFoundError")
         ELSE Proceed([Top EXCEPT !.pc = "link signatures", !.steps_metadata = loaded])
      /\ OnStack

\* The error is that of the first step that fails.
VerifyLinkSignatures ==
  LET dict(st) == Top.steps_metadata[st.name]
      short(st) ==
        Cardinality(UsedMainKeyids(Top.layout, st.pubkeys, dict(st))) < st.threshold
      refused(st) == ValueErrorRaised(Top.layout, st.pubkeys, dict(st))
      steps == Elements(Top.layout.steps)
      verified == [n \in NamesOf(Top.layout) |->
                     LET st == StepNamed(Top.layout, n)
                     IN  Keeping(dict(st), Verified(Top.layout, st.pubkeys, dict(st)))]
  IN  /\ At("link signatures")
      /\ \/ (\E st \in steps : refused(st)) /\ Raise("ValueError")
         \/ (\E st \in steps : short(st) /\ ~refused(st)) /\ Raise("ThresholdVerificationError")
         \/ /\ \A st \in steps : ~short(st) /\ ~refused(st)
            /\ Proceed([Top EXCEPT !.pc = "sublayouts", !.steps_metadata = verified,
                                   !.chain = [n \in NamesOf(Top.layout) |-> EmptyDict]])
      /\ OnStack

(***************************************************************************)
(* verify_sublayouts: one entry of one step's dict at a time.              *)
(***************************************************************************)
ThisStep == Top.layout.steps[Top.step]
ThisDict == Top.steps_metadata[ThisStep.name]
ThisKeyid == ThisDict.order[Top.key]
ThisDoc == ThisDict.at[ThisKeyid]

AtEntry == At("sublayouts") /\ Top.step <= Len(Top.layout.steps)
                            /\ Top.key <= Len(ThisDict.order)

\* key_link_dict[keyid] = payload, and on to the next entry.
WithEntry(frame, n, keyid, payload) ==
  [frame EXCEPT !.chain[n] = Put(@, keyid, payload), !.key = @ + 1]

\* (mutant) Sublayouts are taken for links.
TakeAnything ==
  /\ AtEntry
  /\ Proceed(WithEntry(Top, ThisStep.name, ThisKeyid, ThisDoc.payload))
  /\ OnStack

TakeLink ==
  /\ AtEntry /\ ~IsLayout(ThisDoc.payload)
  /\ Proceed(WithEntry(Top, ThisStep.name, ThisKeyid, ThisDoc.payload))
  /\ OnStack

\* {keyid: layout.keys.get(keyid)}, where {} stands for None.
SublayoutKeys(layout, keyid) ==
  [k \in {keyid} |-> {Key(m, layout.keys[m]) : m \in {k} \cap DOMAIN layout.keys}]

\* The recursive call: parameters and persist_inspection_links take their defaults.
EnterSublayout ==
  /\ AtEntry /\ IsLayout(ThisDoc.payload)
  /\ stack' = Append(stack,
                Frame(ThisDoc, SublayoutKeys(Top.layout, ThisKeyid),
                      Append(Top.link_dir_path, <<ThisStep.name, Short[ThisKeyid]>>),
                      ThisStep.name, NoParams, TRUE))
  /\ UNCHANGED status /\ OnStack

NextStep ==
  /\ At("sublayouts") /\ Top.step <= Len(Top.layout.steps)
  /\ Top.key > Len(ThisDict.order)
  /\ Proceed([Top EXCEPT !.step = @ + 1, !.key = 1])
  /\ OnStack

SublayoutsEnd ==
  /\ At("sublayouts") /\ Top.step > Len(Top.layout.steps)
  /\ Proceed([Top EXCEPT !.pc = "constraints"])
  /\ OnStack

VerifyConstraints ==
  /\ At("constraints")
  /\ IF \E st \in Elements(Top.layout.steps) :
          /\ st.threshold > 1
          /\ \/ Cardinality(KeysOf(Top.chain[st.name])) < st.threshold
             \/ Disagree(Top.chain[st.name])
     THEN Raise("ThresholdVerificationError")
     ELSE Proceed([Top EXCEPT !.pc = "reduce"])
  /\ OnStack

Reduce ==
  /\ At("reduce")
  /\ IF \E n \in DOMAIN Top.chain : KeysOf(Top.chain[n]) = {} THEN Raise("IndexError")
     ELSE Proceed([Top EXCEPT !.pc = "step rules",
                     !.reduced = [n \in DOMAIN Top.chain |-> FirstValue(Top.chain[n])]])
  /\ OnStack

\* (mutant) Step rules are processed only if there are no inspections to run.
VerifyStepRulesLater ==
  /\ At("step rules")
  /\ IF /\ Top.layout.inspect = << >>
        /\ \E st \in Elements(Top.layout.steps) : ~ItemHolds(st, Top.reduced)
     THEN Raise("RuleVerificationError")
     ELSE Proceed([Top EXCEPT !.pc = "inspections"])
  /\ OnStack

VerifyStepRules ==
  /\ At("step rules")
  /\ IF \E st \in Elements(Top.layout.steps) : ~ItemHolds(st, Top.reduced)
     THEN Raise("RuleVerificationError")
     ELSE Proceed([Top EXCEPT !.pc = "inspections"])
  /\ OnStack

(***************************************************************************)
(* run_all_inspections, with what in_toto_run does of it: record ".", run, *)
(* record "." again.  The command may change the files and may end in any  *)
(* way; TimeoutExpired and OSError leave in_toto_run, and a command that   *)
(* returned something else than 0 is only found out after it.              *)
(***************************************************************************)
Inspection == Top.layout.inspect[Top.inspection]

Recorded(base) == IF base = "unset" THEN cwd ELSE Project

\* (mutant) ARTIFACT_BASE_PATH is left as the caller of in_toto_verify set it.
StartInspectionKeepBasePath ==
  /\ At("inspections") /\ Top.inspection <= Len(Top.layout.inspect)
  /\ log' = Append(log, [stack |-> stack, cwd |-> cwd])
  /\ Proceed([Top EXCEPT !.pc = "command", !.base_path_backup = base_path,
                         !.materials = Recorded(base_path)])
  /\ UNCHANGED <<call, now, cwd, base_path, persisted, returned>>

StartInspection ==
  /\ At("inspections") /\ Top.inspection <= Len(Top.layout.inspect)
  /\ base_path' = "unset"
  /\ log' = Append(log, [stack |-> stack, cwd |-> cwd])
  /\ Proceed([Top EXCEPT !.pc = "command", !.base_path_backup = base_path,
                         !.materials = Recorded(base_path')])
  /\ UNCHANGED <<call, now, cwd, persisted, returned>>

\* (mutant) A command that has only just got its link is run once more.
NextInspectionAgain ==
  IF Inspection.name \in DOMAIN Top.inspection_links THEN Top.inspection + 1 ELSE Top.inspection

NextInspection == Top.inspection + 1

\* (mutant) Nobody restores the base path.
RestoredNever == base_path

Restored == Top.base_path_backup

EndInspection ==
  /\ At("command")
  /\ \E end \in Commands[Inspection.run][cwd] :
       /\ cwd' = end.after
       /\ IF end.result = "zero"
          THEN /\ base_path' = Restored
               /\ persisted' = IF Top.persist THEN persisted \cup {Inspection.name} ELSE persisted
               /\ LET products == IF base_path = "unset" THEN end.after ELSE Project
                  IN  Proceed([Top EXCEPT !.pc = "inspections", !.inspection = NextInspection,
                                 !.inspection_links = With(@, Inspection.name,
                                                          LinkOf(Top.materials, products))])
          ELSE /\ Raise(end.result)
               /\ UNCHANGED <<base_path, persisted>>
  /\ UNCHANGED <<call, now, history>>

\* combined_links: the steps' links, updated with the inspections'.
VerifyInspectionRules ==
  LET links == [n \in DOMAIN Top.reduced \cup DOMAIN Top.inspection_links |->
                  IF n \in DOMAIN Top.inspection_links THEN Top.inspection_links[n]
                                                       ELSE Top.reduced[n]]
  IN  /\ At("inspections") /\ Top.inspection > Len(Top.layout.inspect)
      /\ IF \E insp \in Elements(Top.layout.inspect) : ~ItemHolds(insp, links)
         THEN Raise("RuleVerificationError")
         ELSE Proceed([Top EXCEPT !.pc = "return"])
      /\ OnStack

\* (mutant) The products of the first step instead of those of the last.
SummaryLinkFirst(layout, reduced) ==
  IF layout.steps = << >> THEN LinkOf(<< >>, << >>)
  ELSE LinkOf(reduced[layout.steps[1].name].materials, reduced[layout.steps[1].name].products)

\* get_summary_link
SummaryLink(layout, reduced) ==
  IF layout.steps = << >> THEN LinkOf(<< >>, << >>)
  ELSE LinkOf(reduced[layout.steps[1].name].materials,
              reduced[Seqs!Last(layout.steps).name].products)

\* Return to the caller of in_toto_verify, or to verify_sublayouts of the frame below.
Return ==
  LET summary == SummaryLink(Top.layout, Top.reduced)
      below == stack[Len(stack) - 1]
  IN  /\ At("return")
      /\ returned' = Append(returned, [frame |-> Top, summary |-> summary])
      /\ IF Len(stack) = 1
         THEN status' = "passed" /\ UNCHANGED stack
         ELSE /\ stack' = Append(SubSeq(stack, 1, Len(stack) - 2),
                            WithEntry(below, below.layout.steps[below.step].name,
                                      below.steps_metadata[below.layout.steps[below.step].name]
                                        .order[below.key], summary))
              /\ UNCHANGED status
      /\ UNCHANGED <<call, now, world, log>>

Tick ==
  /\ status = "working" /\ now < MaxTime
  /\ now' = now + 1
  /\ UNCHANGED <<call, stack, world, status, history>>

Verify ==
  \/ VerifyLayoutSignatures \/ VerifyExpiration \/ SubstituteParameters
  \/ LoadLinks \/ VerifyLinkSignatures
  \/ TakeLink \/ EnterSublayout \/ NextStep \/ SublayoutsEnd
  \/ VerifyConstraints \/ Reduce \/ VerifyStepRules
  \/ StartInspection \/ EndInspection \/ VerifyInspectionRules
  \/ Return

Next == Verify \/ Tick

\* Sequential code that keeps running; a command that does not end is stopped by
\* its timeout.
Spec == Init /\ [][Next]_vars /\ WF_vars(Verify)

-----------------------------------------------------------------------------
(* Properties *)

Errors == {"FormatError", "SignatureVerificationError", "LayoutExpiredError", "KeyError",
           "ValueError", "LinkNotFoundError", "ThresholdVerificationError", "IndexError",
           "RuleVerificationError", "BadReturnValueError", "TimeoutExpired"}

Phases == {"layout signatures", "expiration", "substitution", "load", "link signatures",
           "sublayouts", "constraints", "reduce", "step rules", "inspections", "command",
           "return"}
Reduced(frame) == frame.pc \in {"step rules", "inspections", "command", "return"}

\* Types; a call below another one waits in verify_sublayouts.
TypeOK ==
  /\ now \in 0 .. MaxTime
  /\ status \in {"working", "passed"} \cup Errors
  /\ stack # << >>
  /\ \A i \in DOMAIN stack :
       /\ stack[i].pc \in Phases
       /\ stack[i].metadata \in Doc /\ IsLayout(stack[i].layout)
       /\ i < Len(stack) => stack[i].pc = "sublayouts"
       /\ Reduced(stack[i]) =>
            \A n \in DOMAIN stack[i].reduced : ~IsLayout(stack[i].reduced[n])
  /\ base_path \in {"unset", call.base_path}

\* frames is a chain of trust: every key the caller passed has signed the layout at
\* its bottom, and every other layout was found, for a step of the one below it,
\* signed by a functionary authorized for that step.  None had expired at the start.
Trusted(frames) ==
  /\ DOMAIN call.keys # {}
  /\ \A key \in UNION {call.keys[k] : k \in DOMAIN call.keys} :
       \E s \in Elements(frames[1].metadata.signatures) :
         s.good /\ s.keyid \in {key.keyid} \cup Elements(key.subkeys)
  /\ \A i \in 2 .. Len(frames) :
       LET super == frames[i - 1].layout
       IN  \E st \in Elements(super.steps) : \E m \in AuthorizedMains(super, st) :
             /\ frames[i].step_name = st.name
             /\ Signed(super, m, frames[i].metadata)
  /\ \A i \in DOMAIN frames : frames[i].metadata.payload.expires > 0

\* No command runs on the verifier's machine but inspections of layouts that a
\* chain of delegations connects with the keys the caller trusts.
OnlyTrustedCommands ==
  \A i \in DOMAIN log : Trusted(log[i].stack)

\* Within one layout, "processing step rules before executing inspections": when a
\* command is started, every rule of every step of its layout holds.
OwnRulesFirst ==
  \A i \in DOMAIN log :
    LET frame == Seqs!Last(log[i].stack)
    IN  \A st \in Elements(frame.layout.steps) : ItemHolds(st, frame.reduced)

\* sub is the verification of the sublayout that frame's entry k for step st is, and
\* its chain leads from the materials to the products of payload.
Delivers(sub, frame, st, k, payload) ==
  /\ sub.metadata = frame.steps_metadata[st.name].at[k]
  /\ sub.link_dir_path = Append(frame.link_dir_path, <<st.name, Short[k]>>)
  /\ sub.layout.steps # << >> =>
       /\ payload.materials = sub.reduced[Head(sub.layout.steps).name].materials
       /\ payload.products = sub.reduced[Seqs!Last(sub.layout.steps).name].products

\* The entry k of frame's dict for step st reports the artifacts of payload: it is a
\* link with these artifacts, or a sublayout that was verified and delivers them.
Vouches(frame, st, k, payload) ==
  LET doc == frame.steps_metadata[st.name].at[k]
  IN  \/ doc.payload = payload
      \/ /\ IsLayout(doc.payload)
         /\ \E i \in DOMAIN returned : Delivers(returned[i].frame, frame, st, k, payload)

\* In every layout on the way, delegated steps included, what is verified further is
\* backed for each step by as many authorized functionaries as its threshold says.
ThresholdBacksReduced ==
  \A frame \in {stack[i] : i \in DOMAIN stack} \cup {returned[i].frame : i \in DOMAIN returned} :
    Reduced(frame) =>
      \A st \in Elements(frame.layout.steps) :
        Cardinality({m \in AuthorizedMains(frame.layout, st) :
          \E k \in KeysOf(frame.chain[st.name]) :
            /\ Signed(frame.layout, m, frame.steps_metadata[st.name].at[k])
            /\ Vouches(frame, st, k, frame.reduced[st.name])}) >= st.threshold

\* An inspection's link reports the files its command was started on, wherever the
\* caller has pointed ARTIFACT_BASE_PATH and whatever earlier commands changed.
InspectionsReportCwd ==
  \A i \in DOMAIN returned :
    LET frame == returned[i].frame
    IN  \A n \in DOMAIN frame.inspection_links :
          \E j \in DOMAIN log :
            LET caller == Seqs!Last(log[j].stack)
            IN  /\ caller.link_dir_path = frame.link_dir_path
                /\ caller.layout.inspect[caller.inspection].name = n
                /\ log[j].cwd = frame.inspection_links[n].materials

\* Verification that passes leaves the global setting as it found it.
BasePathRestored == status = "passed" => base_path = call.base_path

\* The commands started for the layout verified with this link directory are those of
\* the inspections in ran, each once, in the layout's order.
RanInOrder(lg, path, ran) ==
  LET own == {j \in DOMAIN lg : Seqs!Last(lg[j].stack).link_dir_path = path}
      started(j) == Seqs!Last(lg[j].stack).inspection
  IN  /\ {started(j) : j \in own} = ran
      /\ \A j, k \in own : j < k => started(j) < started(k)

\* Verification passes only when every inspection of every layout it went through,
\* sublayouts included, was run, once and in the layout's order.
EveryInspectionRan ==
  \A i \in DOMAIN returned :
    LET frame == returned[i].frame
    IN  RanInOrder(log, frame.link_dir_path, DOMAIN frame.layout.inspect)

\* Verification comes to an end, however deep sublayouts are nested.
Terminates == <>(status # "working")
=============================================================================
