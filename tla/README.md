# in-toto: a TLA+ verification development

in-toto secures a software supply chain. A *layout*, signed by the project owner, lists
*steps*, who may carry each of them out (functionaries, by keyid), how many of them must
agree (*threshold*) and *artifact rules* on what a step may use and make. Whoever carries
out a step records its *materials* and *products* in signed *link* metadata. A verifier
checks a final product against layout and links, runs the layout's *inspections*, and
descends into *sublayouts* where a step was delegated.

The modules here are translated from the Python source (`src/in_toto`); paths below are
relative to it. `PROJECT.json` lists components, runs, mutants, the source lines behind
every definition, findings, hazards and theorems.

    tlc -config MCItemRules.cfg MCItemRules      a run (PROJECT.json "runs" has them all)
    tlapm ItemRulesProofs.tla                    the proofs

## Inventory

For each component: the state it keeps; what it does; what it interacts with; what is hard
about it; what makes it correct.

| component | source | state | operations |
|---|---|---|---|
| Artifact rules | `verifylib.py` 649-1203 | the queue; the module global `RULE_TRACE` | `verify_{match,create,delete,modify,allow,disallow,require}_rule`, `verify_item_rules`, `verify_all_item_rules` |
| Rule grammar | `rulelib.py` | none | `unpack_rule`, `pack_rule` |
| Link thresholds | `verifylib.py` 100-178, 403-562, 1206-1341 | the dicts step -> keyid -> metadata; link files on disk | `load_links_for_layout`, `verify_link_signature_thresholds`, `verify_threshold_constraints`, `reduce_chain_links` |
| Final product verification | `verifylib.py` | call stack; `settings.ARTIFACT_BASE_PATH`; the working directory; the clock | `in_toto_verify`, `verify_sublayouts`, `run_all_inspections`, `substitute_parameters`, `verify_layout_expiration`, `verify_metadata_signatures`, `get_summary_link` |
| Running a command | `runlib.py` 212-352 | child process, two temporary files, clock | `execute_link`, `_subprocess_run_duplicate_streams` |
| Link generation | `runlib.py` 354-1122 | `.link-unfinished` and `.link` files, gpg home | `in_toto_run`, `in_toto_mock`, `in_toto_record_start`, `in_toto_record_stop` |
| Artifact recording | `runlib.py` 74-204, `resolver/` | resolver registry, process working directory, `settings.ARTIFACT_BASE_PATH` | `record_artifacts_as_dict`, `FileResolver`, `OSTreeResolver`, `DirectoryResolver` |
| Metadata and signing | `models/metadata.py`, `models/_signer.py`, `in_toto_sign.py` | signature lists of a `Metablock` or `Envelope`; files | `create_signature`, `verify_signature`, `dump`, `load`, `in_toto_sign` |
| Layout editing | `models/layout.py`, `models/common.py`, `models/link.py` | lists of steps and inspections, dict of keys | add, remove, get, validate, read |
| Matching local products | `runlib.py` 1125-, `in_toto_match_products.py` | none | `in_toto_match_products` |
| Command line tools | `in_toto_{run,record,mock,verify,sign}.py`, `common_args.py` | none | argument parsing, exit codes |
| Formats, settings, logging | `formats.py`, `settings.py`, `log.py`, `exceptions.py` | defaults | type checks |
| Cryptography | securesystemslib, gpg | key files, gpg home | sign, verify, export |

**Artifact rules** get links from the thresholds (steps) and from link generation
(inspections). Every rule reads what earlier rules left in the queue, so an error shows
rules later; the trace that explains a failure is global. Correct means: the queue is what
the rules mean artifact by artifact, the verdict follows, the blame and its trace are true.

**Link thresholds** read files that others write, in no agreed order and not atomically
(`dump` truncates, then writes). Subkeys, short keyids in file names, several signatures
per file and two containers decide who counts. Correct means: what is kept was signed by
enough different authorized main keys, the one link used later is backed by that many, and
nobody's link is overlooked.

**Final product verification** calls all of the above, and itself for sublayouts, and runs
commands through link generation, in the middle of its own phases. Global state is changed
and restored around commands that fail or time out, the clock moves, the layout object is
rewritten by parameter substitution. Correct means: commands run only for layouts that a
chain of delegations connects with the caller's keys; a pass means that each level met its
thresholds and ran its inspections, on the files that are really there.

**Running a command** is three concurrent parties: parent, child, clock; it polls, reads
and kills. Correct means: output is complete, the timeout holds, neither a child nor files
are left behind.

**Link generation** by several functionaries, or by steps with similar names, shares a
directory; a recording spans two calls with arbitrary time and crashes between. Correct
means: a stop finishes its own start, and a recording is never lost.

**Artifact recording** changes the process's directory and registry while it hashes
(exceptions in between), normalizes and strips paths (collisions), batch by batch. Correct
means: one entry per file under a name of its own, and the process is left as it was.

**Metadata and signing** append to or replace lists of signatures, in files that another
invocation may have open; `verify_signature` looks at the first signature of a key only.
Correct means: exit code 0 tells the truth, and signatures are lost only in a known way.

**Layout editing** has no invariant while it goes on: attributes are plain, validation
happens in constructors and when metadata is read. A `Metablock` holds the layout object
that goes on being edited, and that verification rewrites; an `Envelope` holds a snapshot.
Correct means: a verification uses what was signed, edits do what they say, and the rule
grammar is the documented one.

## Plan

Most important behaviour first, operators shared with proofs before the state machines that
use them. Modules with theorems and all modules they use are free of RECURSIVE operators;
parameters are CONSTANTS with named assumptions.

1. RuleOps, RuleVerdict (abstract), ItemRules, ItemRulesProofs - done
2. ThresholdOps, LinkThresholds, ThresholdPromise (abstract) - done
3. InTotoVerify (uses RuleOps and ThresholdOps) - done
4. StreamCapture - done
5. LinkRecording - done
6. ArtifactRecording, with `in_toto_match_products` - done
7. RuleGrammar, LayoutEditing - done
8. MetadataSigning - done
9. Theorems: ThresholdOpsProofs, LinkThresholdsProofs (with the refinement of
   ThresholdPromise), RunlibProofs (StreamCapture and LinkRecording), InTotoVerifyProofs,
   MetadataSigningProofs, ArtifactRecordingProofs, LayoutEditingProofs - done

Not done: SupplyChain, LinkRecording composed with LinkThresholds on one directory, to show
that what `in_toto_record_stop` leaves is what `load_links_for_layout` counts. Each side is
proved against the other's interface instead: a stop stores a link signed by its own
functionary (`FinishesCorrect`), and links that functionaries dump so are found
(`OverlookedCorrect`, whose premise `HonestPublications` says just that).

## Modules and the code

| module | is | state and actions against the code |
|---|---|---|
| RuleOps | operators | `Verify*Rule`, `DisallowRaises`, `RequireRaises` are the `verify_*_rule` functions, queue in, consumed artifacts out. A glob is the set of paths it matches; a prefix is the function that strips it. `Unsettled`, `RuleHolds`, `ItemHolds` say what a rule means for one artifact, without a queue. |
| ItemRules | state machine | the three nested loops of `verify_all_item_rules` and `verify_item_rules` as indices `item`, `source_type`, `rule`; one action per rule type; `Raise` is RuleVerificationError |
| RuleVerdict | abstract specification | decide once, by the input alone; ItemRules implements it (`VerdictSafety`) |
| ItemRulesProofs | proofs | see below |
| ThresholdOps | operators | layouts, metadata files, ordered dicts, `verify_signature` of both containers, main key of a subkey, the counts |
| ThresholdOpsProofs | lemmas | what these operators keep and bound; used by the next two proof modules |
| LinkThresholds | state machine | the loops of the four functions; a file is read per step, while functionaries open and write link files |
| ThresholdPromise | abstract specification | files are published; then, in one step, a link is accepted that enough main keys back with files published by then, or verification fails; LinkThresholds implements it (`PromiseKept`) |
| LinkThresholdsProofs | proofs | see below |
| InTotoVerify | state machine | a stack of frames, one per call of `in_toto_verify`; `pc` is the phase of the call; `Calls` are the arguments and the files found |
| InTotoVerifyProofs | proofs | see below |
| StreamCapture | state machine | parent (`MakeFiles` and `Start` to `Finally`), child (`Write`, `Exit`), clock |
| LinkRecording | state machine | one `pc` per functionary through the four calls of `runlib`; `dump` is `OpenFile` then `WriteFile`; `Crash` anywhere |
| RunlibProofs | proofs about StreamCapture and LinkRecording | see below |
| ArtifactRecording | state machine | one call of `record_artifacts_as_dict` after the other: `waiting` and `todo` are the indices of the artifacts in `resolver_for_uris` and in the batch at hand; `BeginBatch` to `EndBatch` per resolver, `HashFile`, `HashCommit`, `HashInDirectory`, `HashCustom` per uri or file; `Raise` leaves directory and registry as they are; `Change` is somebody else writing. `OnlyProducts`, `NotInProducts`, `Differ` are the result of `in_toto_match_products` |
| ArtifactRecordingProofs | proofs | see below |
| RuleGrammar | operators | `Unpack` is `unpack_rule`, with its four MATCH formats as a table of positions, `Pack` is `pack_rule`; `InLanguage` is the grammar of the docstring, production by production |
| LayoutEditing | state machine | `layout` is the object in hand, `box` its container, `file` what was dumped. One action per mutator of `Layout`, `Step` and `Inspection`; `WrapIn*`, `CreateSignature`, `Dump`, `Load*`, `GetPayload` of the containers; `VerifyLayout` is `in_toto_verify` up to `substitute_parameters`. `RemoveNamed` is the loop over the list that it removes from, turn by turn |
| LayoutEditingProofs | proofs | see below |
| MetadataSigning | state machine | a process per invocation of `in-toto-sign`: `Start` is `main` up to the loaded document, `SignAndOpen` and `Write` are `_sign_and_dump_metadata`, with the truncation in between, `Verify` is `_verify_metadata`; `Crash`, and `EditPayload` by others |
| MetadataSigningProofs | proofs | see below |
| MC* | instances | constants for TLC |

The two refinements are stated with `INSTANCE ... WITH`: RuleVerdict's `input` and `status`
are those of ItemRules; ThresholdPromise's `published` and `outcome` are what LinkThresholds
has seen published and its `status`, its `evidence` the main keys behind the reduced link.

InTotoVerify joins the parts: it takes rule application from RuleOps as one step (that the
loop in ItemRules decides `ItemHolds` is what `VerdictCorrect` proves), signature checks and
counts from ThresholdOps, and loads a directory in one step, which LinkThresholds refines to
files and concurrent writers. What `execute_link` does inside an inspection is `Commands`
there and StreamCapture here; what it records is ArtifactRecording. That a layout which
verification starts from is what its owner signed, with this call's parameters, is
`UsedAsSigned` of LayoutEditing.

Operators marked `(mutant)` are deliberate mistakes in the definition they precede; nothing
uses them, and `PROJECT.json` names the property each of them breaks.

## Runs

Deadlock is not checked (`CHECK_DEADLOCK FALSE`) anywhere: all of the modelled calls end,
by returning or raising, and the systems stop with them.

**item_rules** (848 272 states). Is the verdict, with queue, blame and trace, what the rules
mean? Two steps; one rule list at a time ranges over lists of two or three rules of every
type, with and without prefixes, matches against another step, the step itself and a step
without a link; the links range over all artifact dicts over two files and two hashes, one
of the files inside a directory that is also a prefix. Whether a rule consumes an artifact
depends on that artifact's path and at most two hashes, so that two of each show every
outcome, and three rules are enough for a rule to be affected by what two earlier ones did.
The theorems lift the bounds.

**link_thresholds** (344 304 states). What may count towards a threshold, and what backs the
link used later? Two main keys, one with a gpg subkey, and a third whose short keyid collides
with the first one's; thresholds 0, 1, 2; link files that are absent, good, good with other
artifacts, signed after a stale signature, signed by someone else or by a subkey, in either
container; up to two files dumped while verification loads, which includes a file torn at
any moment. Two keys and threshold 2 are the smallest case in which one functionary could be
counted twice. `NobodyOverlooked` excludes steps whose functionaries share a short keyid:
they share a file name and only one link can be there. `PromiseKept` is the refinement: a
verdict is given once, and an accepted link has the threshold behind it, by files that had
been published when it was given, in spite of files that were read at different moments.

**in_toto_verify** (83 556 states). What does a pass, or a started command, imply across
delegation? Three levels of layouts, one or both of two functionaries delegating, by main
key or subkey, in either container; expired sublayouts; one or two inspections per layout, which change the files,
fail or time out; with and without a base path, persistent links and parameters; callers with
no key, a second key or an empty one. Three levels show whatever a level takes from the one
below and from the one above. The clock takes one tick, at any moment.

**stream_capture** (59 544 states). Buffer of two characters, up to five unread, so that more
than two buffers can be; timeouts -1, 0, 1 and none, the clock goes beyond each; either
temporary file may fail to be made or to be removed. `FilesRemoved` says what the `finally`
can keep: it does not reach the first file when the second cannot be made (`runlib.py` 226).

**link_recording** (639 494 states). Two functionaries, one of whom has the other's public
key, two steps, three calls in any interleaving, one crash anywhere, the directory changing
once. The shortest way to lose or mix up a recording is a start, a stop that crashes or is
confused, and one more call.

**artifact_recording** (113 136 states). Does a call record every file under one name, and
what does it leave behind? A directory tree of three levels, in which a name occurs at each
level and a directory in one of its own name; lists of up to three uris of up to three
resolvers, some naming a file twice, some missing; base paths, lstrip paths (also clashing
ones), excludes, an unreadable file, one change during a call; any number of calls, with a
user's resolver registered before any of them. Two calls are enough for one to start in what
the other left. `RecordsExactly` states what the docstring promises, and leaves out three kinds of calls
that the run makes too: those during which a file changed; `file:` uris with lstrip paths, of which
the code loses one (scheme_duplicates); and a relative `dir:` uri under a base path, which the
code looks up from the working directory instead (see the findings).

**layout_editing** (125 067 states). Are edits, containers and verification of one object kept
apart? Two start layouts: a step and an inspection with a placeholder each (the smallest in
which substitution stops half way), and two steps, to which an appended third gives every
arrangement of names that a removal while iterating can meet. Two edits at any points between
wrapping, signing, one dump, loading, and any number of verifications with no, too few or
enough parameters. `RemovesNamed` is about names of which no two items stand in a row; that a
removal skips the second of two in a row is what remove_all shows. `GrammarExact` is checked on 9 500 token lists: all 78 forms of rules
with values that look like keywords, and whatever one token changed, missing or added makes of
them. Rules are parsed by themselves from the start only, so that these lists do not multiply
the states.

**metadata_signing** (853 507 states). Can the exit code of in-toto-sign be trusted, and are
signatures kept? Two processes, three invocations out of 17 command lines, one edit of a
payload, a kill at any point. Two invocations are a race, a third one shows what it left;
`SignaturesKept` says that nothing but a replacing run, a kill while writing, or a run that
had loaded the file before loses a signature. Processes that have one file open overwrite
each other from its start; a longer tail of the first one makes the file unreadable.

**stream_loss, dotted_step, scheme_duplicates, remove_all** each check one
sentence of a docstring, comment or help text which the code does not keep; see the findings.

### Fairness

LinkThresholds and InTotoVerify have weak fairness of the verifier's steps: the verifier is
sequential code that nothing blocks. Functionaries and clock have none in these; a command that
an inspection runs is ended by its timeout (`settings.LINK_CMD_EXEC_TIMEOUT`). StreamCapture has weak fairness of the parent and of the
clock; the child may run forever, which is what the timeout is for. LinkRecording has no
fairness and no liveness property: nobody is obliged to stop a recording. ItemRules has none
either: that loops over finite lists end needs no check. ArtifactRecording
has weak fairness of a call once it has begun; LayoutEditing and MetadataSigning have none,
as users and processes may stop at any point, and state safety only.

Termination of InTotoVerify (`Terminates`) rests on a finite directory tree: a call reads a
directory below that of its caller.

## Findings

| run | code | what was found |
|---|---|---|
| stream_loss | `runlib.py` 281 | after the command has ended only one more buffer is read from each stream; the rest is not recorded |
| dotted_step | `runlib.py` 993 | with a gpg key, `in-toto-record stop` of step `foo` finishes and removes the recording of step `foo.bar` |
| scheme_duplicates | `resolver/_resolver.py` 121 | two `file:` uris that left-stripping gives one name are not refused: one of the files is missing from the result |
| remove_all | `models/layout.py` 230 | `remove_step_by_name` and `remove_inspection_by_name` walk over the list they remove from and skip the item behind a removed one: of two of the name in a row one stays, though "all steps identified" are to go. A layout with two of a name does not validate |

Seen while modelling, and not among the runs:

- `persist_inspection_links` of `in_toto_verify` "determines whether or not link metadata files
  for inspection are written to cwd" (`verifylib.py` 1561), but `verify_sublayouts` (1428) does not
  pass it on: a sublayout's inspection links are written anyway. InTotoVerify has this in
  `EnterSublayout` and `persisted`.
- `record_artifacts_as_dict` is to "change to base_path and record artifacts relative from there"
  (`runlib.py` 125, and the help of `--base-path`, `common_args.py` 60), but makes its
  `DirectoryResolver` (184-189) without the base path: a relative `dir:` uri is looked up from
  the working directory. ArtifactRecording does as the code does (`BeginDirectory`);
  `RecordsExactly` states the promise and excludes these calls (`Based`).
- When the second `mkstemp` of `_subprocess_run_duplicate_streams` fails (`runlib.py` 226), the
  first temporary file stays: both are before the `try`. When a removal fails, the exception
  takes the place of the result and the second file stays too (`FilesRemoved`).
- An `Envelope` that is to be verified with a gpg key raises ValueError, since `Key.from_dict`
  does not take such a key (`models/metadata.py` 176). Nothing catches it: a single such
  link ends a verification that other links would have passed (`ValueErrorRaised`).
- `reduce_chain_links` (`verifylib.py` 1303) relies on links having been compared, which
  `verify_threshold_constraints` does for thresholds above 1 only. `PromiseKept` and
  `ThresholdBacksReduced` state what holds instead.
- Inspections of sublayouts run before the step rules of the layout above, unlike the note at
  `verifylib.py` 1636 suggests; `OwnRulesFirst` states what holds.
- A sublayout signed by an authorized gpg subkey ends in FormatError (`verifylib.py` 1410).
- A read that ends within a character raises UnicodeDecodeError out of `execute_link` and
  leaves the command running (`runlib.py` 248); `NoChildLeft` speaks of the documented
  exceptions, `FilesRemoved` of this one too.
- A `Metablock` whose layout has placeholders verifies once: substitution rewrites the object,
  whose signature then no longer matches. `UsedAsSigned` says that this is the worst of it.
- An exception in `record_artifacts_as_dict` leaves the process in the base path or in the
  directory being hashed, and the registry filled; a normal return also removes a resolver
  that the user has registered, so that the next call skips its uris without a word.

## Proofs

All theorems are of the form `Spec => []P` (or `Spec => VerdictSafety`), for every value of
the constants that satisfies the assumptions named in the modules. Two have a premise besides,
which their theorems state (`ShortDistinct` and `NamesRespected`, below).

**ItemRulesProofs**, from `StripAssumption` (stripping a prefix is injective, and a joined
path that is no path is `NoPath`) and `InputsAssumption` (rule lists and links are well
formed, and every item has a link, as loading and inspecting guarantee).

The queue is a set that rules shrink one after the other, while the properties speak of
single artifacts. Lemmas first show for each `Verify*Rule` operator that what it takes out of
a queue is a property of the artifact alone (the match rule is the long one: globbing the
stripped paths and joining the prefixes again must lead back to the artifact). So one step of
the loop keeps "the queue is `Unsettled(rules, rule, ...)`". That alone is not inductive for the
verdict, because the state forgets items that are done; `SoFar` adds that all items and rules
before the one at hand hold, and what a final status says. `IInv == TypeOK /\ QueueIsUnsettled
/\ SoFar` is preserved by every action. From it follow

- `QueueCorrect`, `BlameCorrect`, `TypeCorrect`: conjuncts or direct consequences;
- `TraceCorrect`: the trace is the history of the queue, with an invariant of its own over
  `IInv`;
- `VerdictCorrect`: a step of ItemRules is a step of RuleVerdict or leaves input and status
  alone (refinement, `VerdictSafety`);
- `CustodyCorrect`: a passed MATCH ... DISALLOW pair means that the materials are products of
  the other step, by `ItemHolds` of every item.

**RunlibProofs, StreamCapture**, from `CaptureAssumption` (a positive buffer size; timeouts before
the bound of the clock). `CompleteUpToOneBuffer` speaks of the end of the call and of what was
unread when the child ended. The invariant connects the two: once the child has ended nothing
is written, so what is unread never exceeds `atExit` (`AfterExit`); the parent reads for the
last time only after it has seen the end (`LastReads`); and each of the two last reads leaves
something only of more than one buffer (`ReadProgress`). `Where`, `Children` and `TempFiles`
keep track of which files there are at each place, and of the ways into and out of `finally`. Conclusions: `CaptureComplete`, `ChildGone`,
`FilesGone`, `CaptureTypeCorrect`.

**LinkThresholdsProofs**, from `ThresholdsAssumption` (layouts as their validation leaves
them, whose subkeys belong to one main key each; files hold metadata, are torn or absent) and the lemmas of ThresholdOpsProofs: a dict
lists its keys once each, removing and sorting keeps that, the main key of a verified link is
authorized, and counting main keys over the dict counts different people. The properties
speak of steps that a loop has passed; they are not inductive because the loop goes on over
dicts filled at different moments from files that change. `IInv` adds where the loops are
(`Position`), that whatever is on disk or in a dict has been published for its step
(`Sources`), which dicts there are (`Dicts`), and that links were compared where the threshold
is above one (`Agreement`). Conclusions: `AuthorizedCorrect`, `EnoughCorrect`, `TypeCorrect`,
and `PromiseCorrect`, the refinement: `reduce_chain_links` is the one step that accepts in
ThresholdPromise, with the counted main keys as evidence, and every other step publishes or
stutters. `OverlookedCorrect` has the premise `HonestPublications` (what is dumped meanwhile
to a functionary's file is signed by that functionary); without it a good link may be
overwritten by a worthless one. Its invariant `NobodyInv` says, candidate by candidate, that
a link in place at the start is still on disk or in the dict.

**RunlibProofs, LinkRecording**, from `RecordingAssumption` (finitely many steps and functionaries,
since the count of files found is compared with one; a glob finds its own step; a keyring
holds its owner's key). The properties compare what a stop stores with what a start recorded,
any number of calls and crashes earlier. The invariant says that an unfinished link on disk
is what its functionary recorded at the last start (`StartsOnDisk`), because nobody gets past
`create_signature` with somebody else's link, and for each place in a call where the link in
memory, the unfinished file and the final file agree (`Records`, `Stops`). Conclusions:
`FinishesCorrect`, `RecordingCorrect` (action properties), `TypeCorrect`.

**InTotoVerifyProofs**, from `VerifyAssumption`: layouts are as their validation leaves them, with
subkeys that belong to one main key each, those that
`substitute_parameters` makes included (it changes no name, key or threshold), commands have an
outcome on every state of the files, the caller passes a layout. The state is a stack, and a
property such as `ThresholdBacksReduced` says of one frame what calls that returned long ago
have shown. `Sound` says of a frame what each phase it has passed has established; it holds of
the frames on the stack and of those that have returned (`Past`). `Delegated` ties every frame
to the entry of the frame below for which it was entered, and `Rooted` the first one to the
caller's keys; together they make a started command trusted, by induction along the stack that
the invariant carries. Conclusions: `TrustedCorrect`, `BackedCorrect`, `OwnRulesCorrect`,
`CwdCorrect`, `BasePathCorrect`, `TypeCorrect`.

That every inspection is run once needs a second invariant, `RunInv`, proved on top of the
first. The log tells calls apart by their link directories, so no two verifications may share
one. `Placed` says that the directory of a frame is named by the entries that the frames below
it are at, and `Passed` that the directory of whatever was verified before leaves that path at
an entry its frame has dealt with; since step names of a layout and entries of a dict are
unique, the two never meet. `Counted` and `RanInOrder` count the commands of a frame along.
Conclusion: `EveryInspectionCorrect`, with the premise `ShortDistinct`: the first eight
characters of keyids tell them apart. The code does not enforce it. Where two functionaries'
keyids begin alike, their links and sublayouts share file names; a sublayout that both have
signed is then found and verified, and its inspections are run, once for each of them. The
keyids of MCInTotoVerify fulfil the premise.

**MetadataSigningProofs**, from `SigningAssumption` (link files have names of their own; a key
signs by itself or a subkey; command lines are those that argparse lets through). A run that
has loaded its document is described by `RunOK`: all signatures it holds have been made, by the
keys that the command line names. `KeptOK` and `FreshOK` connect the file, what it has kept
and the runs that have it loaded: a run whose input has not changed since (`fresh`) holds
everything that its file has kept, so that writing it back loses nothing. `ExitOK` says what
an exit code of 0 rests on. Conclusions: `ExitsCorrect`, `KeptCorrect`; and `TypeCorrect`, with
the premise `NamesRespected` (files begin as their names say, and `--output` names no link
file), which the code does not enforce.

**ArtifactRecordingProofs**, from `RecordingAssumption` (what contains a file is a directory,
no path is both, paths below the root do not contain it; what a user's resolver does is in
`HashCustom`). `RecordsExactly` compares the result, built file by file in several batches
from several working directories, with what the arguments say. Lemmas show that a file found
below a directory lies where the recorded path leads from the working directory
(`FoundFile`), that excluding a directory excludes everything below it (`ExcludedBelow`), and
so that `FileResolver` finds what it should (`WantedFiles`). Of the invariant, `Placed` says
which directory the process is in and what it will change back to; `Apart` that batches have
no resolver in common, so that a batch never replaces an entry of another one; `Exact` that what
has been recorded so far is what the finished artifacts, and of the current one the files that
are no longer pending, call for. A name recorded twice needs `KnownValue`: without lstrip
paths it stands for the same file, with them the check for duplicates has raised. Conclusions:
`ExactCorrect`, `PutCorrect`, `MatchCorrect`, `TypeCorrect`.

**LayoutEditingProofs**, from `LayoutAssumption` (what the callers pass is of the types that
the mutators check; keywords and the empty string are strings; no placeholder is a keyword).
There are four arguments.

- *The grammar.* `Readable` says by length and by the word at each position which token lists
  there are. That `Unpack` accepts these is shown format by format (`UnpackCases`); that
  `InLanguage` does, by what each production may leave of a list (`AfterParts`); `RoundTrip` follows
  what `Pack` concatenates, part by part. So `GrammarExact` holds of every token list, of which the
  run enumerates 9 500.
- *Layouts stay readable.* `IInv` gives the containers their exact types and says that every
  layout, in hand, wrapped, signed or stored, has only rules that can be read. A parameter
  replaces placeholders and so no keyword (`SubstituteRule`); an appended rule has been parsed; a
  removal leaves items of the old list. Validation of names and of `expires` is no part of it, as
  edits break both.
- *Substitution.* The items that are rewritten before a KeyError are an initial segment, in which
  every placeholder has a value (`RewritableKnown`), and where this is all of them the object is the
  signed layout with the parameters put in (`SubstituteLayout`). Since the signature was checked
  against the object before, `UsedAsSigned` is inductive together with the types.
- *Removal.* The loop is a recursive function of the turn; that it is defined for every length
  takes a proof (`RestExists`), since TLA+ defines it by CHOOSE. The invariant of the loop (`Met`)
  says that what is ahead has moved by as many places as were removed, so that every item of the
  name was either met or stood right behind one that was (`Removed`): where none stood behind
  another, none is left.

Conclusions: `LayoutTypeCorrect`, `GrammarCorrect`, `SubstitutionCorrect`, and `RemovesCorrect`
(an action property).

In each module the invariant and its parts were checked by TLC on the module's run before
they were proved.

**Only model-checked** are the liveness properties, `Decides` of LinkThresholds, `Terminates`
and `TimeoutHolds`: liveness under fairness is not within reach of
the prover. Every other property of a passing run is stated by a theorem.

## What is abstracted or left out

- Cryptography: a signature is good or it is not, for exactly one key. Key expiration is part
  of that.
- Hashes, file contents and globbing: model values, sets of paths. In LinkRecording what is
  recorded is a version of the directory; ArtifactRecording has exclude patterns and prefixes,
  but neither symbolic links, line endings, backslashes nor `..`.
- Command alignment (`verify_command_alignment`) only logs a warning and changes nothing.
- The pause and the second attempt to remove a temporary file that Windows refuses to remove:
  the two attempts are one.
- `os.path.join` with an absolute path drops the prefix of a MATCH rule (`verifylib.py` 730-751);
  `Join` always puts the prefix in front.
- That a subkey belongs to one main key, and is none itself, is an assumption of the models
  (`SubkeysApart`); a comment of `verify_link_signature_thresholds` states it, no code enforces it.
- A gpg key is told by its subkeys: one without any is treated as an ordinary key where the
  container matters (`NoKey`).
- Where several keys, or several steps, fail at once, InTotoVerify leaves open which of the errors
  is raised: the code reports the first.
- `DirectoryResolver` leaves the collation locale of the process changed (`_resolver.py` 343), and
  `OSTreeResolver` reads a reference and then the commit it names: `HashCommit` is one step.
- Metadata directory arguments: links are written where they are looked for.
- One functionary's calls come one after the other in LinkRecording; with two terminals, a
  start may replace a recording that a stop is about to remove.
- Functionaries in LinkRecording have distinct eight-digit key prefixes in file names.
- Argument checks of the library functions, argument parsing, exit codes, logging.
- LinkThresholds has links only; sublayouts as entries are in InTotoVerify, where a
  directory is not written while it is read.
- LayoutEditing has one owner's key; keys of the layout are added but have no content, and
  the attributes that validation only checks for their type (readme, threshold, pubkeys,
  commands) are left out, as are the getters. An edit that changes nothing is left out too.
- MetadataSigning: a gpg key signs with one fixed (sub)key; which of two JSON texts is longer
  is told by the number of signatures, and left open between the two containers.
- The command line tools other than in-toto-sign are argparse glue around one library call;
  formats, settings and logging have no behaviour of their own; securesystemslib and gpg are
  not part of the repository.
