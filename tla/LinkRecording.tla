---------------------------- MODULE LinkRecording ----------------------------
(***************************************************************************)
(* in_toto_run, in_toto_mock, in_toto_record_start and in_toto_record_stop *)
(* (runlib): functionaries record steps in one working directory, each of  *)
(* them one call after the other, and crash now and then.  dump opens a    *)
(* file, which empties it, and then writes it.                             *)
(*                                                                         *)
(* Artifacts are recorded as the version of the working directory: the     *)
(* materials and the products of a link are versions, so a link shows when *)
(* they were recorded.  Functionaries are their signing keys.  A run       *)
(* without a key stores nothing and is part of InTotoVerify.               *)
(***************************************************************************)
EXTENDS Integers, FiniteSets

CONSTANTS Functionaries,
          Steps,
          Matches,     \* Matches[step]: steps whose unfinished files ".<step>.*" globs
          Keyring,     \* Keyring[f]: functionaries whose public keys f's gpg home holds
          MaxCalls, MaxCrashes, MaxVersion   \* bounds

ASSUME RecordingAssumption ==
  /\ Steps # {} /\ IsFiniteSet(Steps) /\ IsFiniteSet(Functionaries)
  /\ \A s \in Steps : s \in Matches[s] /\ Matches[s] \subseteq Steps
  /\ \A f \in Functionaries : f \in Keyring[f]
  /\ MaxCalls \in Nat /\ MaxCrashes \in Nat /\ MaxVersion \in Nat

Version == 0 .. MaxVersion
None == -1
Link == [name : Steps, by : Functionaries, materials : Version, products : Version \cup {None}]

Absent == [state |-> "absent"]
Torn == [state |-> "torn"]
Holding(link) == [state |-> "link", link |-> link]
Content == {Absent, Torn} \cup {Holding(l) : l \in Link}

\* ".<step>.<keyid>.link-unfinished", "<step>.<keyid>.link", "<step>.link"
File == [kind : {"unfinished", "link"}, step : Steps, key : Functionaries]
          \cup [kind : {"mock"}, step : Steps]
Unfinished(s, f) == [kind |-> "unfinished", step |-> s, key |-> f]
Final(s, f) == [kind |-> "link", step |-> s, key |-> f]
Mock(s) == [kind |-> "mock", step |-> s]

Ops == {"run", "mock", "start", "stop"}
\* How a stop is told its key: signer or signing_key, gpg_keyid, gpg_use_default.
Modes == {"key", "gpg_keyid", "gpg_use_default"}

VARIABLES
  version,   \* of the working directory
  disk,      \* File -> Content
  pc,        \* functionary -> next thing its call does, "idle" between calls
  op, step, mode,   \* functionary -> its call's name and arguments
  found,     \* stop: the unfinished file, a set of at most one
  link,      \* the link under construction
  calls, crashes,
  started    \* history: materials of f's unfinished recording of s, or None

vars == <<version, disk, pc, op, step, mode, found, link, calls, crashes, started>>
arguments == <<op, step, mode>>

NoLink == [name |-> CHOOSE s \in Steps : TRUE, by |-> CHOOSE f \in Functionaries : TRUE,
           materials |-> 0, products |-> None]

Init ==
  /\ version = 0
  /\ disk = [f \in File |-> Absent]
  /\ pc = [f \in Functionaries |-> "idle"]
  /\ op = [f \in Functionaries |-> "run"]
  /\ step = [f \in Functionaries |-> CHOOSE s \in Steps : TRUE]
  /\ mode = [f \in Functionaries |-> "key"]
  /\ found = [f \in Functionaries |-> {}]
  /\ link = [f \in Functionaries |-> NoLink]
  /\ calls = 0 /\ crashes = 0
  /\ started = [f \in Functionaries |-> [s \in Steps |-> None]]

-----------------------------------------------------------------------------
Goes(f, next) == pc' = [pc EXCEPT ![f] = next]

\* A call that is over leaves nothing in memory.
Ends(f) ==
  /\ Goes(f, "idle")
  /\ op' = [op EXCEPT ![f] = "run"] /\ mode' = [mode EXCEPT ![f] = "key"]
  /\ step' = [step EXCEPT ![f] = CHOOSE s \in Steps : TRUE]
  /\ link' = [link EXCEPT ![f] = NoLink] /\ found' = [found EXCEPT ![f] = {}]

Call(f) ==
  /\ pc[f] = "idle" /\ calls < MaxCalls
  /\ calls' = calls + 1
  /\ \E o \in Ops, s \in Steps, m \in Modes :
       /\ m # "key" => o = "stop"
       /\ op' = [op EXCEPT ![f] = o] /\ step' = [step EXCEPT ![f] = s]
       /\ mode' = [mode EXCEPT ![f] = m]
       /\ Goes(f, IF o = "stop" THEN "find" ELSE "materials")
  /\ UNCHANGED <<version, disk, found, link, crashes, started>>

RecordMaterials(f) ==
  /\ pc[f] = "materials"
  /\ link' = [link EXCEPT ![f] = [name |-> step[f], by |-> f, materials |-> version,
                                  products |-> None]]
  /\ Goes(f, IF op[f] = "start" THEN "open" ELSE "command")
  /\ UNCHANGED <<version, disk, arguments, found, calls, crashes, started>>

\* execute_link returns, or raises.
ExecuteLink(f) ==
  /\ pc[f] = "command"
  /\ \/ Goes(f, "products") /\ UNCHANGED <<arguments, found, link>>
     \/ Ends(f)
  /\ UNCHANGED <<version, disk, calls, crashes, started>>

(***************************************************************************)
(* in_toto_record_stop finds, loads and verifies the unfinished link.      *)
(***************************************************************************)
Present(file) == disk[file] # Absent
Globbed(s) == {file \in File : file.kind = "unfinished" /\ file.step \in Matches[s] /\ Present(file)}

\* (mutant) A stop does not insist on exactly one unfinished link.
FindAllUnfinished(f) ==
  /\ pc[f] = "find"
  /\ found' = [found EXCEPT ![f] = IF mode[f] = "key" THEN {Unfinished(step[f], f)}
                                                      ELSE Globbed(step[f])]
  /\ Goes(f, "load")
  /\ UNCHANGED <<version, disk, arguments, link, calls, crashes, started>>

FindUnfinished(f) ==
  /\ pc[f] = "find"
  /\ IF mode[f] = "key"
     THEN found' = [found EXCEPT ![f] = {Unfinished(step[f], f)}]
          /\ Goes(f, "load") /\ UNCHANGED <<arguments, link>>
     ELSE IF Cardinality(Globbed(step[f])) = 1
     THEN found' = [found EXCEPT ![f] = Globbed(step[f])]
          /\ Goes(f, "load") /\ UNCHANGED <<arguments, link>>
     ELSE Ends(f)     \* LinkNotFoundError
  /\ UNCHANGED <<version, disk, calls, crashes, started>>

\* The key that verifies the link: with gpg_use_default, the one its signature names.
VerificationKey(f, signer) == IF mode[f] = "gpg_use_default" THEN signer ELSE f

\* (mutant) The signature of the unfinished link is not looked at.
VerifiesAnything(f, signer) == TRUE

Verifies(f, signer) ==
  LET key == VerificationKey(f, signer) IN key \in Keyring[f] /\ key = signer

LoadUnfinished(f) ==
  /\ pc[f] = "load"
  /\ \E file \in found[f] :
       IF disk[file].state = "link" /\ Verifies(f, disk[file].link.by)
       THEN /\ link' = [link EXCEPT ![f] =
                 [disk[file].link EXCEPT !.by = VerificationKey(f, disk[file].link.by)]]
            /\ Goes(f, "products") /\ UNCHANGED <<arguments, found>>
       ELSE Ends(f)     \* FileNotFoundError, JSONDecodeError, SignatureVerificationError, ...
  /\ UNCHANGED <<version, disk, calls, crashes, started>>

\* create_signature needs the secret key, which f has only of its own.
RecordProducts(f) ==
  /\ pc[f] = "products"
  /\ IF link[f].by = f
     THEN /\ link' = [link EXCEPT ![f].products = version]
          /\ Goes(f, "open") /\ UNCHANGED <<arguments, found>>
     ELSE Ends(f)
  /\ UNCHANGED <<version, disk, calls, crashes, started>>

(***************************************************************************)
(* dump                                                                    *)
(***************************************************************************)
Target(f) == CASE op[f] = "start" -> Unfinished(step[f], f)
               [] op[f] = "mock" -> Mock(step[f])
               [] OTHER -> Final(step[f], link[f].by)

\* A start begins the recording of its step anew.
OpenFile(f) ==
  /\ pc[f] = "open"
  /\ disk' = [disk EXCEPT ![Target(f)] = Torn]
  /\ started' = IF op[f] = "start" THEN [started EXCEPT ![f][step[f]] = None]
                                              ELSE started
  /\ Goes(f, "write")
  /\ UNCHANGED <<version, arguments, found, link, calls, crashes>>

\* (mutant) The unfinished link stays where it is.
AfterDumpDone(f) == "done"

AfterDump(f) == IF op[f] = "stop" THEN "remove" ELSE "done"

WriteFile(f) ==
  /\ pc[f] = "write"
  /\ disk' = [disk EXCEPT ![Target(f)] = Holding(link[f])]
  /\ started' = IF op[f] = "start" THEN [started EXCEPT ![f][step[f]] = link[f].materials]
                                   ELSE started
  /\ Goes(f, AfterDump(f))
  /\ UNCHANGED <<version, arguments, found, link, calls, crashes>>

\* os.remove; another call may have removed the file, and the exception ends this one.
RemoveUnfinished(f) ==
  /\ pc[f] = "remove"
  /\ \E file \in found[f] : disk' = [disk EXCEPT ![file] = Absent]
  /\ Goes(f, "done")
  /\ UNCHANGED <<version, arguments, found, link, calls, crashes, started>>

Done(f) ==
  /\ pc[f] = "done"
  /\ started' = IF op[f] = "stop" THEN [started EXCEPT ![f][step[f]] = None] ELSE started
  /\ Ends(f)
  /\ UNCHANGED <<version, disk, calls, crashes>>

Crash(f) ==
  /\ pc[f] # "idle" /\ crashes < MaxCrashes
  /\ crashes' = crashes + 1
  /\ Ends(f)
  /\ UNCHANGED <<version, disk, calls, started>>

\* Whoever works in the directory, the commands of steps among them.
Work ==
  /\ version < MaxVersion
  /\ version' = version + 1
  /\ UNCHANGED <<disk, pc, arguments, found, link, calls, crashes, started>>

Progress(f) ==
  \/ Call(f) \/ RecordMaterials(f) \/ ExecuteLink(f) \/ FindUnfinished(f)
  \/ LoadUnfinished(f) \/ RecordProducts(f) \/ OpenFile(f) \/ WriteFile(f)
  \/ RemoveUnfinished(f) \/ Done(f)

Next == Work \/ \E f \in Functionaries : Progress(f) \/ Crash(f)

Spec == Init /\ [][Next]_vars

-----------------------------------------------------------------------------
(* Properties *)

TypeOK ==
  /\ version \in Version
  /\ disk \in [File -> Content]
  /\ pc \in [Functionaries -> {"idle", "materials", "command", "find", "load", "products",
                               "open", "write", "remove", "done"}]
  /\ op \in [Functionaries -> Ops] /\ step \in [Functionaries -> Steps]
  /\ mode \in [Functionaries -> Modes]
  /\ found \in [Functionaries -> SUBSET File] /\ link \in [Functionaries -> Link]
  /\ calls \in 0 .. MaxCalls /\ crashes \in 0 .. MaxCrashes
  /\ started \in [Functionaries -> [Steps -> Version \cup {None}]]
  /\ \A f \in Functionaries : pc[f] \in {"load", "remove"} => Cardinality(found[f]) = 1

\* The glob of no other step finds the unfinished files of s, nor that of s another's.
Unambiguous(s) == \A t \in Steps \ {s} : s \notin Matches[t] /\ t \notin Matches[s]

\* f is about to store the link of a stop of s.
Stopping(f, s) == pc[f] = "write" /\ op[f] = "stop" /\ step[f] = s

\* The file that a stop of s by f stores is a link of s, with the materials that f recorded
\* when it last started s, a recording not stopped since: however calls of others, crashes
\* and retries come in between.
StoresOwnStart(f, s) ==
  (Stopping(f, s) /\ disk' # disk /\ disk'[Final(s, f)] # disk[Final(s, f)])
    => /\ started[f][s] # None
       /\ disk'[Final(s, f)].state = "link"
       /\ disk'[Final(s, f)].link.name = s
       /\ disk'[Final(s, f)].link.materials = started[f][s]

FinishesOwnStart ==
  [][\A f \in Functionaries, s \in Steps : Unambiguous(s) => StoresOwnStart(f, s)]_vars

\* The same of every step, as the help text of in-toto-record stop has it: it stops the
\* recording of the step with the passed name.  Steps "foo" and "foo.bar" violate it.
FinishesNamedStep == [][\A f \in Functionaries, s \in Steps : StoresOwnStart(f, s)]_vars

\* An unfinished link goes only for a new start of its own functionary, or once the link
\* file has its materials and its products: a crash at any point leaves one of the two.
RecordingNotLost ==
  [][\A f \in Functionaries, s \in Steps :
       LET file == Unfinished(s, f)
           final == disk[Final(s, f)]
       IN (Unambiguous(s) /\ disk[file].state = "link" /\ disk'[file] # disk[file])
            => \/ op[f] = "start" /\ step[f] = s /\ pc[f] = "open"
               \/ /\ disk'[file] = Absent
                  /\ final.state = "link"
                  /\ final.link.materials = disk[file].link.materials
                  /\ final.link.products # None]_vars

=============================================================================
