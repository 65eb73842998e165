---------------------------- MODULE StreamCapture ----------------------------
(***************************************************************************)
(* execute_link (runlib): a command runs in a child process while the      *)
(* parent polls it, reads its standard streams from two temporary files,   *)
(* and stops it when its time is up (_subprocess_run_duplicate_streams).   *)
(*                                                                         *)
(* Of a file the model keeps how many characters the parent has not read   *)
(* yet and whether the child has so far written only part of the last one. *)
(* Names that LinkRecording has too are prefixed: RunlibProofs uses both.  *)
(***************************************************************************)
EXTENDS Integers

CONSTANTS BufferSize,  \* io.DEFAULT_BUFFER_SIZE, the most one read returns
          Cap,         \* bound on unread characters; a child at it writes on unseen
          Timeouts,    \* values of the timeout argument, NoTimeout among them
          NoTimeout,
          MaxTime      \* bound on the clock, beyond every timeout

Streams == {"out", "err"}

ASSUME CaptureAssumption ==
  /\ BufferSize \in Nat \ {0} /\ Cap \in Nat /\ Cap > BufferSize
  /\ MaxTime \in Nat
  /\ \A t \in Timeouts \ {NoTimeout} : t \in Int /\ t < MaxTime

VARIABLES
  record_streams, timeout,  \* arguments
  at,          \* where the parent is
  last,        \* the child was seen to have ended: the next reads are the last
  child,       \* "none", "running", "exited" or "killed"
  unread,      \* characters in each file the parent has not read
  split,       \* does the file end within a character?
  files,       \* temporary files that exist
  now,         \* time since the child was started
  outcome,     \* "none", "returned" or the exception raised; an OSError of mkstemp
               \* is "TempFileError", one of os.remove "RemovalError"
  atExit       \* history: unread when the child ended

capture_vars ==
  <<record_streams, timeout, at, last, child, unread, split, files, now, outcome, atExit>>
options == <<record_streams, timeout>>
output == <<unread, split>>

CaptureInit ==
  /\ record_streams \in BOOLEAN /\ timeout \in Timeouts
  /\ at = "start" /\ last = FALSE /\ child = "none"
  /\ unread = [s \in Streams |-> 0] /\ split = [s \in Streams |-> FALSE]
  /\ files = {} /\ now = 0 /\ outcome = "none"
  /\ atExit = unread

Ended == at = "end"
TimeIsUp == timeout # NoTimeout /\ now > timeout

\* Return or raise: _subprocess_run_duplicate_streams goes through its finally.
Finish(result) ==
  /\ outcome' = result
  /\ at' = IF record_streams THEN "finally" ELSE "end"

\* mkstemp, before the try: what it raises does not go through finally.
MakeFile(s, next) ==
  /\ \/ files' = files \cup {s} /\ at' = next /\ UNCHANGED outcome
     \/ outcome' = "TempFileError" /\ at' = "end" /\ UNCHANGED files
  /\ UNCHANGED <<options, last, child, output, now, atExit>>

MakeFiles ==
  \/ at = "start" /\ record_streams /\ MakeFile("out", "second file")
  \/ at = "second file" /\ MakeFile("err", "popen")

\* The files are opened and the child is started, or one of these raises OSError.
Start ==
  /\ at = IF record_streams THEN "popen" ELSE "start"
  /\ \/ /\ child' = "running" /\ UNCHANGED outcome
        /\ at' = IF record_streams THEN "poll" ELSE "wait"
     \/ Finish("OSError") /\ UNCHANGED child
  /\ UNCHANGED <<options, last, output, files, now, atExit>>

Poll ==
  /\ at = "poll"
  /\ IF child = "running" THEN at' = "clock" /\ UNCHANGED last
                          ELSE at' = "read out" /\ last' = TRUE
  /\ UNCHANGED <<options, child, output, files, now, outcome, atExit>>

\* (mutant) The child is not killed.
StopLeavingChild ==
  /\ Finish("TimeoutExpired") /\ UNCHANGED <<child, atExit>>

\* proc.kill(), proc.wait(): the child may have ended just before.
Stop ==
  /\ Finish("TimeoutExpired")
  /\ child' = IF child = "running" THEN "killed" ELSE child
  /\ atExit' = IF child = "running" THEN unread ELSE atExit

CheckTime ==
  /\ at = "clock"
  /\ IF TimeIsUp THEN Stop
     ELSE at' = "read out" /\ UNCHANGED <<child, outcome, atExit>>
  /\ UNCHANGED <<options, last, output, files, now>>

\* (mutant) Read until nothing is left to read.
AfterReadUntilEmpty(s, next) == IF unread[s] > BufferSize THEN at ELSE next

AfterRead(s, next) == next

\* (mutant) A read is taken to return a full buffer.
RestFull(n) == n - BufferSize

Rest(n) == IF n > BufferSize THEN n - BufferSize ELSE 0

\* One read of at most BufferSize characters; one that gets to the end of a file
\* which ends within a character fails to decode it.
Read(s, next) ==
  /\ IF split[s] /\ unread[s] < BufferSize
     THEN Finish("UnicodeDecodeError") /\ UNCHANGED unread
     ELSE /\ unread' = [unread EXCEPT ![s] = Rest(@)]
          /\ at' = AfterRead(s, next) /\ UNCHANGED outcome
  /\ UNCHANGED <<options, last, child, split, files, now, atExit>>

\* (mutant) Nothing more is read once the child has ended.
DuplicateStreamsOnce ==
  \/ at = "read out" /\ ~last /\ Read("out", "read err")
  \/ at = "read err" /\ ~last /\ Read("err", "poll")
  \/ /\ at = "read out" /\ last
     /\ Finish("returned")
     /\ UNCHANGED <<options, last, child, output, files, now, atExit>>

DuplicateStreams ==
  \/ at = "read out" /\ Read("out", "read err")
  \/ at = "read err" /\ Read("err", IF last THEN "return" ELSE "poll")

Return ==
  /\ at = "return"
  /\ Finish("returned")
  /\ UNCHANGED <<options, last, child, output, files, now, atExit>>

\* (mutant) Files are removed on return only.
RemainingUnlessReturned(s) == IF outcome = "returned" THEN files \ {s} ELSE files

Remaining(s) == files \ {s}

\* os.remove, retried once after a PermissionError; what the last attempt raises takes
\* the place of what the call was returning or raising.
RemoveFile(s, next) ==
  /\ \/ files' = Remaining(s) /\ at' = next /\ UNCHANGED outcome
     \/ outcome' = "RemovalError" /\ at' = "end" /\ UNCHANGED files
  /\ UNCHANGED <<options, last, child, output, now, atExit>>

Finally ==
  \/ at = "finally" /\ RemoveFile("out", "finally err")
  \/ at = "finally err" /\ RemoveFile("err", "end")

\* Without streams to record: subprocess.run.
SubprocessRun ==
  /\ at = "wait"
  /\ \/ child # "running" /\ Finish("returned") /\ UNCHANGED <<child, atExit>>
     \/ child = "running" /\ TimeIsUp /\ Stop
  /\ UNCHANGED <<options, last, output, files, now>>

Parent ==
  \/ MakeFiles \/ Start \/ Poll \/ CheckTime \/ DuplicateStreams \/ Return \/ Finally \/ SubprocessRun

(***************************************************************************)
(* The child: writes any number of characters, the last perhaps in part,   *)
(* and may exit or run forever.                                            *)
(***************************************************************************)
Write(s) ==
  /\ child = "running" /\ record_streams
  /\ \E n \in unread[s] .. Cap : \E part \in BOOLEAN :
       /\ split[s] /\ ~part => n > unread[s] \/ n = Cap
       /\ unread' = [unread EXCEPT ![s] = n] /\ split' = [split EXCEPT ![s] = part]
  /\ UNCHANGED <<options, at, last, child, files, now, outcome, atExit>>

Exit ==
  /\ child = "running"
  /\ child' = "exited" /\ atExit' = unread
  /\ UNCHANGED <<options, at, last, output, files, now, outcome>>

Tick ==
  /\ child = "running" /\ now < MaxTime
  /\ now' = now + 1
  /\ UNCHANGED <<options, at, last, child, output, files, outcome, atExit>>

CaptureNext ==
  Parent \/ (\E s \in Streams : Write(s)) \/ Exit \/ Tick

\* The parent runs and time passes; nothing is assumed of the child.
CaptureSpec == /\ CaptureInit /\ [][CaptureNext]_capture_vars
               /\ WF_capture_vars(Parent) /\ WF_capture_vars(Tick)

-----------------------------------------------------------------------------
(* Properties *)

CaptureTypeOK ==
  /\ record_streams \in BOOLEAN /\ timeout \in Timeouts
  /\ at \in {"start", "second file", "popen", "poll", "clock", "read out", "read err", "return",
            "wait", "finally", "finally err", "end"}
  /\ last \in BOOLEAN /\ child \in {"none", "running", "exited", "killed"}
  /\ unread \in [Streams -> 0 .. Cap] /\ split \in [Streams -> BOOLEAN]
  /\ files \subseteq Streams /\ now \in 0 .. MaxTime
  /\ outcome \in {"none", "returned", "TempFileError", "OSError", "TimeoutExpired",
                 "UnicodeDecodeError", "RemovalError"}
  /\ atExit \in [Streams -> 0 .. Cap]

\* "Read/write once more to grab everything that the process wrote between our last
\* read in the loop and exiting": so it is unless more than one buffer was left.
CompleteUpToOneBuffer ==
  Ended /\ outcome = "returned" /\ record_streams =>
    \A s \in Streams : unread[s] > 0 => atExit[s] > BufferSize

\* execute_link leaves no child behind when it returns or reports a timeout.  (When
\* output cannot be decoded, it does: the child is neither killed nor waited for.)
NoChildLeft ==
  Ended /\ outcome \in {"returned", "TempFileError", "OSError", "TimeoutExpired"} =>
    child # "running"

\* "The work is done or was interrupted, the temp files can be removed": of a call that
\* got both temporary files, none stays behind when the command cannot be started, ends,
\* runs out of time or writes what cannot be decoded; only where a file cannot be removed
\* it may stay, and with it the one that would be removed next.  (If the second file
\* cannot be made, the first one stays: that is before the try.)
FilesRemoved ==
  Ended =>
    /\ outcome \notin {"TempFileError", "RemovalError"} => files = {}
    /\ outcome = "RemovalError" => files \in {Streams, {"err"}}
    /\ outcome = "TempFileError" => child = "none" /\ "err" \notin files

\* A timeout holds whatever the child does: "reading and writing in reasonably sized
\* chunks prevents us from subverting a timeout, due to being busy for too long or
\* indefinitely".
TimeoutHolds == timeout # NoTimeout => <>Ended

(***************************************************************************)
(* What a comment says and the code does not do.                           *)
(***************************************************************************)

\* The comment quoted above, without the reservation.
GrabsEverything ==
  Ended /\ outcome = "returned" /\ record_streams => \A s \in Streams : unread[s] = 0
=============================================================================
