---------------------------- MODULE RunlibProofs ----------------------------
(***************************************************************************)
(* The proofs about the two processes of runlib: running a command and     *)
(* capturing its streams (StreamCapture), for every buffer size, timeout   *)
(* and clock; and storing the links of steps (LinkRecording), for any      *)
(* steps, functionaries and keyrings, and any number of calls and crashes. *)
(***************************************************************************)
EXTENDS StreamCapture, LinkRecording, FiniteSetTheorems, TLAPS

-----------------------------------------------------------------------------
(* StreamCapture *)

Over == at \in {"finally", "finally err", "end"}

\* What the last read leaves in a file was beyond one buffer when the child ended.
Grabbed(s) == unread[s] > 0 => atExit[s] > BufferSize

(***************************************************************************)
(* The inductive invariant.  The child writes nothing once it has ended,   *)
(* so that unread shrinks from atExit on (AfterExit); the parent knows     *)
(* that the child has ended while it reads for the last time (LastReads);  *)
(* then one read per file settles it (ReadProgress).                       *)
(***************************************************************************)
Where ==
  /\ outcome = "none" <=> ~Over
  /\ at \in {"start", "second file", "popen"} => child = "none"
  /\ child = "none" => at \in {"start", "second file", "popen"} \/ Over
  /\ outcome = "TempFileError" => child = "none"
  /\ at = "wait" => ~record_streams
  /\ ~record_streams => at \in {"start", "wait", "end"}

AfterExit == child \in {"exited", "killed"} => \A s \in Streams : unread[s] <= atExit[s]

LastReads ==
  /\ last => child \in {"exited", "killed"}
  /\ at \in {"poll", "clock"} => ~last
  /\ at = "return" => last

ReadProgress ==
  /\ at = "read err" /\ last => Grabbed("out")
  /\ at = "return" => \A s \in Streams : Grabbed(s)
  /\ Over /\ outcome = "returned" /\ record_streams => \A s \in Streams : Grabbed(s)

Children ==
  Over /\ outcome \in {"returned", "TempFileError", "OSError", "TimeoutExpired"} =>
    child # "running"

\* Inside the try there are both files; the ways out of it lead through finally.
TempFiles ==
  /\ at = "start" \/ ~record_streams => files = {}
  /\ at = "second file" => files = {"out"}
  /\ record_streams /\ at \notin {"start", "second file", "finally err", "end"} =>
       files = Streams
  /\ at = "finally err" => files = {"err"}
  /\ outcome = "TempFileError" => at = "end" /\ "err" \notin files
  /\ outcome = "RemovalError" => at = "end" /\ files \in {Streams, {"err"}}
  /\ at = "end" => files = {} \/ outcome \in {"TempFileError", "RemovalError"}

CaptureInv ==
  CaptureTypeOK /\ Where /\ AfterExit /\ LastReads /\ ReadProgress /\ Children /\ TempFiles

\* The counts are numbers.
LEMMA CaptureNumbers ==
  /\ BufferSize \in Nat /\ Cap \in Nat /\ MaxTime \in Nat /\ 0 \in 0 .. Cap
  /\ \A n \in 0 .. Cap : n \in Nat
BY CaptureAssumption

\* The call starts with no child and no files.
LEMMA InitCaptureInv == CaptureInit => CaptureInv
<1> SUFFICES ASSUME CaptureInit PROVE CaptureInv
  OBVIOUS
<1>1. unread \in [Streams -> 0 .. Cap]
  BY CaptureNumbers DEF CaptureInit
<1>2. split \in [Streams -> BOOLEAN]
  BY Zenon DEF CaptureInit
<1>3. now \in 0 .. MaxTime
  BY CaptureNumbers DEF CaptureInit
<1>4. CaptureTypeOK
  BY <1>1, <1>2, <1>3 DEF CaptureInit, CaptureTypeOK
<1>5. Where /\ AfterExit /\ LastReads /\ ReadProgress /\ Children /\ TempFiles
  BY DEF CaptureInit, Where, AfterExit, LastReads, ReadProgress, Children, TempFiles, Over
<1> QED BY <1>4, <1>5 DEF CaptureInv

\* A read leaves something only of more than one buffer.
LEMMA RestBounds ==
  ASSUME NEW n \in 0 .. Cap
  PROVE  Rest(n) \in 0 .. Cap /\ Rest(n) <= n /\ (Rest(n) > 0 => n > BufferSize)
BY CaptureAssumption DEF Rest

\* Reading leaves less, which was more than a buffer when the child had ended before.
LEMMA ReadBounds ==
  ASSUME NEW ended \in 0 .. Cap, NEW before \in 0 .. Cap, NEW after \in 0 .. Cap,
         before <= ended, after <= before, after > 0 => before > BufferSize
  PROVE  after <= ended /\ (after > 0 => ended > BufferSize)
BY CaptureNumbers

\* Making the files, or failing to.
LEMMA MakeFilesStep == ASSUME CaptureInv, MakeFiles PROVE CaptureInv'
<1>1. PICK s \in Streams, next \in {"second file", "popen"} :
        /\ record_streams /\ MakeFile(s, next)
        /\ \/ at = "start" /\ s = "out" /\ next = "second file" /\ files = {}
           \/ at = "second file" /\ s = "err" /\ next = "popen" /\ files = {"out"}
  BY DEF MakeFiles, Streams, CaptureInv, Where, TempFiles
<1>2. /\ child = "none" /\ outcome = "none"
      /\ UNCHANGED <<record_streams, timeout, last, child, unread, split, now, atExit>>
      /\ \/ files' = files \cup {s} /\ at' = next /\ outcome' = outcome
         \/ outcome' = "TempFileError" /\ at' = "end" /\ files' = files
  BY <1>1 DEF MakeFile, options, output, CaptureInv, Where, Over
<1>3. CaptureTypeOK'
  BY <1>1, <1>2 DEF Streams, CaptureInv, CaptureTypeOK
<1>4. (Where /\ AfterExit /\ LastReads /\ ReadProgress /\ Children)'
  BY <1>1, <1>2 DEF CaptureInv, Where, AfterExit, LastReads, ReadProgress, Children, Over, Grabbed
<1>5. TempFiles'
  BY <1>1, <1>2 DEF Streams, CaptureInv, TempFiles
<1> QED BY <1>3, <1>4, <1>5 DEF CaptureInv

\* Starting the child, or failing to.
LEMMA StartStep == ASSUME CaptureInv, Start PROVE CaptureInv'
<1>1. CaptureTypeOK'
  BY DEF Start, Finish, CaptureInv, CaptureTypeOK, options, output
<1>2. (Where /\ AfterExit /\ LastReads /\ ReadProgress /\ Children)'
  BY DEF Start, Finish, CaptureInv, CaptureTypeOK, Where, AfterExit, LastReads, ReadProgress,
         Children, Over, Grabbed, options, output
<1>3. TempFiles'
  BY DEF Start, Finish, CaptureInv, CaptureTypeOK, Where, TempFiles, Over, options
<1> QED BY <1>1, <1>2, <1>3 DEF CaptureInv

LEMMA PollStep == ASSUME CaptureInv, Poll PROVE CaptureInv'
<1>1. CaptureTypeOK' /\ TempFiles'
  BY DEF Poll, CaptureInv, CaptureTypeOK, Where, TempFiles, Over, options, output
<1>2. (Where /\ AfterExit /\ LastReads /\ ReadProgress /\ Children)'
  BY DEF Poll, CaptureInv, CaptureTypeOK, Where, AfterExit, LastReads, ReadProgress, Children,
         Over, Grabbed, options, output
<1> QED BY <1>1, <1>2 DEF CaptureInv

\* Killing the child makes what is unread all that there is.
LEMMA StopStep ==
  ASSUME CaptureInv, Stop, at \in {"clock", "wait"},
         UNCHANGED <<options, last, output, files, now>>
  PROVE  CaptureInv'
<1>1. CaptureTypeOK'
  BY DEF Stop, Finish, CaptureInv, CaptureTypeOK, options, output
<1>2. AfterExit'
  <2> SUFFICES ASSUME child' \in {"exited", "killed"}, NEW s \in Streams
               PROVE  unread'[s] <= atExit'[s]
    BY DEF AfterExit
  <2>1. unread[s] \in Nat /\ unread' = unread
    BY CaptureNumbers DEF CaptureInv, CaptureTypeOK, output
  <2>2. CASE child = "running"
    <3>1. atExit' = unread
      BY <2>2 DEF Stop
    <3> QED BY <2>1, <3>1
  <2>3. CASE child # "running"
    <3>1. child' = child /\ atExit' = atExit
      BY <2>3 DEF Stop
    <3> QED BY <2>1, <3>1 DEF CaptureInv, AfterExit
  <2> QED BY <2>2, <2>3
<1>3. (Where /\ LastReads /\ ReadProgress /\ Children /\ TempFiles)'
  BY DEF Stop, Finish, CaptureInv, CaptureTypeOK, Where, LastReads, ReadProgress, Children,
         TempFiles, Over, Grabbed, options, output
<1> QED BY <1>1, <1>2, <1>3 DEF CaptureInv

LEMMA CheckTimeStep == ASSUME CaptureInv, CheckTime PROVE CaptureInv'
<1>1. CASE TimeIsUp
  BY <1>1, StopStep DEF CheckTime
<1>2. CASE ~TimeIsUp
  BY <1>2 DEF CheckTime, CaptureInv, CaptureTypeOK, Where, AfterExit, LastReads,
              ReadProgress, Children, TempFiles, Over, Grabbed, options, output
<1> QED BY <1>1, <1>2

\* A read that succeeds: the last one settles its stream.
LEMMA ReadStep == ASSUME CaptureInv, DuplicateStreams PROVE CaptureInv'
<1>1. PICK s \in Streams, next \in {"read err", "return", "poll"} :
        /\ \/ at = "read out" /\ s = "out" /\ next = "read err"
           \/ at = "read err" /\ s = "err" /\ next = (IF last THEN "return" ELSE "poll")
        /\ Read(s, next)
  BY DEF DuplicateStreams, Streams
<1>2. CASE split[s] /\ unread[s] < BufferSize
  <2>1. Finish("UnicodeDecodeError") /\ UNCHANGED <<options, last, child, unread, split,
                                                    files, now, atExit>>
    BY <1>1, <1>2 DEF Read
  <2> QED
    BY <1>1, <2>1 DEF Finish, CaptureInv, CaptureTypeOK, Where, AfterExit, LastReads,
                      ReadProgress, Children, TempFiles, Over, Grabbed, options
<1>3. CASE ~(split[s] /\ unread[s] < BufferSize)
  <2>1. /\ unread' = [unread EXCEPT ![s] = Rest(unread[s])] /\ at' = next
        /\ UNCHANGED <<record_streams, timeout, last, child, split, files, now, atExit, outcome>>
    BY <1>1, <1>3 DEF Read, AfterRead, options
  <2>2. unread \in [Streams -> 0 .. Cap] /\ atExit \in [Streams -> 0 .. Cap]
    BY DEF CaptureInv, CaptureTypeOK
  <2>3. /\ unread' \in [Streams -> 0 .. Cap]
        /\ unread'[s] <= unread[s] /\ (unread'[s] > 0 => unread[s] > BufferSize)
        /\ \A t \in Streams \ {s} : unread'[t] = unread[t]
    BY <2>1, <2>2, RestBounds
  <2>4. CaptureTypeOK'
    BY <1>1, <2>1, <2>3 DEF CaptureInv, CaptureTypeOK
  <2>5. /\ \A u \in Streams : unread[u] \in 0 .. Cap /\ unread'[u] \in 0 .. Cap
                               /\ atExit[u] \in 0 .. Cap
        /\ child' = child /\ atExit' = atExit
    BY <2>1, <2>2, <2>3
  <2>6. AfterExit'
    <3> SUFFICES ASSUME child \in {"exited", "killed"}, NEW t \in Streams
                 PROVE  unread'[t] <= atExit[t]
      BY <2>5 DEF AfterExit
    <3>1. unread[t] <= atExit[t]
      BY DEF CaptureInv, AfterExit
    <3>2. CASE t = s
      BY <2>3, <2>5, <3>1, <3>2, ReadBounds
    <3>3. CASE t # s
      BY <2>3, <3>1, <3>3
    <3> QED BY <3>2, <3>3
  <2>7. (Where /\ LastReads /\ Children /\ TempFiles)'
    BY <1>1, <2>1 DEF CaptureInv, CaptureTypeOK, Where, LastReads, Children, TempFiles, Over
  <2>8. last => Grabbed(s)'
    <3> SUFFICES ASSUME last PROVE unread'[s] > 0 => atExit[s] > BufferSize
      BY <2>5 DEF Grabbed
    <3>1. unread[s] <= atExit[s]
      BY DEF CaptureInv, AfterExit, LastReads
    <3> QED BY <2>3, <2>5, <3>1, ReadBounds
  <2>9. \A t \in Streams \ {s} : Grabbed(t) => Grabbed(t)'
    BY <2>1, <2>3 DEF Grabbed
  <2>10. ReadProgress'
    BY <1>1, <2>1, <2>8, <2>9 DEF CaptureInv, ReadProgress, Over, Streams, LastReads
  <2> QED BY <2>4, <2>6, <2>7, <2>10 DEF CaptureInv
<1> QED BY <1>2, <1>3

LEMMA ReturnStep == ASSUME CaptureInv, Return PROVE CaptureInv'
BY DEF Return, Finish, CaptureInv, CaptureTypeOK, Where, AfterExit, LastReads, ReadProgress,
       Children, TempFiles, Over, Grabbed, options, output

LEMMA FinallyStep == ASSUME CaptureInv, Finally PROVE CaptureInv'
<1>1. PICK s \in Streams, next \in {"finally err", "end"} :
        /\ RemoveFile(s, next)
        /\ \/ at = "finally" /\ s = "out" /\ next = "finally err" /\ files = Streams
           \/ at = "finally err" /\ s = "err" /\ next = "end" /\ files = {"err"}
  BY DEF Finally, Streams, CaptureInv, Where, TempFiles
<1>2. /\ record_streams /\ outcome \notin {"none", "TempFileError", "RemovalError"}
      /\ UNCHANGED <<record_streams, timeout, last, child, unread, split, now, atExit>>
      /\ \/ files' = files \ {s} /\ at' = next /\ outcome' = outcome
         \/ outcome' = "RemovalError" /\ at' = "end" /\ files' = files
  BY <1>1 DEF RemoveFile, Remaining, options, output, CaptureInv, Where, TempFiles, Over
<1>3. CaptureTypeOK'
  BY <1>1, <1>2 DEF CaptureInv, CaptureTypeOK
<1>4. (Where /\ AfterExit /\ LastReads /\ ReadProgress /\ Children)'
  BY <1>1, <1>2 DEF CaptureInv, Where, AfterExit, LastReads, ReadProgress, Children, Over, Grabbed
<1>5. TempFiles'
  BY <1>1, <1>2 DEF Streams, CaptureInv, TempFiles
<1> QED BY <1>3, <1>4, <1>5 DEF CaptureInv

LEMMA SubprocessRunStep == ASSUME CaptureInv, SubprocessRun PROVE CaptureInv'
<1>1. CASE child = "running"
  BY <1>1, StopStep DEF SubprocessRun
<1>2. CASE child # "running"
  BY <1>2 DEF SubprocessRun, Finish, CaptureInv, CaptureTypeOK, Where, AfterExit, LastReads,
              ReadProgress, Children, TempFiles, Over, Grabbed, options, output
<1> QED BY <1>1, <1>2

\* The child writes while it runs: none of it after its end, none before the last reads.
LEMMA WriteStep == ASSUME CaptureInv, NEW s \in Streams, Write(s) PROVE CaptureInv'
<1>1. PICK n \in unread[s] .. Cap : unread' = [unread EXCEPT ![s] = n]
  BY DEF Write
<1>2. unread' \in [Streams -> 0 .. Cap]
  <2>1. unread \in [Streams -> 0 .. Cap]
    BY DEF CaptureInv, CaptureTypeOK
  <2>2. n \in 0 .. Cap
    BY <2>1, CaptureNumbers
  <2> QED BY <1>1, <2>1, <2>2
<1>3. split' \in [Streams -> BOOLEAN]
  BY Zenon DEF Write, CaptureInv, CaptureTypeOK
<1>4. CaptureTypeOK'
  BY <1>2, <1>3 DEF Write, CaptureInv, CaptureTypeOK, options
<1>5. (Where /\ AfterExit /\ LastReads /\ Children /\ TempFiles)'
  BY DEF Write, CaptureInv, Where, AfterExit, LastReads, Children, TempFiles, Over, options
<1>6. ReadProgress'
  BY DEF Write, CaptureInv, Where, LastReads, ReadProgress, Children, Over, options
<1> QED BY <1>4, <1>5, <1>6 DEF CaptureInv

LEMMA ExitStep == ASSUME CaptureInv, Exit PROVE CaptureInv'
<1>1. CaptureTypeOK'
  BY DEF Exit, CaptureInv, CaptureTypeOK, options, output
<1>2. AfterExit'
  <2> SUFFICES ASSUME NEW s \in Streams PROVE unread'[s] <= atExit'[s]
    BY DEF AfterExit
  <2>1. unread[s] \in Nat
    BY CaptureNumbers DEF CaptureInv, CaptureTypeOK
  <2> QED BY <2>1 DEF Exit, output
<1>3. (Where /\ LastReads /\ Children /\ TempFiles)'
  BY DEF Exit, CaptureInv, Where, LastReads, Children, TempFiles, Over, options, output
<1>4. ReadProgress'
  BY DEF Exit, CaptureInv, Where, LastReads, ReadProgress, Children, Over, options, output
<1> QED BY <1>1, <1>2, <1>3, <1>4 DEF CaptureInv

LEMMA TickStep == ASSUME CaptureInv, Tick PROVE CaptureInv'
<1>1. now' \in 0 .. MaxTime
  <2>1. now \in 0 .. MaxTime /\ now < MaxTime /\ now' = now + 1
    BY DEF Tick, CaptureInv, CaptureTypeOK
  <2> QED BY <2>1, CaptureNumbers
<1>2. CaptureTypeOK'
  BY <1>1 DEF Tick, CaptureInv, CaptureTypeOK, options, output
<1>3. (Where /\ AfterExit /\ LastReads /\ ReadProgress /\ Children /\ TempFiles)'
  BY DEF Tick, CaptureInv, Where, AfterExit, LastReads, ReadProgress, Children, TempFiles,
         Over, Grabbed, options, output
<1> QED BY <1>2, <1>3 DEF CaptureInv

\* The inductive invariant holds in every reachable state.
THEOREM CaptureInvariance == CaptureSpec => []CaptureInv
<1>1. CaptureInv /\ [CaptureNext]_capture_vars => CaptureInv'
  <2> SUFFICES ASSUME CaptureInv, [CaptureNext]_capture_vars PROVE CaptureInv'
    OBVIOUS
  <2>1. CASE Parent
    BY <2>1, MakeFilesStep, StartStep, PollStep, CheckTimeStep, ReadStep, ReturnStep,
       FinallyStep, SubprocessRunStep DEF Parent
  <2>2. CASE \E s \in Streams : Write(s)
    BY <2>2, WriteStep
  <2>3. CASE Exit
    BY <2>3, ExitStep
  <2>4. CASE Tick
    BY <2>4, TickStep
  <2>5. CASE UNCHANGED capture_vars
    <3>1. CaptureTypeOK'
      BY <2>5, Zenon DEF capture_vars, CaptureInv, CaptureTypeOK
    <3>2. TempFiles'
      BY <2>5 DEF capture_vars, CaptureInv, TempFiles
    <3>3. (Where /\ AfterExit /\ LastReads /\ ReadProgress /\ Children)'
      BY <2>5 DEF capture_vars, CaptureInv, Where, AfterExit, LastReads, ReadProgress,
                  Children, Over, Grabbed
    <3> QED BY <3>1, <3>2, <3>3 DEF CaptureInv
  <2> QED BY <2>1, <2>2, <2>3, <2>4, <2>5 DEF CaptureNext
<1> QED BY <1>1, InitCaptureInv, PTL DEF CaptureSpec

\* execute_link is type correct.
THEOREM CaptureTypeCorrect == CaptureSpec => []CaptureTypeOK
<1>1. CaptureInv => CaptureTypeOK
  BY DEF CaptureInv
<1> QED BY <1>1, CaptureInvariance, PTL

\* Whatever the sizes and the schedule, output is lost only of a stream that had more than
\* one buffer unread when the command ended.
THEOREM CaptureComplete == CaptureSpec => []CompleteUpToOneBuffer
<1>1. CaptureInv => CompleteUpToOneBuffer
  BY DEF CaptureInv, ReadProgress, Over, Ended, Grabbed, CompleteUpToOneBuffer
<1> QED BY <1>1, CaptureInvariance, PTL

\* No return and no documented exception leaves the command running.
THEOREM ChildGone == CaptureSpec => []NoChildLeft
<1>1. CaptureInv => NoChildLeft
  BY DEF CaptureInv, Children, Over, Ended, NoChildLeft
<1> QED BY <1>1, CaptureInvariance, PTL

\* A call that got both temporary files leaves none behind, however the command ends, unless
\* removing one fails; one that did not get the second has started nothing and leaves at
\* most the first.
THEOREM FilesGone == CaptureSpec => []FilesRemoved
<1>1. CaptureInv => FilesRemoved
  BY DEF CaptureInv, Where, TempFiles, Ended, FilesRemoved
<1> QED BY <1>1, CaptureInvariance, PTL

-----------------------------------------------------------------------------
(* LinkRecording *)

(***************************************************************************)
(* The inductive invariant.  An unfinished link is what its functionary    *)
(* recorded when it started the step last (StartsOnDisk): nobody else      *)
(* writes or removes that file, because a call gets past create_signature  *)
(* with a link of its own only (Records, Stops).  The rest says where in a *)
(* call the file, the link in memory and the link file agree.              *)
(***************************************************************************)
StartsOnDisk ==
  \A f \in Functionaries, s \in Steps :
    LET content == disk[Unfinished(s, f)]
    IN  content.state = "link" =>
          /\ content.link.name = s /\ content.link.by = f /\ content.link.products = None
          /\ Unambiguous(s) => content.link.materials = started[f][s]

\* in_toto_run, in_toto_mock and in_toto_record_start
Records(f) ==
  /\ pc[f] \in {"idle", "materials", "command", "products", "open", "write", "done"}
  /\ pc[f] \in {"command", "products", "open", "write"} =>
       link[f].name = step[f] /\ link[f].by = f
  /\ op[f] = "start" =>
       /\ pc[f] \in {"materials", "open", "write", "done"}
       /\ pc[f] \in {"open", "write"} => link[f].products = None
       /\ pc[f] = "write" => disk[Unfinished(step[f], f)] = Torn

\* in_toto_record_stop
Stops(f) ==
  /\ pc[f] \in {"find", "load", "products", "open", "write", "remove", "done"}
  /\ pc[f] # "find" =>
       \E s \in Matches[step[f]], g \in Functionaries : found[f] = {Unfinished(s, g)}
  /\ pc[f] \in {"products", "open", "write", "remove", "done"} =>
       /\ found[f] = {Unfinished(link[f].name, link[f].by)}
       /\ link[f].by = f /\ Unambiguous(link[f].name) =>
            link[f].materials = started[f][link[f].name]
  /\ pc[f] \in {"open", "write", "remove", "done"} =>
       link[f].by = f /\ link[f].products # None
  /\ pc[f] = "remove" => disk[Final(step[f], f)] = Holding(link[f])
  /\ pc[f] = "done" => disk[Unfinished(link[f].name, f)] = Absent

CallOK(f) == IF op[f] = "stop" THEN Stops(f) ELSE Records(f)

IInv == TypeOK /\ StartsOnDisk /\ \A f \in Functionaries : CallOK(f)

-----------------------------------------------------------------------------
(* Files, contents and calls *)

LEMMA Files ==
  ASSUME NEW f \in Functionaries, NEW s \in Steps
  PROVE  /\ Unfinished(s, f) \in File /\ Final(s, f) \in File /\ Mock(s) \in File
         /\ \A g \in Functionaries, t \in Steps :
              /\ Unfinished(s, f) = Unfinished(t, g) => s = t /\ f = g
              /\ Final(s, f) = Final(t, g) => s = t /\ f = g
              /\ Unfinished(s, f) # Final(t, g) /\ Unfinished(s, f) # Mock(t)
              /\ Final(s, f) # Mock(t)
BY DEF File, Unfinished, Final, Mock

LEMMA Contents ==
  /\ Absent \in Content /\ Torn \in Content
  /\ Absent.state = "absent" /\ Torn.state = "torn"
  /\ \A l : Holding(l).state = "link" /\ Holding(l).link = l
  /\ \A l \in Link : Holding(l) \in Content
  /\ \A c \in Content : c.state = "link" => c.link \in Link
<1>1. /\ Absent.state = "absent" /\ Torn.state = "torn"
      /\ \A l : Holding(l).state = "link" /\ Holding(l).link = l
  BY DEF Absent, Torn, Holding
<1>2. \A c \in Content : c.state = "link" => \E l \in Link : c = Holding(l)
  BY <1>1 DEF Content
<1> QED BY <1>1, <1>2 DEF Content

LEMMA NoLinkType == Functionaries # {} => NoLink \in Link
BY RecordingAssumption DEF NoLink, Link, Version

\* Where unambiguous, the glob of a step is about this step.
LEMMA Unglobbed ==
  ASSUME NEW s \in Steps, NEW t \in Matches[s], Unambiguous(s) \/ Unambiguous(t)
  PROVE  t \in Steps /\ t = s
BY RecordingAssumption DEF Unambiguous

\* A directory holds finitely many unfinished links: "exactly one" is a file.
LEMMA GlobbedOne ==
  ASSUME NEW s \in Steps, Cardinality(Globbed(s)) = 1
  PROVE  \E t \in Matches[s], g \in Functionaries : Globbed(s) = {Unfinished(t, g)}
<1> DEFINE all == {file \in File : file.kind = "unfinished"}
           h == [x \in Steps \X Functionaries |-> Unfinished(x[1], x[2])]
<1>1. h \in Surjection(Steps \X Functionaries, all)
  <2>1. \A file \in all : \E x \in Steps \X Functionaries : file = Unfinished(x[1], x[2])
    <3> SUFFICES ASSUME NEW file \in all
                 PROVE  \E x \in Steps \X Functionaries : file = Unfinished(x[1], x[2])
      OBVIOUS
    <3>1. file \in [kind : {"unfinished", "link"}, step : Steps, key : Functionaries]
      BY DEF File
    <3>2. file = Unfinished(file.step, file.key)
      BY <3>1 DEF Unfinished
    <3>3. <<file.step, file.key>> \in Steps \X Functionaries
      BY <3>1
    <3> QED BY <3>2, <3>3
  <2>2. \A x \in Steps \X Functionaries : Unfinished(x[1], x[2]) \in all
    BY DEF File, Unfinished
  <2> QED BY <2>1, <2>2 DEF Surjection
<1>2. IsFiniteSet(Steps \X Functionaries)
  BY RecordingAssumption, FS_Product
<1>3. IsFiniteSet(all)
  BY <1>1, <1>2, FS_Surjection
<1>4. Globbed(s) \in SUBSET all
  BY DEF Globbed
<1>5. PICK file : Globbed(s) = {file}
  BY <1>3, <1>4, FS_Subset, FS_Singleton
<1>6. file \in File /\ file.kind = "unfinished" /\ file.step \in Matches[s]
  BY <1>5 DEF Globbed
<1>7. file.key \in Functionaries /\ file = Unfinished(file.step, file.key)
  BY <1>6 DEF File, Unfinished
<1> QED BY <1>5, <1>6, <1>7

\* What a call does leaves the calls of others alone.
LEMMA OthersOK ==
  ASSUME TypeOK, NEW g \in Functionaries, CallOK(g),
         pc'[g] = pc[g], op'[g] = op[g], step'[g] = step[g], link'[g] = link[g],
         found'[g] = found[g], started'[g] = started[g],
         \A s \in Steps : /\ disk'[Unfinished(s, g)] = disk[Unfinished(s, g)]
                          /\ disk'[Final(s, g)] = disk[Final(s, g)]
  PROVE  CallOK(g)'
<1>1. step[g] \in Steps /\ link[g].name \in Steps
  BY DEF TypeOK, Link
<1> QED BY <1>1 DEF CallOK, Stops, Records, Unambiguous

LEMMA OneFound ==
  ASSUME NEW f \in Functionaries, CallOK(f), pc[f] \in {"load", "remove"}
  PROVE  Cardinality(found[f]) = 1
BY FS_Singleton DEF CallOK, Stops, Records

-----------------------------------------------------------------------------
(* The invariant holds initially and is kept by every step. *)

LEMMA InitIInv == Init => IInv
<1> SUFFICES ASSUME Init PROVE IInv
  OBVIOUS
<1>1. TypeOK
  <2>1. (CHOOSE s \in Steps : TRUE) \in Steps
    BY RecordingAssumption
  <2>2. link \in [Functionaries -> Link]
    BY NoLinkType DEF Init
  <2>3. disk \in [File -> Content]
    BY Contents DEF Init
  <2> QED BY <2>1, <2>2, <2>3, RecordingAssumption
          DEF Init, TypeOK, Version, Ops, Modes
<1>2. StartsOnDisk
  BY Files, Contents DEF Init, StartsOnDisk
<1>3. \A f \in Functionaries : CallOK(f)
  BY DEF Init, CallOK, Records
<1> QED BY <1>1, <1>2, <1>3 DEF IInv

\* f's call goes on, and changes neither a file nor what f has started.
LEMMA InMemory ==
  ASSUME IInv, NEW f \in Functionaries, UNCHANGED <<disk, started>>, TypeOK', CallOK(f)',
         \A g \in Functionaries \ {f} :
           /\ pc'[g] = pc[g] /\ op'[g] = op[g] /\ step'[g] = step[g]
           /\ link'[g] = link[g] /\ found'[g] = found[g]
  PROVE  IInv'
<1>1. \A g \in Functionaries \ {f} : CallOK(g)'
  BY OthersOK DEF IInv
<1>2. StartsOnDisk'
  BY DEF IInv, StartsOnDisk, Unambiguous
<1> QED BY <1>1, <1>2 DEF IInv

\* A call that returns or raises, or a process that is killed.
LEMMA EndsStep ==
  ASSUME IInv, NEW f \in Functionaries, Ends(f), UNCHANGED <<version, disk, calls, started>>,
         crashes' \in 0 .. MaxCrashes
  PROVE  IInv'
<1>1. (CHOOSE s \in Steps : TRUE) \in Steps /\ NoLink \in Link
  BY RecordingAssumption, NoLinkType
<1>2. CallOK(f)' /\ pc'[f] = "idle"
  BY DEF Ends, Goes, CallOK, Records, IInv, TypeOK
<1>3. TypeOK'
  BY <1>1, <1>2 DEF Ends, Goes, IInv, TypeOK, Ops, Modes
<1> QED BY <1>2, <1>3, InMemory DEF Ends, Goes

LEMMA CallStep == ASSUME IInv, NEW f \in Functionaries, Call(f) PROVE IInv'
<1>1. PICK o \in Ops, s \in Steps, m \in Modes :
        /\ op' = [op EXCEPT ![f] = o] /\ step' = [step EXCEPT ![f] = s]
        /\ mode' = [mode EXCEPT ![f] = m]
        /\ pc' = [pc EXCEPT ![f] = IF o = "stop" THEN "find" ELSE "materials"]
  BY DEF Call, Goes
<1>2. /\ calls' = calls + 1 /\ calls < MaxCalls
      /\ UNCHANGED <<version, disk, found, link, crashes, started>>
  BY DEF Call
<1>3. TypeOK'
  BY <1>1, <1>2, RecordingAssumption DEF IInv, TypeOK
<1>4. CallOK(f)'
  BY <1>1 DEF IInv, TypeOK, CallOK, Stops, Records
<1> QED BY <1>1, <1>2, <1>3, <1>4, InMemory

LEMMA RecordMaterialsStep ==
  ASSUME IInv, NEW f \in Functionaries, RecordMaterials(f) PROVE IInv'
<1> DEFINE new == [name |-> step[f], by |-> f, materials |-> version, products |-> None]
<1>1. /\ pc[f] = "materials" /\ link' = [link EXCEPT ![f] = new]
      /\ pc' = [pc EXCEPT ![f] = IF op[f] = "start" THEN "open" ELSE "command"]
      /\ UNCHANGED <<version, disk, op, step, mode, found, calls, crashes, started>>
  BY DEF RecordMaterials, Goes, arguments
<1>2. new \in Link
  BY DEF IInv, TypeOK, Link
<1>3. TypeOK'
  BY <1>1, <1>2 DEF IInv, TypeOK
<1>4. CallOK(f)'
  <2>1. op[f] # "stop"
    BY <1>1 DEF IInv, CallOK, Stops
  <2>2. link'[f] = new /\ pc'[f] \in {"open", "command"} /\ (op[f] = "start" => pc'[f] = "open")
    BY <1>1 DEF IInv, TypeOK
  <2> QED BY <1>1, <2>1, <2>2 DEF CallOK, Records
<1> QED BY <1>1, <1>3, <1>4, InMemory

LEMMA ExecuteLinkStep ==
  ASSUME IInv, NEW f \in Functionaries, ExecuteLink(f) PROVE IInv'
<1>1. /\ pc[f] = "command"
      /\ UNCHANGED <<version, disk, calls, crashes, started>>
  BY DEF ExecuteLink
<1>2. CASE Ends(f)
  BY <1>1, <1>2, EndsStep DEF IInv, TypeOK
<1>3. CASE Goes(f, "products") /\ UNCHANGED <<op, step, mode, found, link>>
  <2>1. TypeOK'
    BY <1>1, <1>3 DEF Goes, IInv, TypeOK
  <2>2. CallOK(f)'
    <3>1. op[f] # "stop" /\ Records(f) /\ pc'[f] = "products"
      BY <1>1, <1>3 DEF IInv, CallOK, Stops, Goes, TypeOK
    <3> QED BY <1>1, <1>3, <3>1 DEF CallOK, Records
  <2> QED BY <1>1, <1>3, <2>1, <2>2, InMemory DEF Goes
<1> QED BY <1>2, <1>3 DEF ExecuteLink, arguments

LEMMA FindUnfinishedStep ==
  ASSUME IInv, NEW f \in Functionaries, FindUnfinished(f) PROVE IInv'
<1>1. pc[f] = "find" /\ UNCHANGED <<version, disk, calls, crashes, started>>
  BY DEF FindUnfinished
<1>2. CASE Ends(f)
  BY <1>1, <1>2, EndsStep DEF IInv, TypeOK
<1>3. ASSUME NEW matches, found' = [found EXCEPT ![f] = matches], Goes(f, "load"),
             UNCHANGED <<op, step, mode, link>>,
             \E s \in Matches[step[f]], g \in Functionaries : matches = {Unfinished(s, g)}
      PROVE  IInv'
  <2>1. found'[f] = matches /\ pc'[f] = "load" /\ step[f] \in Steps
    BY <1>3 DEF Goes, IInv, TypeOK
  <2>2. matches \subseteq File /\ Cardinality(matches) = 1
    <3>1. PICK s \in Matches[step[f]], g \in Functionaries : matches = {Unfinished(s, g)}
      BY <1>3
    <3>2. Unfinished(s, g) \in File
      BY <2>1, RecordingAssumption, Files
    <3> QED BY <3>1, <3>2, FS_Singleton
  <2>3. TypeOK'
    BY <1>1, <1>3, <2>1, <2>2 DEF Goes, IInv, TypeOK
  <2>4. CallOK(f)'
    <3>1. op[f] = "stop"
      BY <1>1 DEF IInv, CallOK, Records
    <3> QED BY <1>3, <2>1, <3>1 DEF CallOK, Stops
  <2> QED BY <1>1, <1>3, <2>3, <2>4, InMemory DEF Goes
<1>4. step[f] \in Steps /\ step[f] \in Matches[step[f]]
  BY RecordingAssumption DEF IInv, TypeOK
<1>5. CASE mode[f] = "key"
  <2>1. /\ found' = [found EXCEPT ![f] = {Unfinished(step[f], f)}]
        /\ Goes(f, "load") /\ UNCHANGED <<op, step, mode, link>>
    BY <1>5 DEF FindUnfinished, arguments
  <2>2. \E s \in Matches[step[f]], g \in Functionaries :
          {Unfinished(step[f], f)} = {Unfinished(s, g)}
    BY <1>4
  <2> QED BY <1>3, <2>1, <2>2
<1>6. CASE mode[f] # "key" /\ Cardinality(Globbed(step[f])) = 1
  <2>1. /\ found' = [found EXCEPT ![f] = Globbed(step[f])]
        /\ Goes(f, "load") /\ UNCHANGED <<op, step, mode, link>>
    BY <1>6 DEF FindUnfinished, arguments
  <2> QED BY <1>3, <1>4, <1>6, <2>1, GlobbedOne
<1> QED BY <1>2, <1>5, <1>6 DEF FindUnfinished

LEMMA LoadUnfinishedStep ==
  ASSUME IInv, NEW f \in Functionaries, LoadUnfinished(f) PROVE IInv'
<1>1. pc[f] = "load" /\ UNCHANGED <<version, disk, calls, crashes, started>>
  BY DEF LoadUnfinished
<1>2. op[f] = "stop" /\ Stops(f) /\ step[f] \in Steps
  BY <1>1 DEF IInv, CallOK, Records, TypeOK
<1>3. PICK s \in Matches[step[f]], g \in Functionaries : found[f] = {Unfinished(s, g)}
  BY <1>1, <1>2 DEF Stops
<1> DEFINE file == Unfinished(s, g)
           old == disk[file].link
<1>4. CASE Ends(f)
  BY <1>1, <1>4, EndsStep DEF IInv, TypeOK
<1>5. CASE ~ Ends(f)
  <2>1. /\ disk[file].state = "link" /\ Verifies(f, old.by)
        /\ link' = [link EXCEPT ![f] = [old EXCEPT !.by = VerificationKey(f, old.by)]]
        /\ pc' = [pc EXCEPT ![f] = "products"] /\ UNCHANGED <<op, step, mode, found>>
    BY <1>3, <1>5 DEF LoadUnfinished, Goes, arguments
  <2>2. s \in Steps /\ file \in File
    BY <1>2, RecordingAssumption, Files
  <2>3. old \in Link
    BY <2>1, <2>2, Contents DEF IInv, TypeOK
  <2>4. /\ old.name = s /\ old.by = g
        /\ Unambiguous(s) => old.materials = started[g][s]
    BY <2>1, <2>2 DEF IInv, StartsOnDisk
  <2>5. link'[f] = old
    <3>1. VerificationKey(f, old.by) = old.by
      BY <2>1 DEF Verifies
    <3>2. [old EXCEPT !.by = old.by] = old
      BY <2>3 DEF Link
    <3> QED BY <2>1, <3>1, <3>2 DEF IInv, TypeOK
  <2>6. TypeOK'
    BY <1>1, <2>1, <2>3, <2>5 DEF IInv, TypeOK
  <2>7. CallOK(f)'
    <3>1. pc'[f] = "products" /\ op'[f] = "stop" /\ found'[f] = {file}
      BY <1>2, <1>3, <2>1 DEF IInv, TypeOK
    <3> QED BY <1>1, <1>3, <2>1, <2>4, <2>5, <3>1 DEF CallOK, Stops, Unambiguous
  <2> QED BY <1>1, <2>1, <2>6, <2>7, InMemory
<1> QED BY <1>4, <1>5

LEMMA RecordProductsStep ==
  ASSUME IInv, NEW f \in Functionaries, RecordProducts(f) PROVE IInv'
<1>1. pc[f] = "products" /\ UNCHANGED <<version, disk, calls, crashes, started>>
  BY DEF RecordProducts
<1>2. CASE link[f].by # f
  <2>1. Ends(f)
    BY <1>2 DEF RecordProducts
  <2> QED BY <1>1, <2>1, EndsStep DEF IInv, TypeOK
<1>3. CASE link[f].by = f
  <2>1. /\ link' = [link EXCEPT ![f].products = version]
        /\ pc' = [pc EXCEPT ![f] = "open"] /\ UNCHANGED <<op, step, mode, found>>
    BY <1>3 DEF RecordProducts, Goes, arguments
  <2>2. link[f] \in Link /\ version \in Version
    BY DEF IInv, TypeOK
  <2>3. /\ link'[f] \in Link /\ link'[f].name = link[f].name /\ link'[f].by = link[f].by
        /\ link'[f].materials = link[f].materials /\ link'[f].products = version
    BY <2>1, <2>2 DEF Link, IInv, TypeOK
  <2>4. version # None
    BY <2>2 DEF Version, None
  <2>5. TypeOK'
    BY <1>1, <2>1, <2>3 DEF IInv, TypeOK
  <2>6. CallOK(f)'
    <3>1. pc'[f] = "open"
      BY <2>1 DEF IInv, TypeOK
    <3>2. CASE op[f] = "stop"
      BY <1>1, <1>3, <2>1, <2>3, <2>4, <3>1, <3>2 DEF IInv, CallOK, Stops, Unambiguous
    <3>3. CASE op[f] # "stop"
      BY <1>1, <1>3, <2>1, <2>3, <3>1, <3>3 DEF IInv, CallOK, Records
    <3> QED BY <3>2, <3>3
  <2> QED BY <1>1, <2>1, <2>5, <2>6, InMemory
<1> QED BY <1>2, <1>3

\* A call dumps to a file of its own functionary, or to a mock link.
LEMMA TargetFacts ==
  ASSUME IInv, NEW f \in Functionaries, pc[f] \in {"open", "write"}
  PROVE  /\ step[f] \in Steps /\ Target(f) \in File
         /\ IF op[f] = "start" THEN Target(f) = Unfinished(step[f], f)
            ELSE IF op[f] = "mock" THEN Target(f) = Mock(step[f])
            ELSE Target(f) = Final(step[f], f)
         /\ op[f] # "start" => \A g \in Functionaries, s \in Steps : Target(f) # Unfinished(s, g)
         /\ \A g \in Functionaries \ {f}, s \in Steps :
              Target(f) # Unfinished(s, g) /\ Target(f) # Final(s, g)
<1>1. step[f] \in Steps /\ link[f].by = f
  BY DEF IInv, TypeOK, CallOK, Stops, Records
<1>2. IF op[f] = "start" THEN Target(f) = Unfinished(step[f], f)
      ELSE IF op[f] = "mock" THEN Target(f) = Mock(step[f])
      ELSE Target(f) = Final(step[f], f)
  BY <1>1 DEF Target
<1> QED BY <1>1, <1>2, Files

\* f writes or removes a file of its own: what others have on disk, and their calls, stay.
LEMMA OnDisk ==
  ASSUME IInv, NEW f \in Functionaries, TypeOK', CallOK(f)',
         \A s \in Steps : LET content == disk'[Unfinished(s, f)]
                          IN  content.state = "link" =>
                                /\ content.link.name = s /\ content.link.by = f
                                /\ content.link.products = None
                                /\ Unambiguous(s) => content.link.materials = started'[f][s],
         \A g \in Functionaries \ {f} :
           /\ pc'[g] = pc[g] /\ op'[g] = op[g] /\ step'[g] = step[g]
           /\ link'[g] = link[g] /\ found'[g] = found[g] /\ started'[g] = started[g]
           /\ \A s \in Steps : /\ disk'[Unfinished(s, g)] = disk[Unfinished(s, g)]
                               /\ disk'[Final(s, g)] = disk[Final(s, g)]
  PROVE  IInv'
<1>1. \A g \in Functionaries \ {f} : CallOK(g)'
  BY OthersOK DEF IInv
<1>2. StartsOnDisk'
  BY DEF IInv, StartsOnDisk, Unambiguous
<1> QED BY <1>1, <1>2 DEF IInv

LEMMA OpenFileStep ==
  ASSUME IInv, NEW f \in Functionaries, OpenFile(f) PROVE IInv'
<1>1. /\ pc[f] = "open" /\ disk' = [disk EXCEPT ![Target(f)] = Torn]
      /\ started' = IF op[f] = "start" THEN [started EXCEPT ![f][step[f]] = None] ELSE started
      /\ pc' = [pc EXCEPT ![f] = "write"]
      /\ UNCHANGED <<version, op, step, mode, found, link, calls, crashes>>
  BY DEF OpenFile, Goes, arguments
<1>2. TypeOK'
  BY <1>1, TargetFacts, Contents DEF IInv, TypeOK
<1>3. /\ \A file \in File : file # Target(f) => disk'[file] = disk[file]
      /\ disk'[Target(f)] = Torn /\ pc'[f] = "write"
  BY <1>1, TargetFacts DEF IInv, TypeOK
<1>4. CallOK(f)'
  <2>1. CASE op[f] = "stop"
    BY <1>1, <1>3, <2>1 DEF IInv, CallOK, Stops, Unambiguous
  <2>2. CASE op[f] # "stop"
    BY <1>1, <1>3, <2>2, TargetFacts DEF IInv, CallOK, Records
  <2> QED BY <2>1, <2>2
<1>5. ASSUME NEW s \in Steps, disk'[Unfinished(s, f)].state = "link"
      PROVE  disk'[Unfinished(s, f)] = disk[Unfinished(s, f)] /\ started'[f][s] = started[f][s]
  <2>1. Unfinished(s, f) # Target(f)
    BY <1>3, <1>5, Contents
  <2>2. op[f] = "start" => s # step[f]
    BY <1>1, <2>1, TargetFacts
  <2> QED BY <1>1, <1>3, <2>1, <2>2, Files DEF IInv, TypeOK
<1>6. \A g \in Functionaries \ {f}, s \in Steps :
        /\ disk'[Unfinished(s, g)] = disk[Unfinished(s, g)]
        /\ disk'[Final(s, g)] = disk[Final(s, g)]
  BY <1>1, <1>3, TargetFacts, Files
<1>7. \A g \in Functionaries \ {f} : started'[g] = started[g] /\ pc'[g] = pc[g]
  BY <1>1 DEF IInv, TypeOK
<1> QED BY <1>1, <1>2, <1>4, <1>5, <1>6, <1>7, OnDisk DEF IInv, StartsOnDisk

LEMMA WriteFileStep ==
  ASSUME IInv, NEW f \in Functionaries, WriteFile(f) PROVE IInv'
<1>1. /\ pc[f] = "write" /\ disk' = [disk EXCEPT ![Target(f)] = Holding(link[f])]
      /\ started' = IF op[f] = "start" THEN [started EXCEPT ![f][step[f]] = link[f].materials]
                                       ELSE started
      /\ pc' = [pc EXCEPT ![f] = IF op[f] = "stop" THEN "remove" ELSE "done"]
      /\ UNCHANGED <<version, op, step, mode, found, link, calls, crashes>>
  BY DEF WriteFile, Goes, arguments, AfterDump
<1>2. link[f] \in Link /\ link[f].materials \in Version
  BY DEF IInv, TypeOK, Link
<1>3. TypeOK'
  <2>1. op[f] = "stop" => Cardinality(found[f]) = 1
    BY <1>1, FS_Singleton DEF IInv, CallOK, Stops
  <2> QED BY <1>1, <1>2, <2>1, TargetFacts, Contents DEF IInv, TypeOK
<1>4. /\ \A file \in File : file # Target(f) => disk'[file] = disk[file]
      /\ disk'[Target(f)] = Holding(link[f])
      /\ pc'[f] = IF op[f] = "stop" THEN "remove" ELSE "done"
  BY <1>1, TargetFacts DEF IInv, TypeOK
<1>5. CallOK(f)'
  <2>1. CASE op[f] = "stop"
    <3>1. disk'[Final(step[f], f)] = Holding(link[f])
      BY <1>1, <1>4, <2>1, TargetFacts
    <3> QED BY <1>1, <1>4, <2>1, <3>1 DEF IInv, CallOK, Stops, Unambiguous
  <2>2. CASE op[f] # "stop"
    BY <1>1, <1>4, <2>2 DEF IInv, CallOK, Records
  <2> QED BY <2>1, <2>2
<1>6. ASSUME NEW s \in Steps, disk'[Unfinished(s, f)].state = "link"
      PROVE  LET content == disk'[Unfinished(s, f)]
             IN  /\ content.link.name = s /\ content.link.by = f
                 /\ content.link.products = None
                 /\ Unambiguous(s) => content.link.materials = started'[f][s]
  <2>1. CASE op[f] = "start" /\ s = step[f]
    <3>1. disk'[Unfinished(s, f)].link = link[f]
      BY <1>1, <1>4, <2>1, TargetFacts, Contents
    <3>2. link[f].name = s /\ link[f].by = f /\ link[f].products = None
      BY <1>1, <2>1 DEF IInv, CallOK, Records
    <3>3. started'[f][s] = link[f].materials
      BY <1>1, <2>1 DEF IInv, TypeOK
    <3> QED BY <3>1, <3>2, <3>3
  <2>2. CASE ~ (op[f] = "start" /\ s = step[f])
    <3>1. Unfinished(s, f) # Target(f)
      BY <1>1, <2>2, TargetFacts, Files
    <3>2. disk'[Unfinished(s, f)] = disk[Unfinished(s, f)] /\ started'[f][s] = started[f][s]
      BY <1>1, <1>4, <2>2, <3>1, Files DEF IInv, TypeOK
    <3> QED BY <1>6, <3>2 DEF IInv, StartsOnDisk
  <2> QED BY <2>1, <2>2
<1>7. \A g \in Functionaries \ {f}, s \in Steps :
        /\ disk'[Unfinished(s, g)] = disk[Unfinished(s, g)]
        /\ disk'[Final(s, g)] = disk[Final(s, g)]
  BY <1>1, <1>4, TargetFacts, Files
<1>8. \A g \in Functionaries \ {f} : started'[g] = started[g] /\ pc'[g] = pc[g]
  BY <1>1 DEF IInv, TypeOK
<1> QED BY <1>1, <1>3, <1>5, <1>6, <1>7, <1>8, OnDisk

LEMMA RemoveUnfinishedStep ==
  ASSUME IInv, NEW f \in Functionaries, RemoveUnfinished(f) PROVE IInv'
<1>1. /\ pc[f] = "remove" /\ pc' = [pc EXCEPT ![f] = "done"]
      /\ \E file \in found[f] : disk' = [disk EXCEPT ![file] = Absent]
      /\ UNCHANGED <<version, op, step, mode, found, link, calls, crashes, started>>
  BY DEF RemoveUnfinished, Goes, arguments
<1> DEFINE own == Unfinished(link[f].name, f)
<1>2. op[f] = "stop" /\ found[f] = {own} /\ link[f].name \in Steps
  BY <1>1 DEF IInv, CallOK, Stops, Records, TypeOK, Link
<1>3. own \in File /\ disk' = [disk EXCEPT ![own] = Absent] /\ pc'[f] = "done"
  BY <1>1, <1>2, Files DEF IInv, TypeOK
<1>4. /\ disk'[own] = Absent
      /\ \A file \in File : file # own => disk'[file] = disk[file]
  BY <1>3 DEF IInv, TypeOK
<1>5. TypeOK'
  BY <1>1, <1>3, Contents DEF IInv, TypeOK
<1>6. CallOK(f)'
  BY <1>1, <1>2, <1>3, <1>4 DEF IInv, CallOK, Stops, Unambiguous
<1>7. \A s \in Steps : disk'[Unfinished(s, f)].state = "link" =>
                         disk'[Unfinished(s, f)] = disk[Unfinished(s, f)]
  BY <1>4, Files, Contents
<1>8. \A g \in Functionaries \ {f}, s \in Steps :
        /\ disk'[Unfinished(s, g)] = disk[Unfinished(s, g)]
        /\ disk'[Final(s, g)] = disk[Final(s, g)]
  BY <1>2, <1>4, Files
<1>9. \A g \in Functionaries \ {f} : pc'[g] = pc[g]
  BY <1>1 DEF IInv, TypeOK
<1> QED BY <1>1, <1>5, <1>6, <1>7, <1>8, <1>9, OnDisk DEF IInv, StartsOnDisk

LEMMA DoneStep == ASSUME IInv, NEW f \in Functionaries, Done(f) PROVE IInv'
<1>1. /\ pc[f] = "done" /\ Ends(f) /\ UNCHANGED <<version, disk, calls, crashes>>
      /\ started' = IF op[f] = "stop" THEN [started EXCEPT ![f][step[f]] = None] ELSE started
  BY DEF Done
<1>2. CASE op[f] # "stop"
  BY <1>1, <1>2, EndsStep DEF IInv, TypeOK
<1>3. CASE op[f] = "stop"
  <2>1. (CHOOSE s \in Steps : TRUE) \in Steps /\ NoLink \in Link
    BY RecordingAssumption, NoLinkType
  <2>2. CallOK(f)' /\ pc'[f] = "idle"
    BY <1>1 DEF Ends, Goes, CallOK, Records, IInv, TypeOK
  <2>3. TypeOK'
    BY <1>1, <1>3, <2>1, <2>2 DEF Ends, Goes, IInv, TypeOK, Ops, Modes
  <2>4. Unambiguous(step[f]) => disk[Unfinished(step[f], f)] = Absent
    <3>1. /\ link[f].by = f /\ disk[Unfinished(link[f].name, f)] = Absent
          /\ step[f] \in Steps /\ link[f].name \in Steps
          /\ \E s \in Matches[step[f]], g \in Functionaries :
               {Unfinished(link[f].name, f)} = {Unfinished(s, g)}
      <4>1. Stops(f)
        BY <1>3 DEF IInv, CallOK
      <4>2. step[f] \in Steps /\ link[f].name \in Steps
        BY DEF IInv, TypeOK, Link
      <4>3. link[f].by = f /\ disk[Unfinished(link[f].name, f)] = Absent
        BY <1>1, <4>1 DEF Stops
      <4>4. /\ found[f] = {Unfinished(link[f].name, link[f].by)}
            /\ \E s \in Matches[step[f]], g \in Functionaries : found[f] = {Unfinished(s, g)}
        BY <1>1, <4>1 DEF Stops
      <4> QED BY <4>2, <4>3, <4>4
    <3>2. link[f].name \in Matches[step[f]]
      BY <3>1, Files, RecordingAssumption
    <3> QED BY <3>1, <3>2, Unglobbed
  <2>5. \A s \in Steps : s # step[f] => started'[f][s] = started[f][s]
    BY <1>1, <1>3 DEF IInv, TypeOK
  <2>6. ASSUME NEW s \in Steps, disk[Unfinished(s, f)].state = "link", Unambiguous(s)
        PROVE  started'[f][s] = started[f][s]
    BY <2>4, <2>5, <2>6, Contents
  <2>7. \A g \in Functionaries \ {f} :
          /\ pc'[g] = pc[g] /\ op'[g] = op[g] /\ step'[g] = step[g]
          /\ link'[g] = link[g] /\ found'[g] = found[g] /\ started'[g] = started[g]
    BY <1>1, <1>3 DEF Ends, Goes, IInv, TypeOK
  <2> QED BY <1>1, <2>2, <2>3, <2>6, <2>7, OnDisk DEF IInv, StartsOnDisk
<1> QED BY <1>2, <1>3

LEMMA NextIInv == IInv /\ [Next]_vars => IInv'
<1> SUFFICES ASSUME IInv, [Next]_vars PROVE IInv'
  OBVIOUS
<1>1. ASSUME NEW f \in Functionaries, Progress(f) PROVE IInv'
  BY <1>1, CallStep, RecordMaterialsStep, ExecuteLinkStep, FindUnfinishedStep, LoadUnfinishedStep,
     RecordProductsStep, OpenFileStep, WriteFileStep, RemoveUnfinishedStep, DoneStep
     DEF Progress
<1>2. ASSUME NEW f \in Functionaries, Crash(f) PROVE IInv'
  BY <1>2, EndsStep, RecordingAssumption DEF Crash, IInv, TypeOK
<1>3. CASE Work \/ UNCHANGED vars
  <2>1. /\ UNCHANGED <<disk, pc, op, step, mode, found, link, calls, crashes, started>>
        /\ version' \in Version
    BY <1>3, RecordingAssumption DEF Work, vars, arguments, IInv, TypeOK, Version
  <2>2. TypeOK'
    BY <2>1 DEF IInv, TypeOK
  <2>3. StartsOnDisk' /\ \A f \in Functionaries : CallOK(f)'
    BY <2>1 DEF IInv, StartsOnDisk, CallOK, Stops, Records, Unambiguous
  <2> QED BY <2>2, <2>3 DEF IInv
<1> QED BY <1>1, <1>2, <1>3 DEF Next

LEMMA Invariance == Spec => []IInv
BY InitIInv, NextIInv, PTL DEF Spec

-----------------------------------------------------------------------------
(* What follows *)

\* Types in every reachable state; whoever goes to load or to remove an unfinished link has
\* found exactly one.
THEOREM TypeCorrect == Spec => []TypeOK
BY Invariance, PTL DEF IInv

\* A link file is written by a call of the functionary it names, and nobody else's.
LEMMA OwnFinal ==
  ASSUME IInv, Next, NEW f \in Functionaries, NEW s \in Steps,
         disk'[Final(s, f)] # disk[Final(s, f)]
  PROVE  /\ OpenFile(f) \/ WriteFile(f)
         /\ Target(f) = Final(s, f)
<1>1. Final(s, f) \in File
  BY Files
<1>2. PICK g \in Functionaries : OpenFile(g) \/ WriteFile(g) \/ RemoveUnfinished(g)
  BY DEF Next, Work, Progress, Call, RecordMaterials, ExecuteLink, FindUnfinished,
         LoadUnfinished, RecordProducts, Done, Crash
<1>3. CASE RemoveUnfinished(g)
  <2>1. PICK file \in found[g] : disk' = [disk EXCEPT ![file] = Absent]
    BY <1>3 DEF RemoveUnfinished
  <2>2. \E t \in Matches[step[g]], h \in Functionaries : found[g] = {Unfinished(t, h)}
    BY <1>3 DEF RemoveUnfinished, IInv, CallOK, Stops, Records
  <2>3. \E t \in Steps, h \in Functionaries : file = Unfinished(t, h)
    BY <2>1, <2>2, RecordingAssumption DEF IInv, TypeOK
  <2> QED BY <1>1, <2>1, <2>3, Files DEF IInv, TypeOK
<1>4. CASE OpenFile(g) \/ WriteFile(g)
  <2>1. PICK c : disk' = [disk EXCEPT ![Target(g)] = c]
    BY <1>4 DEF OpenFile, WriteFile
  <2>2. Target(g) = Final(s, f)
    BY <1>1, <2>1 DEF IInv, TypeOK
  <2>3. g = f
    BY <1>4, <2>2, TargetFacts DEF OpenFile, WriteFile
  <2> QED BY <1>4, <2>2, <2>3
<1> QED BY <1>2, <1>3, <1>4

\* in_toto_record_stop stores a link of the step it stops, with the materials that the same
\* functionary recorded when it last started this step, however calls of others, crashes and
\* retries come in between, if no other step's name makes the glob ambiguous.
THEOREM FinishesCorrect == Spec => FinishesOwnStart
<1>1. ASSUME IInv, [Next]_vars, NEW f \in Functionaries, NEW s \in Steps, Unambiguous(s)
      PROVE  StoresOwnStart(f, s)
  <2> SUFFICES ASSUME Stopping(f, s), disk' # disk, disk'[Final(s, f)] # disk[Final(s, f)]
               PROVE  /\ started[f][s] # None
                      /\ disk'[Final(s, f)].state = "link"
                      /\ disk'[Final(s, f)].link.name = s
                      /\ disk'[Final(s, f)].link.materials = started[f][s]
    BY DEF StoresOwnStart
  <2>1. Next
    BY <1>1 DEF vars
  <2>2. pc[f] = "write" /\ op[f] = "stop" /\ step[f] = s
    BY DEF Stopping
  <2>3. WriteFile(f) /\ Target(f) = Final(s, f)
    BY <1>1, <2>1, <2>2, OwnFinal DEF OpenFile
  <2>4. disk'[Final(s, f)] = Holding(link[f])
    BY <1>1, <2>3, Files DEF WriteFile, IInv, TypeOK
  <2>5. /\ found[f] = {Unfinished(link[f].name, f)} /\ link[f].name \in Steps
        /\ \E t \in Matches[s], g \in Functionaries : found[f] = {Unfinished(t, g)}
        /\ Unambiguous(link[f].name) => link[f].materials = started[f][link[f].name]
        /\ link[f].materials \in Version
    BY <1>1, <2>2 DEF IInv, CallOK, Stops, TypeOK, Link
  <2>6. link[f].name \in Matches[s]
    BY <2>5, Files, RecordingAssumption
  <2>7. link[f].name = s
    BY <1>1, <2>6, Unglobbed
  <2>8. link[f].materials = started[f][s] /\ link[f].materials # None
    BY <1>1, <2>5, <2>7 DEF Version, None
  <2> QED BY <2>4, <2>7, <2>8, Contents
<1>2. IInv /\ [Next]_vars
        => [\A f \in Functionaries, s \in Steps : Unambiguous(s) => StoresOwnStart(f, s)]_vars
  BY <1>1
<1> QED BY <1>2, Invariance, PTL DEF Spec, FinishesOwnStart

\* An unfinished link is replaced by a new start of its own functionary, or removed when the
\* link file holds its materials and its products: no crash between two system calls, and no
\* call of anybody else, loses a recording.
THEOREM RecordingCorrect == Spec => RecordingNotLost
<1> DEFINE Lost(f, s) ==
             LET file == Unfinished(s, f)
                 final == disk[Final(s, f)]
             IN (Unambiguous(s) /\ disk[file].state = "link" /\ disk'[file] # disk[file])
                  => \/ op[f] = "start" /\ step[f] = s /\ pc[f] = "open"
                     \/ /\ disk'[file] = Absent
                        /\ final.state = "link"
                        /\ final.link.materials = disk[file].link.materials
                        /\ final.link.products # None
<1>1. ASSUME IInv, [Next]_vars, NEW f \in Functionaries, NEW s \in Steps
      PROVE  Lost(f, s)
  <2> DEFINE file == Unfinished(s, f)
  <2> SUFFICES ASSUME Unambiguous(s), disk[file].state = "link", disk'[file] # disk[file]
               PROVE  \/ op[f] = "start" /\ step[f] = s /\ pc[f] = "open"
                      \/ /\ disk'[file] = Absent
                         /\ disk[Final(s, f)].state = "link"
                         /\ disk[Final(s, f)].link.materials = disk[file].link.materials
                         /\ disk[Final(s, f)].link.products # None
    OBVIOUS
  <2>1. file \in File
    BY Files
  <2>2. PICK g \in Functionaries : OpenFile(g) \/ WriteFile(g) \/ RemoveUnfinished(g)
    BY <1>1 DEF Next, vars, Work, Progress, Call, RecordMaterials, ExecuteLink, FindUnfinished,
                LoadUnfinished, RecordProducts, Done, Crash
  <2>3. CASE OpenFile(g) \/ WriteFile(g)
    <3>1. PICK c : disk' = [disk EXCEPT ![Target(g)] = c]
      BY <2>3 DEF OpenFile, WriteFile
    <3>2. Target(g) = file
      BY <1>1, <2>1, <3>1 DEF IInv, TypeOK
    <3>3. pc[g] \in {"open", "write"}
      BY <2>3 DEF OpenFile, WriteFile
    <3>4. g = f /\ op[f] = "start" /\ step[f] = s
      BY <1>1, <3>2, <3>3, TargetFacts, Files
    <3>5. pc[f] # "write"
      BY <1>1, <3>4, Contents DEF IInv, CallOK, Records
    <3> QED BY <3>3, <3>4, <3>5
  <2>4. CASE RemoveUnfinished(g)
    <3>1. PICK gone \in found[g] : disk' = [disk EXCEPT ![gone] = Absent]
      BY <2>4 DEF RemoveUnfinished
    <3>2. gone = file
      BY <1>1, <2>1, <3>1 DEF IInv, TypeOK
    <3>3. /\ found[g] = {Unfinished(link[g].name, g)} /\ link[g].name \in Steps
          /\ step[g] \in Steps
          /\ \E t \in Matches[step[g]], h \in Functionaries : found[g] = {Unfinished(t, h)}
          /\ Unambiguous(link[g].name) => link[g].materials = started[g][link[g].name]
          /\ link[g].products # None
          /\ disk[Final(step[g], g)] = Holding(link[g])
      BY <1>1, <2>4 DEF RemoveUnfinished, IInv, CallOK, Stops, Records, TypeOK, Link
    <3>4. g = f /\ link[g].name = s /\ s \in Matches[step[g]]
      BY <3>1, <3>2, <3>3, Files, RecordingAssumption
    <3>5. step[g] = s
      BY <3>3, <3>4, Unglobbed
    <3>6. disk[file].link.materials = started[f][s]
      BY <1>1 DEF IInv, StartsOnDisk
    <3> QED BY <2>1, <1>1, <3>1, <3>2, <3>3, <3>4, <3>5, <3>6, Contents DEF IInv, TypeOK
  <2> QED BY <2>2, <2>3, <2>4
<1>2. IInv /\ [Next]_vars => [\A f \in Functionaries, s \in Steps : Lost(f, s)]_vars
  BY <1>1
<1> QED BY <1>2, Invariance, PTL DEF Spec, RecordingNotLost
=============================================================================
