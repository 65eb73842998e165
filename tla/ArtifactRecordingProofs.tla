---------------------- MODULE ArtifactRecordingProofs ----------------------
(***************************************************************************)
(* What record_artifacts_as_dict returns and what it leaves behind, for    *)
(* every file system, every sequence of calls and every failure.           *)
(***************************************************************************)
EXTENDS ArtifactRecording, SequenceTheorems, WellFoundedInduction, TLAPS

-----------------------------------------------------------------------------
(* The invariant *)

IsDict(dict) == dict = [n \in DOMAIN dict |-> dict[n]]
Pairs(dict) == {<<n, dict[n]>> : n \in DOMAIN dict}

IsFiles(files) ==
  /\ DOMAIN files \subseteq Places
  /\ \A f \in DOMAIN files : files[f] \in Contents \cup {Unreadable}

Typed ==
  /\ IsFiles(tree) /\ IsFiles(atCall.tree)
  /\ cwd \in Dirs /\ atCall.cwd \in Dirs
  /\ registry \subseteq BuiltIn \cup {"custom"}
  /\ call \in Arguments
  /\ pc \in {"idle", "batch", "uri", "files", "dir"}
  /\ outcome \in Exceptions \cup {"returned", "running"}
  /\ (pc = "idle") <=> (outcome # "running")
  /\ waiting \subseteq DOMAIN call.artifacts /\ todo \subseteq DOMAIN call.artifacts
  /\ IsDict(artifact_hashes) /\ IsDict(hashes)

\* What is empty when.
Cleared ==
  /\ pc = "idle" => waiting = {} /\ todo = {} /\ hashes = << >> /\ original_cwd = << >>
  /\ pc = "batch" => todo = {} /\ hashes = << >> /\ original_cwd = << >>
  /\ pc \notin {"files", "dir"} => pending = {}
  /\ pc # "dir" => file_hashes = << >>
  /\ pc \in {"files", "dir"} => todo # {}
  /\ pc = "files" => /\ ResolverOf(First(todo)) = "file"
                     /\ pending # {} => Uri.scheme \in {"", "file"}
  /\ pc = "dir" => ResolverOf(First(todo)) = "dir"

\* Where the process is.
Placed ==
  /\ pc = "idle" => StaysPut
  /\ pc # "idle" => registry = atCall.registry \cup BuiltIn
  /\ pc = "batch" => cwd = atCall.cwd
  /\ pc \in {"uri", "files"} =>
       \/ /\ original_cwd = << >> /\ cwd = atCall.cwd
          /\ \A i \in todo : ~ChangesDirectory(ResolverOf(i))
       \/ /\ original_cwd = atCall.cwd /\ cwd = Start
          /\ \A i \in todo : ChangesDirectory(ResolverOf(i))
  /\ pc = "dir" =>
       /\ original_cwd = atCall.cwd /\ cwd = At(atCall.cwd, Uri.path)
       /\ \A i \in todo : ~ChangesDirectory(ResolverOf(i))

\* Which resolver an entry comes from.
ResolverFor(scheme) == IF scheme = "" THEN "file" ELSE scheme

\* Batches have nothing in common.
Apart ==
  /\ \A i, j \in todo : ResolverOf(i) = ResolverOf(j)
  /\ \A i \in todo, j \in waiting : ResolverOf(i) # ResolverOf(j)
  /\ \A n \in DOMAIN artifact_hashes :
       /\ n.scheme \in Schemes
       /\ \A i \in waiting \cup todo : ResolverOf(i) # ResolverFor(n.scheme)
  /\ \A n \in DOMAIN hashes :
       /\ n.scheme \in Schemes
       /\ \A i \in waiting : ResolverOf(i) # ResolverFor(n.scheme)
       /\ \A m \in DOMAIN artifact_hashes : ResolverFor(n.scheme) # ResolverFor(m.scheme)

\* A call whose result is determined: see RecordsExactly.
Steady ==
  /\ calm
  /\ \A i \in DOMAIN call.artifacts : Based(call.artifacts[i])
  /\ call.lstrip_paths # << >> =>
       \A i \in DOMAIN call.artifacts : call.artifacts[i].scheme # "file"

\* What the current uri stands for, and what has been recorded of it.
FilesFor(uri) == IF uri.scheme \in {"", "file"} THEN FilesOf(Start, uri.path) ELSE {}
Files == FilesFor(Uri)
FileEntries == {<<Key(Uri.scheme, q), atCall.tree[At(Start, q)]>> : q \in Files \ pending}
Inside == FilesOf(At(atCall.cwd, Uri.path), << >>)

\* The artifacts that are finished with.
Done == DOMAIN call.artifacts \ (waiting \cup todo)
DoneEntries == UNION {EntriesOf(call.artifacts[i]) : i \in Done}

\* While no file changes, all that has been recorded is what finished artifacts,
\* and of the current one the files that are no longer pending, call for.
Exact ==
  /\ calm => tree = atCall.tree
  /\ Steady =>
       /\ pc \in {"batch", "uri", "dir"} => Pairs(artifact_hashes) \cup Pairs(hashes) = DoneEntries
       /\ pc = "files" =>
            /\ pending \subseteq Files
            /\ Pairs(artifact_hashes) \cup Pairs(hashes) = DoneEntries \cup FileEntries
       /\ pc = "dir" =>
            /\ pending \subseteq Inside
            /\ file_hashes = [q \in Inside \ pending |-> atCall.tree[At(cwd, q)]]
  /\ RecordsExactly

IInv == Typed /\ Cleared /\ Placed /\ Apart /\ Exact

-----------------------------------------------------------------------------
(* Paths *)

LEMMA DirFacts ==
  ASSUME NEW d \in Dirs
  PROVE  d \in Path /\ Len(d) \in Nat /\ Len(d) >= 1 /\ d[1] = Root
<1>1. d \in Path /\ d # << >> /\ d[1] = Root
  BY RecordingAssumption
<1> QED BY <1>1, EmptySeq DEF Path

LEMMA PlaceFacts ==
  ASSUME NEW f \in Places
  PROVE  /\ f \in Path /\ Len(f) \in Nat /\ f[1] = Root /\ f \notin Dirs
         /\ \A i \in 2 .. Len(f) : f[i] # Root
         /\ \A i \in 1 .. Len(f) - 1 : SubSeq(f, 1, i) \in Dirs
BY RecordingAssumption, LenProperties DEF Path

\* What starts with another sequence is that and a rest.
LEMMA Prefixed ==
  ASSUME NEW S, NEW s \in Seq(S), NEW t \in Seq(S), Seqs!IsStrictPrefix(s, t)
  PROVE  /\ Len(s) < Len(t) /\ SubSeq(t, 1, Len(s)) = s
         /\ SubSeq(t, Len(s) + 1, Len(t)) \in Seq(S)
         /\ SubSeq(t, Len(s) + 1, Len(t)) # << >>
         /\ SubSeq(t, Len(s) + 1, Len(t))[1] = t[Len(s) + 1]
         /\ s \o SubSeq(t, Len(s) + 1, Len(t)) = t
<1> DEFINE rest == SubSeq(t, Len(s) + 1, Len(t))
<1>1. Len(s) <= Len(t) /\ SubSeq(s, 1, Len(s)) = SubSeq(t, 1, Len(s)) /\ s # t
  BY DEF Seqs!IsStrictPrefix, Seqs!IsPrefix
<1>2. SubSeq(s, 1, Len(s)) = s /\ SubSeq(t, 1, Len(t)) = t
  BY SubSeqFull
<1>3. Len(s) \in Nat /\ Len(t) \in Nat /\ \A i \in 1 .. Len(t) : t[i] \in S
  BY LenProperties, ElementOfSeq
<1>4. Len(s) < Len(t)
  BY <1>1, <1>2, <1>3
<1>5. /\ rest \in Seq(S) /\ Len(rest) = Len(t) - Len(s)
      /\ \A i \in 1 .. Len(t) - Len(s) : rest[i] = t[Len(s) + i]
  <2>1. Len(s) + 1 \in Int /\ Len(t) \in Int /\ \A i \in Len(s) + 1 .. Len(t) : t[i] \in S
    BY <1>3
  <2> QED BY <1>3, <1>4, <2>1, SubSeqProperties
<1>6. SubSeq(t, 1, Len(s)) \o rest = SubSeq(t, 1, Len(t))
  <2>1. /\ 1 \in 1 .. Len(t) + 1 /\ Len(s) \in 1 - 1 .. Len(t) /\ Len(t) \in Len(s) .. Len(t)
    BY <1>3, <1>4
  <2> QED BY <2>1, ConcatAdjacentSubSeq
<1>7. rest # << >> /\ rest[1] = t[Len(s) + 1]
  <2>1. Len(rest) # 0 /\ 1 \in 1 .. Len(t) - Len(s)
    BY <1>3, <1>4, <1>5
  <2> QED BY <1>5, <2>1, EmptySeq
<1> QED BY <1>1, <1>2, <1>4, <1>5, <1>6, <1>7

\* A path stays relative or absolute when something follows it.
LEMMA FirstOfConcat ==
  ASSUME NEW S, NEW s \in Seq(S), s # << >>, NEW t \in Seq(S)
  PROVE  s \o t \in Seq(S) /\ s \o t # << >> /\ (s \o t)[1] = s[1]
<1>1. Len(s) \in Nat \ {0} /\ Len(t) \in Nat
  BY EmptySeq, LenProperties
<1>2. /\ s \o t \in Seq(S) /\ Len(s \o t) = Len(s) + Len(t)
      /\ \A i \in 1 .. Len(s) + Len(t) : (s \o t)[i] = IF i <= Len(s) THEN s[i] ELSE t[i - Len(s)]
  BY ConcatProperties
<1>3. 1 \in 1 .. Len(s) + Len(t) /\ 1 <= Len(s) /\ Len(s) + Len(t) # 0
  BY <1>1
<1> QED BY <1>2, <1>3, EmptySeq

LEMMA AtType ==
  ASSUME NEW d \in Dirs, NEW p \in Path
  PROVE  At(d, p) \in Path /\ At(d, p) # << >> /\ At(d, p)[1] = Root
<1>1. d \in Path /\ d # << >> /\ d[1] = Root
  BY RecordingAssumption
<1>2. CASE p # << >> /\ p[1] = Root
  BY <1>2 DEF At
<1>3. CASE ~ (p # << >> /\ p[1] = Root)
  BY <1>1, <1>3, FirstOfConcat DEF At, Path
<1> QED BY <1>2, <1>3

LEMMA Associative ==
  ASSUME NEW s \in Seq(Names), NEW t \in Seq(Names), NEW u \in Seq(Names)
  PROVE  (s \o t) \o u = s \o (t \o u)
BY ConcatAssociative

\* A file found below a directory is where the path says that is recorded, and
\* the directory exists.
LEMMA FoundFile ==
  ASSUME NEW d \in Dirs, NEW p \in Path, NEW f \in Places,
         Seqs!IsStrictPrefix(At(d, p), f)
  PROVE  LET rest == SubSeq(f, Len(At(d, p)) + 1, Len(f))
         IN  /\ rest \in Path /\ p \o rest \in Path /\ At(d, p \o rest) = f
             /\ At(d, p) \in Dirs
<1> DEFINE a == At(d, p)
           rest == SubSeq(f, Len(a) + 1, Len(f))
<1>1. a \in Seq(Names) /\ a # << >>
  BY AtType DEF Path
<1>2. f \in Seq(Names) /\ Len(f) \in Nat
  BY PlaceFacts DEF Path
<1>3. /\ Len(a) < Len(f) /\ SubSeq(f, 1, Len(a)) = a
      /\ rest \in Seq(Names) /\ rest # << >> /\ rest[1] = f[Len(a) + 1] /\ a \o rest = f
  <2> HIDE DEF a
  <2>1. Seqs!IsStrictPrefix(a, f)
    BY DEF a
  <2> QED BY <1>1, <1>2, <2>1, Prefixed
<1>4. Len(a) \in Nat \ {0}
  BY <1>1, EmptySeq
<1>5. a \in Dirs
  <2>1. Len(a) \in 1 .. Len(f) - 1
    BY <1>2, <1>3, <1>4
  <2> QED BY <1>3, <2>1, PlaceFacts
<1>6. rest[1] # Root
  <2>1. Len(a) + 1 \in 2 .. Len(f)
    BY <1>2, <1>3, <1>4
  <2> QED BY <1>3, <2>1, PlaceFacts
<1>7. p \in Seq(Names) /\ d \in Seq(Names)
  BY DirFacts DEF Path
<1> HIDE DEF rest
<1>8. p \o rest \in Seq(Names)
  BY <1>3, <1>7, ConcatProperties
<1>9. At(d, p \o rest) = f
  <2>1. CASE p # << >> /\ p[1] = Root
    <3>1. a = p /\ p \o rest # << >> /\ (p \o rest)[1] = Root
      BY <1>3, <1>7, <2>1, FirstOfConcat DEF At
    <3> QED BY <1>3, <3>1 DEF At
  <2>2. CASE p # << >> /\ p[1] # Root
    <3>1. a = d \o p /\ (p \o rest)[1] # Root
      BY <1>3, <1>7, <2>2, FirstOfConcat DEF At
    <3>2. (d \o p) \o rest = d \o (p \o rest)
      BY <1>3, <1>7, Associative
    <3> QED BY <1>3, <3>1, <3>2 DEF At
  <2>3. CASE p = << >>
    <3>1. p \o rest = rest /\ d \o << >> = d
      BY <1>3, <1>7, <2>3, ConcatEmptySeq
    <3>2. a = d
      BY <2>3, <3>1 DEF At
    <3> QED BY <1>3, <1>6, <3>1, <3>2 DEF At
  <2> QED BY <2>1, <2>2, <2>3
<1> QED BY <1>3, <1>5, <1>8, <1>9 DEF rest, Path


-----------------------------------------------------------------------------
(* Artifacts and dicts *)

\* A set of indices has a first one.
LEMMA FirstIndex ==
  ASSUME NEW I \in SUBSET Nat, I # {}
  PROVE  First(I) \in I
<1>1. PICK i \in I : \A j \in I : ~ (<<j, i>> \in OpToRel(<, Nat))
  BY NatLessThanWellFounded, WFMin
<1>2. \A j \in I : ~ (j < i)
  BY <1>1 DEF OpToRel
<1>3. \A j \in I : i <= j
  BY <1>2
<1> QED BY <1>3 DEF First

LEMMA ArtifactsType ==
  ASSUME call \in Arguments
  PROVE  /\ \A I \in SUBSET DOMAIN call.artifacts : I # {} => First(I) \in I
         /\ \A i \in DOMAIN call.artifacts : /\ call.artifacts[i].scheme \in Schemes
                                             /\ call.artifacts[i].path \in Path
         /\ call.base_path \in Path /\ call.lstrip_paths \in Seq(Path)
<1>1. /\ call.artifacts \in Seq(Uris) /\ call.base_path \in Path
      /\ call.lstrip_paths \in Seq(Path)
  BY DEF Arguments
<1>2. /\ DOMAIN call.artifacts \subseteq Nat
      /\ \A i \in DOMAIN call.artifacts : call.artifacts[i] \in Uris
  BY <1>1, ElementOfSeq, LenProperties
<1>3. \A u \in Uris : u.scheme \in Schemes /\ u.path \in Path
  BY DEF Uris
<1> QED BY <1>1, <1>2, <1>3, FirstIndex

LEMMA EmptyDict == IsDict(<< >>) /\ DOMAIN << >> = {} /\ Pairs(<< >>) = {}
BY DEF IsDict, Pairs

LEMMA WithDict ==
  ASSUME NEW dict, NEW key, NEW value
  PROVE  /\ IsDict(With(dict, key, value))
         /\ DOMAIN With(dict, key, value) = DOMAIN dict \cup {key}
BY DEF IsDict, With

LEMMA UpdatedDict ==
  ASSUME NEW dict, NEW other
  PROVE  /\ IsDict(Updated(dict, other))
         /\ DOMAIN Updated(dict, other) = DOMAIN dict \cup DOMAIN other
BY DEF IsDict, Updated

\* Recording a new entry, or one again, adds it.
LEMMA WithPairs ==
  ASSUME NEW dict, NEW key, NEW value, key \in DOMAIN dict => dict[key] = value
  PROVE  Pairs(With(dict, key, value)) = Pairs(dict) \cup {<<key, value>>}
BY DEF Pairs, With

\* Dicts with no key in common keep all their entries.
LEMMA UpdatedPairs ==
  ASSUME NEW dict, NEW other, DOMAIN dict \cap DOMAIN other = {}
  PROVE  Pairs(Updated(dict, other)) = Pairs(dict) \cup Pairs(other)
<1> DEFINE both == Updated(dict, other)
<1>1. DOMAIN both = DOMAIN dict \cup DOMAIN other
  BY UpdatedDict
<1>2. \A n \in DOMAIN dict : both[n] = dict[n]
  BY DEF Updated
<1>3. \A n \in DOMAIN other : both[n] = other[n]
  BY DEF Updated
<1> HIDE DEF both
<1>4. Pairs(both) = Pairs(dict) \cup Pairs(other)
  <2>1. \A n \in DOMAIN dict : <<n, both[n]>> = <<n, dict[n]>>
    BY <1>2
  <2>2. \A n \in DOMAIN other : <<n, both[n]>> = <<n, other[n]>>
    BY <1>3
  <2>3. Pairs(both) \subseteq Pairs(dict) \cup Pairs(other)
    BY <1>1, <2>1, <2>2 DEF Pairs
  <2>4. Pairs(dict) \cup Pairs(other) \subseteq Pairs(both)
    BY <1>1, <2>1, <2>2 DEF Pairs
  <2> QED BY <2>3, <2>4
<1> QED BY <1>4 DEF both

-----------------------------------------------------------------------------
(* Types *)

Base == Typed /\ Cleared /\ Placed /\ Apart

\* A call that ends has cleared everything.
LEMMA LeaveTyped ==
  ASSUME Typed, NEW how \in Exceptions \cup {"returned"}, Leave(how), cwd' \in Dirs,
         registry' \subseteq BuiltIn \cup {"custom"}, artifact_hashes' = artifact_hashes
  PROVE  Typed'
<1>1. how # "running"
  BY DEF Exceptions
<1> QED BY <1>1, EmptyDict DEF Typed, Leave, system, IsFiles

LEMMA RaiseTyped ==
  ASSUME Typed, NEW how \in Exceptions, Raise(how)
  PROVE  Typed'
<1>1. Leave(how) /\ cwd' \in Dirs /\ registry' \subseteq BuiltIn \cup {"custom"}
      /\ artifact_hashes' = artifact_hashes
  BY DEF Raise, Typed
<1> QED BY <1>1, LeaveTyped

LEMMA RecordTyped ==
  ASSUME Typed, NEW key, NEW hash, Record(key, hash), cwd' \in Dirs, outcome = "running"
  PROVE  Typed'
<1>1. IsDict(hashes')
  BY WithDict DEF Record
<1>2. /\ pc' = "uri" /\ todo' \subseteq todo
      /\ UNCHANGED <<tree, registry, call, waiting, artifact_hashes, outcome, atCall>>
  BY DEF Record, system
<1> QED BY <1>1, <1>2 DEF Typed, IsFiles

LEMMA NextTyped ==
  ASSUME Base, [Next]_vars
  PROVE  Typed'
<1> USE DEF Base, system, job
<1>1. CASE BeginBatch
  <2>1. CASE Raise("OSError")
    BY <2>1, RaiseTyped DEF Exceptions
  <2>2. CASE ~ Raise("OSError")
    BY <1>1, <2>2, EmptyDict DEF BeginBatch, Typed, IsFiles, IsDir, NextBatch
  <2> QED BY <2>1, <2>2
<1>2. CASE EndBatch
  <2>1. cwd' \in Dirs
    BY <1>2 DEF EndBatch, Typed, Placed
  <2> QED BY <1>2, <2>1, EmptyDict, UpdatedDict DEF EndBatch, Typed, IsFiles
<1>3. CASE Return
  BY <1>3, LeaveTyped DEF Return, Typed
<1>4. CASE BeginFiles
  BY <1>4 DEF BeginFiles, AtUri, Typed, IsFiles
<1>5. CASE HashFile
  <2>1. CASE Raise("PrefixError") \/ Raise("OSError")
    BY <2>1, RaiseTyped DEF Exceptions
  <2>2. CASE ~ (Raise("PrefixError") \/ Raise("OSError"))
    <3>1. PICK p \in pending :
            hashes' = IF IsFile(At(cwd, p)) THEN With(hashes, Key(Uri.scheme, p), tree[At(cwd, p)])
                      ELSE hashes
      BY <1>5, <2>2 DEF HashFile
    <3>2. /\ pc' \in {"idle", "batch", "uri", "files", "dir"}
          /\ UNCHANGED <<system, cwd, registry, call, pc, waiting, todo, artifact_hashes,
                         outcome, atCall>>
      BY <1>5, <2>2 DEF HashFile, Typed
    <3>3. IsDict(hashes')
      BY <3>1, WithDict DEF Typed
    <3> QED BY <3>2, <3>3 DEF Typed, IsFiles
  <2> QED BY <2>1, <2>2
<1>6. CASE EndFiles
  BY <1>6 DEF EndFiles, Typed, IsFiles
<1>7. CASE HashCommit
  <2>1. CASE Raise("OSError")
    BY <2>1, RaiseTyped DEF Exceptions
  <2>2. CASE ~ Raise("OSError")
    <3>1. Record([scheme |-> "ostree", path |-> Uri.path], tree[At(cwd, RefPath(Uri.path))])
      BY <1>7, <2>2 DEF HashCommit
    <3>2. cwd' = cwd /\ outcome = "running"
      BY <1>7, <2>2 DEF HashCommit, AtUri, Typed
    <3> QED BY <3>1, <3>2, RecordTyped DEF Typed
  <2> QED BY <2>1, <2>2
<1>8. CASE BeginDirectory
  <2>1. CASE Raise("ValueError")
    BY <2>1, RaiseTyped DEF Exceptions
  <2>2. CASE ~ Raise("ValueError")
    BY <1>8, <2>2 DEF BeginDirectory, AtUri, IsDir, Typed, IsFiles
  <2> QED BY <2>1, <2>2
<1>9. CASE HashInDirectory
  <2>1. CASE Raise("OSError")
    BY <2>1, RaiseTyped DEF Exceptions
  <2>2. CASE ~ Raise("OSError")
    BY <1>9, <2>2 DEF HashInDirectory, Typed, IsFiles
  <2> QED BY <2>1, <2>2
<1>10. CASE EndDirectory
  <2>1. cwd' \in Dirs
    BY <1>10 DEF EndDirectory, Typed, Placed
  <2>2. CASE DirDuplicate(Uri.path)
    <3>1. Leave("PrefixError") /\ UNCHANGED <<registry, artifact_hashes>>
      BY <1>10, <2>2 DEF EndDirectory
    <3> QED BY <2>1, <3>1, LeaveTyped DEF Typed, Exceptions
  <2>3. CASE ~ DirDuplicate(Uri.path)
    <3>1. Record(Key("dir", Uri.path), file_hashes) /\ outcome = "running"
      BY <1>10, <2>3 DEF EndDirectory, Typed
    <3> QED BY <2>1, <3>1, RecordTyped
  <2> QED BY <2>2, <2>3
<1>11. CASE HashCustom
  <2>1. /\ Record([scheme |-> "custom", path |-> Uri.path], "custom")
        /\ cwd' = cwd /\ outcome = "running"
    BY <1>11 DEF HashCustom, AtUri, Typed
  <2> QED BY <2>1, RecordTyped DEF Typed
<1>12. CASE Register
  BY <1>12 DEF Register, Typed, IsFiles
<1>13. CASE Change
  BY <1>13 DEF Change, Typed, IsFiles
<1>14. ASSUME NEW c \in Calls, Call(c) PROVE Typed'
  <2>1. c \in Arguments
    BY RecordingAssumption
  <2> QED BY <1>14, <2>1, EmptyDict DEF Call, Typed, Cleared, IsFiles, Exceptions
<1>15. CASE UNCHANGED vars
  BY <1>15 DEF vars, Typed, IsFiles
<1> QED BY <1>1, <1>2, <1>3, <1>4, <1>5, <1>6, <1>7, <1>8, <1>9, <1>10, <1>11, <1>12,
           <1>13, <1>14, <1>15 DEF Next, Step


-----------------------------------------------------------------------------
(* What is empty when *)

LEMMA LeaveCleared ==
  ASSUME NEW how, Leave(how)
  PROVE  Cleared'
BY DEF Leave, Cleared

LEMMA RaiseCleared ==
  ASSUME NEW how, Raise(how)
  PROVE  Cleared'
BY LeaveCleared DEF Raise

LEMMA NextCleared ==
  ASSUME Base, [Next]_vars
  PROVE  Cleared'
<1> USE DEF Base, system, job
<1>1. CASE BeginBatch
  <2>1. CASE Raise("OSError")
    BY <2>1, RaiseCleared
  <2>2. CASE ~ Raise("OSError")
    BY <1>1, <2>2 DEF BeginBatch, Cleared
  <2> QED BY <2>1, <2>2
<1>2. CASE EndBatch
  BY <1>2 DEF EndBatch, Cleared
<1>3. CASE Return
  BY <1>3, LeaveCleared DEF Return
<1>4. CASE BeginFiles
  BY <1>4 DEF BeginFiles, AtUri, Cleared, ResolverOf, Uri, Wanted
<1>5. CASE HashFile
  <2>1. CASE Raise("PrefixError") \/ Raise("OSError")
    BY <2>1, RaiseCleared
  <2>2. CASE ~ (Raise("PrefixError") \/ Raise("OSError"))
    BY <1>5, <2>2 DEF HashFile, Cleared, ResolverOf, Uri
  <2> QED BY <2>1, <2>2
<1>6. CASE EndFiles
  BY <1>6 DEF EndFiles, Cleared
<1>7. CASE HashCommit
  <2>1. CASE Raise("OSError")
    BY <2>1, RaiseCleared
  <2>2. CASE ~ Raise("OSError")
    <3>1. /\ pc' = "uri" /\ pc = "uri"
          /\ UNCHANGED <<pending, file_hashes>>
      BY <1>7, <2>2 DEF HashCommit, AtUri, Record
    <3> QED BY <3>1 DEF Cleared
  <2> QED BY <2>1, <2>2
<1>8. CASE BeginDirectory
  <2>1. CASE Raise("ValueError")
    BY <2>1, RaiseCleared
  <2>2. CASE ~ Raise("ValueError")
    BY <1>8, <2>2 DEF BeginDirectory, AtUri, Cleared, ResolverOf
  <2> QED BY <2>1, <2>2
<1>9. CASE HashInDirectory
  <2>1. CASE Raise("OSError")
    BY <2>1, RaiseCleared
  <2>2. CASE ~ Raise("OSError")
    BY <1>9, <2>2 DEF HashInDirectory, Cleared, ResolverOf
  <2> QED BY <2>1, <2>2
<1>10. CASE EndDirectory
  <2>1. CASE Leave("PrefixError")
    BY <2>1, LeaveCleared
  <2>2. CASE ~ Leave("PrefixError")
    <3>1. pc' = "uri" /\ file_hashes' = << >> /\ pending = {} /\ pending' = pending
      BY <1>10, <2>2 DEF EndDirectory, Record
    <3> QED BY <3>1 DEF Cleared
  <2> QED BY <2>1, <2>2
<1>11. CASE HashCustom
  <2>1. /\ pc' = "uri" /\ pc = "uri"
        /\ UNCHANGED <<pending, file_hashes>>
    BY <1>11 DEF HashCustom, AtUri, Record
  <2> QED BY <2>1 DEF Cleared
<1>12. CASE Register
  BY <1>12 DEF Register, Cleared
<1>13. CASE Change
  BY <1>13 DEF Change, Cleared, ResolverOf, Uri
<1>14. ASSUME NEW c \in Calls, Call(c) PROVE Cleared'
  BY <1>14 DEF Call, Cleared
<1>15. CASE UNCHANGED vars
  BY <1>15 DEF vars, Cleared, ResolverOf, Uri
<1> QED BY <1>1, <1>2, <1>3, <1>4, <1>5, <1>6, <1>7, <1>8, <1>9, <1>10, <1>11, <1>12,
           <1>13, <1>14, <1>15 DEF Next, Step


-----------------------------------------------------------------------------
(* Where the process is *)

LEMMA SameCall ==
  ASSUME UNCHANGED <<call, atCall>>
  PROVE  BasePath' = BasePath /\ Start' = Start
BY DEF BasePath, Start

\* Only a uri with its scheme goes to a resolver other than FileResolver.
LEMMA DirResolver ==
  ASSUME Typed, NEW i \in DOMAIN call.artifacts
  PROVE  ResolverOf(i) # "file" => call.artifacts[i].scheme = ResolverOf(i)
BY DEF ResolverOf, ForUri

LEMMA LeavePlaced ==
  ASSUME NEW how, Leave(how),
         \/ cwd' = atCall.cwd
         \/ how \in Exceptions /\ cwd' = Start
         \/ /\ how \in Exceptions
            /\ \E i \in DOMAIN call.artifacts :
                 call.artifacts[i].scheme = "dir" /\ cwd' = At(atCall.cwd, call.artifacts[i].path),
         how = "returned" => registry' = {}
  PROVE  Placed'
<1>1. pc' = "idle" /\ outcome' = how /\ UNCHANGED <<call, atCall>>
  BY DEF Leave
<1>2. StaysPut'
  <2>1. Start' = Start
    BY <1>1, SameCall
  <2> QED BY <1>1, <2>1 DEF StaysPut
<1> QED BY <1>1, <1>2 DEF Placed

LEMMA RaisePlaced ==
  ASSUME Base, NEW how \in Exceptions, Raise(how), pc # "idle"
  PROVE  Placed'
<1>1. Leave(how) /\ cwd' = cwd /\ how # "returned"
  BY DEF Raise, Exceptions
<1>2. CASE pc # "dir"
  <2>1. cwd = atCall.cwd \/ cwd = Start
    BY <1>2 DEF Base, Typed, Placed
  <2> QED BY <1>1, <2>1, LeavePlaced
<1>3. CASE pc = "dir"
  <2>1. cwd = At(atCall.cwd, Uri.path) /\ todo # {} /\ ResolverOf(First(todo)) = "dir"
    BY <1>3 DEF Base, Placed, Cleared
  <2>2. First(todo) \in todo /\ todo \subseteq DOMAIN call.artifacts
    BY <2>1, ArtifactsType DEF Base, Typed
  <2>3. call.artifacts[First(todo)].scheme = "dir"
    BY <2>1, <2>2, DirResolver DEF Base
  <2> QED BY <1>1, <2>1, <2>2, <2>3, LeavePlaced DEF Uri
<1> QED BY <1>2, <1>3

\* Within a batch.
LEMMA SamePlaced ==
  ASSUME Placed, UNCHANGED <<call, atCall, registry, cwd, original_cwd>>, todo' \subseteq todo,
         pc \in {"uri", "files"}, pc' \in {"uri", "files"}
  PROVE  Placed'
<1>1. Start' = Start
  BY SameCall
<1> QED BY <1>1 DEF Placed, ChangesDirectory, ResolverOf, BasePath

LEMMA NextPlaced ==
  ASSUME Base, [Next]_vars
  PROVE  Placed'
<1> USE DEF Base, system, job
<1>0. atCall.cwd # << >>
  BY DirFacts, EmptySeq DEF Typed, Path
<1>1. CASE BeginBatch
  <2>1. CASE Raise("OSError")
    BY <1>1, <2>1, RaisePlaced DEF BeginBatch, Exceptions
  <2>2. CASE ~ Raise("OSError")
    <3> DEFINE changing == ChangesDirectory(ResolverOf(First(waiting)))
    <3>1. /\ pc' = "uri" /\ todo' = NextBatch
          /\ original_cwd' = IF changing THEN cwd ELSE << >>
          /\ cwd' = IF changing THEN At(cwd, BasePath) ELSE cwd
          /\ cwd = atCall.cwd /\ registry = atCall.registry \cup BuiltIn
          /\ UNCHANGED <<call, atCall, registry>>
      BY <1>1, <2>2 DEF BeginBatch, Placed
    <3>2. Start' = Start /\ (changing => At(cwd, BasePath) = Start)
      BY <3>1, SameCall DEF ChangesDirectory, Start
    <3>3. \A i \in NextBatch : ChangesDirectory(ResolverOf(i)) <=> changing
      BY DEF NextBatch
    <3>4. \A i \in todo' : ChangesDirectory(ResolverOf(i))' <=> changing
      BY <3>1, <3>3 DEF ChangesDirectory, ResolverOf, BasePath
    <3> HIDE DEF changing
    <3> QED BY <3>1, <3>2, <3>4 DEF Placed
  <2> QED BY <2>1, <2>2
<1>2. CASE EndBatch
  <2>1. cwd' = atCall.cwd
    BY <1>0, <1>2 DEF EndBatch, Placed
  <2> QED BY <1>2, <2>1 DEF EndBatch, Placed
<1>3. CASE Return
  BY <1>3, LeavePlaced DEF Return, Placed
<1>4. CASE BeginFiles
  BY <1>4, SamePlaced DEF BeginFiles, AtUri
<1>5. CASE HashFile
  <2>1. CASE Raise("PrefixError") \/ Raise("OSError")
    BY <1>5, <2>1, RaisePlaced DEF HashFile, Exceptions
  <2>2. CASE ~ (Raise("PrefixError") \/ Raise("OSError"))
    BY <1>5, <2>2, SamePlaced DEF HashFile
  <2> QED BY <2>1, <2>2
<1>6. CASE EndFiles
  BY <1>6, SamePlaced DEF EndFiles
<1>7. CASE HashCommit
  <2>1. CASE Raise("OSError")
    BY <1>7, <2>1, RaisePlaced DEF HashCommit, AtUri, Exceptions
  <2>2. CASE ~ Raise("OSError")
    <3>1. /\ pc' = "uri" /\ pc = "uri" /\ todo' \subseteq todo
          /\ UNCHANGED <<call, atCall, registry, cwd, original_cwd>>
      BY <1>7, <2>2 DEF HashCommit, AtUri, Record
    <3> QED BY <3>1, SamePlaced
  <2> QED BY <2>1, <2>2
<1>8. CASE BeginDirectory
  <2>1. CASE Raise("ValueError")
    BY <1>8, <2>1, RaisePlaced DEF BeginDirectory, AtUri, Exceptions
  <2>2. CASE ~ Raise("ValueError")
    <3>1. /\ pc = "uri" /\ pc' = "dir" /\ original_cwd' = cwd /\ cwd' = At(cwd, Uri.path)
          /\ todo # {} /\ ResolverOf(First(todo)) = "dir"
          /\ UNCHANGED <<call, atCall, registry, todo>>
      BY <1>8, <2>2 DEF BeginDirectory, AtUri
    <3>2. First(todo) \in todo
      BY <3>1, ArtifactsType DEF Typed
    <3>3. cwd = atCall.cwd /\ \A i \in todo : ~ChangesDirectory(ResolverOf(i))
      BY <3>1, <3>2 DEF Placed, ChangesDirectory
    <3> QED BY <3>1, <3>3 DEF Placed, ChangesDirectory, ResolverOf, BasePath, Uri
  <2> QED BY <2>1, <2>2
<1>9. CASE HashInDirectory
  <2>1. CASE Raise("OSError")
    BY <1>9, <2>1, RaisePlaced DEF HashInDirectory, Exceptions
  <2>2. CASE ~ Raise("OSError")
    BY <1>9, <2>2 DEF HashInDirectory, Placed, ChangesDirectory, ResolverOf, BasePath, Uri
  <2> QED BY <2>1, <2>2
<1>10. CASE EndDirectory
  <2>1. CASE Leave("PrefixError")
    BY <1>10, <2>1, LeavePlaced DEF EndDirectory, Placed
  <2>2. CASE ~ Leave("PrefixError")
    <3>1. /\ pc = "dir" /\ pc' = "uri" /\ cwd' = original_cwd /\ original_cwd' = << >>
          /\ todo' \subseteq todo /\ UNCHANGED <<call, atCall, registry>>
      BY <1>10, <2>2 DEF EndDirectory, Record
    <3> QED BY <3>1 DEF Placed, ChangesDirectory, ResolverOf, BasePath
  <2> QED BY <2>1, <2>2
<1>11. CASE HashCustom
  <2>1. /\ pc' = "uri" /\ pc = "uri" /\ todo' \subseteq todo
        /\ UNCHANGED <<call, atCall, registry, cwd, original_cwd>>
    BY <1>11 DEF HashCustom, AtUri, Record
  <2> QED BY <2>1, SamePlaced
<1>12. CASE Register
  <2>1. /\ pc = "idle" /\ registry' \subseteq registry \cup {"custom"}
        /\ UNCHANGED <<call, atCall, cwd, pc, outcome>>
    BY <1>12 DEF Register
  <2>2. Start' = Start
    BY <2>1, SameCall
  <2>3. StaysPut'
    BY <2>1, <2>2 DEF Placed, StaysPut
  <2> QED BY <2>1, <2>3 DEF Placed
<1>13. CASE Change
  <2>1. pc # "idle" /\ UNCHANGED <<call, atCall, cwd, pc, original_cwd, todo, registry>>
    BY <1>13 DEF Change
  <2>2. Start' = Start
    BY <2>1, SameCall
  <2> QED BY <2>1, <2>2 DEF Placed, ChangesDirectory, ResolverOf, BasePath, Uri
<1>14. ASSUME NEW c \in Calls, Call(c) PROVE Placed'
  <2>1. CASE pc' = "idle"
    <3>1. StaysPut'
      BY <1>14, <2>1 DEF Call, StaysPut, Exceptions
    <3> QED BY <2>1, <3>1 DEF Placed
  <2>2. CASE pc' # "idle"
    BY <1>14, <2>2 DEF Call, Placed
  <2> QED BY <2>1, <2>2
<1>15. CASE UNCHANGED vars
  <2>1. UNCHANGED <<call, atCall, cwd, pc, original_cwd, todo, registry, outcome>>
    BY <1>15 DEF vars
  <2>2. Start' = Start
    BY <2>1, SameCall
  <2> QED BY <2>1, <2>2 DEF Placed, StaysPut, ChangesDirectory, ResolverOf, BasePath, Uri
<1> QED BY <1>1, <1>2, <1>3, <1>4, <1>5, <1>6, <1>7, <1>8, <1>9, <1>10, <1>11, <1>12,
           <1>13, <1>14, <1>15 DEF Next, Step


-----------------------------------------------------------------------------
(* Batches have nothing in common *)

LEMMA LeaveApart ==
  ASSUME Apart, NEW how, Leave(how), artifact_hashes' = artifact_hashes
  PROVE  Apart'
BY EmptyDict DEF Leave, Apart

\* Within a batch, with nothing new or with entries of the batch's resolver.
LEMMA SameApart ==
  ASSUME Apart, UNCHANGED <<call, registry, waiting, artifact_hashes, hashes>>,
         todo' \subseteq todo
  PROVE  Apart'
BY DEF Apart, ResolverOf

LEMMA AddedApart ==
  ASSUME Base, UNCHANGED <<call, registry, waiting, artifact_hashes>>,
         todo # {}, todo' \subseteq todo,
         NEW key, key.scheme \in Schemes, ResolverFor(key.scheme) = ResolverOf(First(todo)),
         DOMAIN hashes' = DOMAIN hashes \cup {key}
  PROVE  Apart'
<1>1. First(todo) \in todo
  BY ArtifactsType DEF Base, Typed
<1>2. \A i : ResolverOf(i)' = ResolverOf(i)
  BY DEF ResolverOf
<1>3. /\ \A i \in waiting : ResolverOf(i) # ResolverFor(key.scheme)
      /\ \A m \in DOMAIN artifact_hashes : ResolverFor(key.scheme) # ResolverFor(m.scheme)
  BY <1>1 DEF Base, Apart
<1>4. \A n \in DOMAIN hashes' :
        /\ n.scheme \in Schemes
        /\ \A i \in waiting : ResolverOf(i) # ResolverFor(n.scheme)
        /\ \A m \in DOMAIN artifact_hashes : ResolverFor(n.scheme) # ResolverFor(m.scheme)
  BY <1>3 DEF Base, Apart
<1> QED BY <1>2, <1>4 DEF Base, Apart

LEMMA RecordApart ==
  ASSUME Base, NEW key, NEW hash, Record(key, hash), registry' = registry, todo # {},
         key.scheme \in Schemes, ResolverFor(key.scheme) = ResolverOf(First(todo))
  PROVE  Apart'
<1>1. /\ todo' \subseteq todo /\ DOMAIN hashes' = DOMAIN hashes \cup {key}
      /\ UNCHANGED <<call, registry, waiting, artifact_hashes>>
  BY WithDict DEF Record
<1> QED BY <1>1, AddedApart

LEMMA NextApart ==
  ASSUME Base, [Next]_vars
  PROVE  Apart'
<1> USE DEF Base, system, job
<1>1. CASE BeginBatch
  <2>1. CASE Raise("OSError")
    BY <2>1, LeaveApart DEF Raise
  <2>2. CASE ~ Raise("OSError")
    <3>1. /\ todo' = NextBatch /\ waiting' = waiting \ NextBatch /\ hashes' = << >>
          /\ UNCHANGED <<call, registry, artifact_hashes>>
      BY <1>1, <2>2 DEF BeginBatch
    <3>2. \A i : ResolverOf(i)' = ResolverOf(i)
      BY <3>1 DEF ResolverOf
    <3> QED BY <3>1, <3>2, EmptyDict DEF Apart, NextBatch
  <2> QED BY <2>1, <2>2
<1>2. CASE EndBatch
  <2>1. /\ todo = {} /\ todo' = {} /\ hashes' = << >> /\ UNCHANGED <<call, registry, waiting>>
        /\ DOMAIN artifact_hashes' = DOMAIN artifact_hashes \cup DOMAIN hashes
    BY <1>2, UpdatedDict DEF EndBatch
  <2>2. \A i : ResolverOf(i)' = ResolverOf(i)
    BY <2>1 DEF ResolverOf
  <2> QED BY <2>1, <2>2, EmptyDict DEF Apart
<1>3. CASE Return
  BY <1>3, LeaveApart DEF Return
<1>4. CASE BeginFiles
  BY <1>4, SameApart DEF BeginFiles
<1>5. CASE HashFile
  <2>1. CASE Raise("PrefixError") \/ Raise("OSError")
    BY <2>1, LeaveApart DEF Raise
  <2>2. CASE ~ (Raise("PrefixError") \/ Raise("OSError"))
    <3>1. UNCHANGED <<call, registry, waiting, artifact_hashes, todo>>
      BY <1>5, <2>2 DEF HashFile
    <3>2. PICK p \in pending :
            hashes' = IF IsFile(At(cwd, p)) THEN With(hashes, Key(Uri.scheme, p), tree[At(cwd, p)])
                      ELSE hashes
      BY <1>5, <2>2 DEF HashFile
    <3>3. /\ todo # {} /\ ResolverOf(First(todo)) = "file"
          /\ Uri.scheme \in {"", "file"}
      <4>1. pc = "files" /\ pending # {}
        BY <1>5, <3>2 DEF HashFile
      <4> QED BY <4>1 DEF Cleared
    <3>4. CASE IsFile(At(cwd, p))
      <4>1. DOMAIN hashes' = DOMAIN hashes \cup {Key(Uri.scheme, p)}
        BY <3>2, <3>4, WithDict
      <4>2. /\ Key(Uri.scheme, p).scheme \in Schemes
            /\ ResolverFor(Key(Uri.scheme, p).scheme) = ResolverOf(First(todo))
        BY <3>3 DEF Key, Schemes, BuiltIn, ResolverFor
      <4> QED BY <3>1, <3>3, <4>1, <4>2, AddedApart
    <3>5. CASE ~ IsFile(At(cwd, p))
      BY <3>1, <3>2, <3>5, SameApart
    <3> QED BY <3>4, <3>5
  <2> QED BY <2>1, <2>2
<1>6. CASE EndFiles
  BY <1>6, SameApart DEF EndFiles
<1>7. CASE HashCommit
  <2>1. CASE Raise("OSError")
    BY <2>1, LeaveApart DEF Raise
  <2>2. CASE ~ Raise("OSError")
    <3> DEFINE key == [scheme |-> "ostree", path |-> Uri.path]
    <3>1. /\ Record(key, tree[At(cwd, RefPath(Uri.path))])
          /\ todo # {} /\ ResolverOf(First(todo)) = "ostree"
      BY <1>7, <2>2 DEF HashCommit, AtUri
    <3>2. key.scheme \in Schemes /\ ResolverFor(key.scheme) = "ostree"
      BY DEF Schemes, BuiltIn, ResolverFor
    <3>3. registry' = registry
      BY <3>1 DEF Record
    <3> HIDE DEF key
    <3> QED BY <3>1, <3>2, <3>3, RecordApart
  <2> QED BY <2>1, <2>2
<1>8. CASE BeginDirectory
  <2>1. CASE Raise("ValueError")
    BY <2>1, LeaveApart DEF Raise
  <2>2. CASE ~ Raise("ValueError")
    BY <1>8, <2>2, SameApart DEF BeginDirectory
  <2> QED BY <2>1, <2>2
<1>9. CASE HashInDirectory
  <2>1. CASE Raise("OSError")
    BY <2>1, LeaveApart DEF Raise
  <2>2. CASE ~ Raise("OSError")
    BY <1>9, <2>2, SameApart DEF HashInDirectory
  <2> QED BY <2>1, <2>2
<1>10. CASE EndDirectory
  <2>1. CASE Leave("PrefixError") /\ artifact_hashes' = artifact_hashes
    BY <2>1, LeaveApart
  <2>2. CASE ~ (Leave("PrefixError") /\ artifact_hashes' = artifact_hashes)
    <3> DEFINE key == Key("dir", Uri.path)
    <3>1. Record(key, file_hashes)
      BY <1>10, <2>2 DEF EndDirectory
    <3>2. todo # {} /\ ResolverOf(First(todo)) = "dir"
      BY <1>10 DEF EndDirectory, Cleared
    <3>3. key.scheme \in Schemes /\ ResolverFor(key.scheme) = "dir"
      BY DEF Key, Schemes, BuiltIn, ResolverFor
    <3>4. registry' = registry
      BY <3>1 DEF Record
    <3> HIDE DEF key
    <3> QED BY <3>1, <3>2, <3>3, <3>4, RecordApart
  <2> QED BY <2>1, <2>2
<1>11. CASE HashCustom
  <2> DEFINE key == [scheme |-> "custom", path |-> Uri.path]
  <2>1. Record(key, "custom") /\ todo # {} /\ ResolverOf(First(todo)) = "custom"
    BY <1>11 DEF HashCustom, AtUri
  <2>2. key.scheme \in Schemes /\ ResolverFor(key.scheme) = "custom"
    BY DEF Schemes, BuiltIn, ResolverFor
  <2>3. registry' = registry
    BY <2>1 DEF Record
  <2> HIDE DEF key
  <2> QED BY <2>1, <2>2, <2>3, RecordApart
<1>12. CASE Register
  BY <1>12, EmptyDict DEF Register, Apart, Cleared
<1>13. CASE Change
  BY <1>13, SameApart DEF Change
<1>14. ASSUME NEW c \in Calls, Call(c) PROVE Apart'
  BY <1>14, EmptyDict DEF Call, Apart, Cleared
<1>15. CASE UNCHANGED vars
  BY <1>15, SameApart DEF vars
<1> QED BY <1>1, <1>2, <1>3, <1>4, <1>5, <1>6, <1>7, <1>8, <1>9, <1>10, <1>11, <1>12,
           <1>13, <1>14, <1>15 DEF Next, Step


-----------------------------------------------------------------------------
(* What a call should record *)

\* It does not change while the call lasts.
LEMMA SameFiles ==
  ASSUME UNCHANGED <<call, atCall>>
  PROVE  /\ \A scheme, p : Key(scheme, p)' = Key(scheme, p)
         /\ \A d, p : FilesOf(d, p)' = FilesOf(d, p)
BY DEF Key, FilesOf, Excluded

LEMMA SameEntries ==
  ASSUME UNCHANGED <<call, atCall>>, NEW uri
  PROVE  EntriesOf(uri)' = EntriesOf(uri)
<1>1. /\ \A scheme, p : Key(scheme, p)' = Key(scheme, p)
      /\ \A d, p : FilesOf(d, p)' = FilesOf(d, p)
      /\ Start' = Start
  BY SameFiles, SameCall
<1> QED BY <1>1 DEF EntriesOf

LEMMA SameUri ==
  ASSUME UNCHANGED <<call, atCall, todo>>
  PROVE  Uri' = Uri /\ Files' = Files /\ Inside' = Inside
<1>1. \A d, p : FilesOf(d, p)' = FilesOf(d, p)
  BY SameFiles
<1>2. Uri' = Uri /\ Start' = Start
  BY SameCall DEF Uri
<1> QED BY <1>1, <1>2 DEF Files, FilesFor, Inside

LEMMA SameExpected ==
  ASSUME UNCHANGED <<call, atCall>>
  PROVE  Expected' = Expected /\ (Done' = Done => DoneEntries' = DoneEntries)
<1>1. \A uri : EntriesOf(uri)' = EntriesOf(uri)
  BY SameEntries
<1> QED BY <1>1 DEF Expected, DoneEntries


-----------------------------------------------------------------------------
(* The files below a directory *)

\* What is below an excluded directory is excluded.
LEMMA ExcludedBelow ==
  ASSUME NEW p \in Path, NEW rest \in Path, Excluded(p)
  PROVE  Excluded(p \o rest)
<1>1. p \in Seq(Names) /\ rest \in Seq(Names) /\ Len(p) \in Nat /\ Len(rest) \in Nat
  BY LenProperties DEF Path
<1>2. PICK i \in 1 .. Len(p) : SubSeq(p, 1, i) \in call.exclude_patterns
  BY DEF Excluded
<1>3. Len(p \o rest) = Len(p) + Len(rest)
  BY <1>1, ConcatProperties
<1>4. SubSeq(p \o rest, 1, i) = SubSeq(p, 1, i)
  BY <1>1, SubSeqOfConcat1
<1>5. i \in 1 .. Len(p \o rest)
  BY <1>1, <1>3
<1> QED BY <1>2, <1>4, <1>5 DEF Excluded

LEMMA BelowFacts ==
  ASSUME NEW files \in SUBSET Places, NEW d \in Dirs, NEW p \in Path,
         NEW q \in FilesBelow(files, d, p)
  PROVE  /\ At(d, q) \in files /\ At(d, p) \in Dirs
         /\ Excluded(p) => Excluded(q)
         /\ p = << >> => At(d, q) = d \o q
<1>1. PICK f \in files : /\ Seqs!IsStrictPrefix(At(d, p), f)
                         /\ q = p \o SubSeq(f, Len(At(d, p)) + 1, Len(f))
  BY DEF FilesBelow
<1> DEFINE rest == SubSeq(f, Len(At(d, p)) + 1, Len(f))
<1>2. rest \in Path /\ At(d, p \o rest) = f /\ At(d, p) \in Dirs
  BY <1>1, FoundFile
<1>3. Excluded(p) => Excluded(p \o rest)
  BY <1>2, ExcludedBelow
<1>4. p = << >> => At(d, p \o rest) = d \o (p \o rest)
  <2> SUFFICES ASSUME p = << >> PROVE f = d \o (p \o rest)
    BY <1>2
  <2>1. d \in Seq(Names) /\ rest \in Seq(Names)
    BY <1>2, DirFacts DEF Path
  <2>2. At(d, p) = d /\ p \o rest = rest
    BY <2>1, ConcatEmptySeq DEF At
  <2>3. f \in Seq(Names)
    BY <1>1, PlaceFacts DEF Path
  <2>4. d \o SubSeq(f, Len(d) + 1, Len(f)) = f
    BY <1>1, <2>1, <2>2, <2>3, Prefixed
  <2> QED BY <2>2, <2>4
<1> QED BY <1>1, <1>2, <1>3, <1>4

LEMMA FilesFound ==
  ASSUME IsFiles(atCall.tree), NEW d \in Dirs, NEW p \in Path
  PROVE  /\ \A q \in FilesOf(d, p) : At(d, q) \in DOMAIN atCall.tree
         /\ Excluded(p) => FilesOf(d, p) = {}
<1>1. DOMAIN atCall.tree \subseteq Places
  BY DEF IsFiles
<1>2. \A q \in FilesBelow(DOMAIN atCall.tree, d, p) :
        At(d, q) \in DOMAIN atCall.tree /\ (Excluded(p) => Excluded(q))
  BY <1>1, BelowFacts
<1> QED BY <1>2 DEF FilesOf

\* FileResolver finds what it should.
LEMMA WantedFiles ==
  ASSUME Typed, tree = atCall.tree, cwd = Start, NEW uri, uri.path \in Path
  PROVE  Wanted(uri) = FilesFor(uri)
<1> DEFINE p == uri.path
           below == FilesBelow(DOMAIN tree, cwd, p)
<1>1. p \in Path /\ cwd \in Dirs /\ DOMAIN tree \in SUBSET Places
  BY DEF Typed, IsFiles
<1>2. CASE uri.scheme \notin {"", "file"}
  BY <1>2 DEF Wanted, FilesFor
<1>3. CASE uri.scheme \in {"", "file"} /\ Excluded(p)
  BY <1>1, <1>3, FilesFound DEF Wanted, FilesFor, Typed
<1>4. CASE uri.scheme \in {"", "file"} /\ ~Excluded(p)
  <2>1. FilesFor(uri) = {q \in IF At(cwd, p) \in DOMAIN tree THEN {p} ELSE below : ~Excluded(q)}
    BY <1>4 DEF FilesFor, FilesOf
  <2>2. CASE IsFile(At(cwd, p))
    BY <1>4, <2>1, <2>2 DEF Wanted, IsFile
  <2>3. CASE ~IsFile(At(cwd, p)) /\ IsDir(At(cwd, p))
    BY <1>4, <2>1, <2>3 DEF Wanted, IsFile
  <2>4. CASE ~IsFile(At(cwd, p)) /\ ~IsDir(At(cwd, p))
    <3>1. below = {}
      BY <1>1, <2>4, BelowFacts DEF IsDir
    <3> HIDE DEF below
    <3> QED BY <1>4, <2>1, <2>4, <3>1 DEF Wanted, IsFile
  <2> QED BY <2>2, <2>3, <2>4
<1> QED BY <1>2, <1>3, <1>4

\* So does DirectoryResolver, which names files by their path in the directory.
LEMMA InsideFiles ==
  ASSUME IsFiles(atCall.tree), NEW d \in Dirs
  PROVE  /\ FilesOf(d, << >>) = {q \in FilesBelow(DOMAIN atCall.tree, d, << >>) : ~Excluded(q)}
         /\ \A q \in FilesOf(d, << >>) : At(d, q) \in DOMAIN atCall.tree /\ At(d, q) = d \o q
<1>1. << >> \in Path /\ DOMAIN atCall.tree \in SUBSET Places
  BY DEF Path, IsFiles
<1>2. At(d, << >>) = d
  BY DirFacts, ConcatEmptySeq DEF At, Path
<1>3. d \notin DOMAIN atCall.tree
  BY <1>1, PlaceFacts
<1>4. FilesOf(d, << >>) = {q \in FilesBelow(DOMAIN atCall.tree, d, << >>) : ~Excluded(q)}
  BY <1>2, <1>3 DEF FilesOf
<1>5. \A q \in FilesBelow(DOMAIN atCall.tree, d, << >>) :
        At(d, q) \in DOMAIN atCall.tree /\ At(d, q) = d \o q
  BY <1>1, BelowFacts
<1> QED BY <1>4, <1>5


-----------------------------------------------------------------------------
(* Resolvers and the entries they make *)

LEMMA Dispatched ==
  ASSUME Base, pc # "idle", NEW i \in DOMAIN call.artifacts
  PROVE  LET uri == call.artifacts[i]
         IN  /\ ResolverOf(i) # "file" => uri.scheme = ResolverOf(i)
             /\ ResolverOf(i) = "custom" => "custom" \in atCall.registry
             /\ ResolverOf(i) = "file" /\ uri.scheme \notin {"", "file"} =>
                  uri.scheme = "custom" /\ "custom" \notin atCall.registry
<1>1. registry = atCall.registry \cup BuiltIn /\ call.artifacts[i].scheme \in Schemes
  BY ArtifactsType DEF Base, Placed, Typed
<1> QED BY <1>1 DEF ResolverOf, ForUri, Schemes, BuiltIn

\* FileResolver and OSTreeResolver work in the base path.
LEMMA AtStart ==
  ASSUME Base, pc \in {"uri", "files"}, todo # {}, ResolverOf(First(todo)) \in {"file", "ostree"}
  PROVE  cwd = Start
<1>1. First(todo) \in todo
  BY ArtifactsType DEF Base, Typed
<1>2. CASE ChangesDirectory(ResolverOf(First(todo)))
  BY <1>1, <1>2 DEF Base, Placed
<1>3. CASE ~ChangesDirectory(ResolverOf(First(todo)))
  <2>1. cwd = atCall.cwd
    BY <1>1, <1>3 DEF Base, Placed
  <2>2. BasePath = << >>
    BY <1>3 DEF ChangesDirectory
  <2> QED BY <2>1, <2>2 DEF Start
<1> QED BY <1>2, <1>3

\* What is recorded under a name that no prefix was stripped from.
ValueOf(n) ==
  CASE n.scheme \in {"", "file"} -> atCall.tree[At(Start, n.path)]
    [] n.scheme = "ostree" -> atCall.tree[At(Start, RefPath(n.path))]
    [] n.scheme = "dir" -> [q \in FilesOf(At(Start, n.path), << >>) |->
                              atCall.tree[At(Start, n.path) \o q]]
    [] n.scheme = "custom" -> "custom"

LEMMA KeyUnstripped ==
  ASSUME call.lstrip_paths = << >>, NEW scheme, NEW p
  PROVE  Key(scheme, p) = [scheme |-> scheme, path |-> p]
BY DEF Key, Stripped

LEMMA EntryValue ==
  ASSUME NEW uri, uri.scheme \in Schemes, NEW e \in EntriesOf(uri)
  PROVE  /\ e[1].scheme = uri.scheme
         /\ \/ call.lstrip_paths = << >>
            \/ uri.scheme \in {"ostree", "custom"}
            => e[2] = ValueOf(e[1])
<1>1. CASE uri.scheme \in {"", "file"}
  <2>1. PICK q \in FilesOf(Start, uri.path) :
          e = <<Key(uri.scheme, q), atCall.tree[At(Start, q)]>>
    BY <1>1 DEF EntriesOf
  <2>2. Key(uri.scheme, q).scheme = uri.scheme
    BY DEF Key
  <2>3. call.lstrip_paths = << >> => Key(uri.scheme, q).path = q
    BY KeyUnstripped
  <2> QED BY <1>1, <2>1, <2>2, <2>3 DEF ValueOf
<1>2. CASE uri.scheme = "ostree"
  <2> DEFINE n == [scheme |-> "ostree", path |-> uri.path]
             hash == atCall.tree[At(Start, RefPath(uri.path))]
  <2>1. e = <<n, hash>>
    BY <1>2 DEF EntriesOf
  <2>2. n.scheme = "ostree" /\ ValueOf(n) = hash
    BY DEF ValueOf
  <2> HIDE DEF n, hash
  <2> QED BY <1>2, <2>1, <2>2
<1>3. CASE uri.scheme = "dir"
  <2> DEFINE d == At(Start, uri.path)
             hash == [q \in FilesOf(d, << >>) |-> atCall.tree[d \o q]]
  <2>1. e = <<Key("dir", uri.path), hash>>
    BY <1>3 DEF EntriesOf
  <2>2. Key("dir", uri.path).scheme = "dir"
    BY DEF Key
  <2>3. call.lstrip_paths = << >> => Key("dir", uri.path).path = uri.path
    BY KeyUnstripped
  <2>4. \A n : n.scheme = "dir" /\ n.path = uri.path => ValueOf(n) = hash
    BY DEF ValueOf
  <2> HIDE DEF hash
  <2> QED BY <1>3, <2>1, <2>2, <2>3, <2>4
<1>4. CASE uri.scheme = "custom"
  <2> DEFINE n == [scheme |-> "custom", path |-> uri.path]
  <2>1. e = <<n, "custom">>
    BY <1>4 DEF EntriesOf
  <2>2. n.scheme = "custom" /\ ValueOf(n) = "custom"
    BY DEF ValueOf
  <2> HIDE DEF n
  <2> QED BY <1>4, <2>1, <2>2
<1> QED BY <1>1, <1>2, <1>3, <1>4 DEF Schemes, BuiltIn

\* A name recorded before has the value it is recorded with again.
LEMMA KnownValue ==
  ASSUME Typed, Pairs(hashes) \subseteq Expected, NEW key \in DOMAIN hashes,
         call.lstrip_paths = << >> \/ key.scheme \in {"ostree", "custom"}
  PROVE  hashes[key] = ValueOf(key)
<1> DEFINE e == <<key, hashes[key]>>
<1>1. e \in Expected
  BY DEF Pairs
<1>2. PICK i \in DOMAIN call.artifacts : e \in EntriesOf(call.artifacts[i])
  BY <1>1 DEF Expected
<1>3. call.artifacts[i].scheme \in Schemes
  BY ArtifactsType DEF Typed
<1>4. e[1] = key /\ e[2] = hashes[key]
  OBVIOUS
<1> HIDE DEF e
<1>5. e[1].scheme = call.artifacts[i].scheme
  BY <1>2, <1>3, EntryValue
<1> QED BY <1>2, <1>3, <1>4, <1>5, EntryValue

\* The current artifact is finished with.
LEMMA DoneNext ==
  ASSUME Base, todo # {}, todo' = todo \ {First(todo)}, UNCHANGED <<call, atCall, waiting>>
  PROVE  DoneEntries' = DoneEntries \cup EntriesOf(Uri)
<1>1. First(todo) \in todo /\ First(todo) \in DOMAIN call.artifacts
  BY ArtifactsType DEF Base, Typed
<1>2. First(todo) \notin waiting
  BY <1>1 DEF Base, Apart
<1>3. Done' = Done \cup {First(todo)}
  BY <1>1, <1>2 DEF Done, Base, Typed
<1>4. \A uri : EntriesOf(uri)' = EntriesOf(uri)
  BY SameEntries
<1>5. DoneEntries' = UNION {EntriesOf(call.artifacts[i]) : i \in Done \cup {First(todo)}}
  BY <1>3, <1>4 DEF DoneEntries
<1> QED BY <1>5 DEF DoneEntries, Uri

LEMMA DoneExpected ==
  DoneEntries \subseteq Expected
BY DEF DoneEntries, Expected, Done


-----------------------------------------------------------------------------
(* What is recorded *)

LEMMA SameSteady ==
  ASSUME UNCHANGED <<call, calm>>
  PROVE  Steady' = Steady
<1>1. \A uri : Based(uri)' = Based(uri)
  BY DEF Based, BasePath
<1> QED BY <1>1 DEF Steady

LEMMA LeaveExact ==
  ASSUME Exact, NEW how \in Exceptions, Leave(how)
  PROVE  Exact'
BY DEF Exact, Leave, RecordsExactly, Exceptions, system

LEMMA RaiseExact ==
  ASSUME Exact, NEW how \in Exceptions, Raise(how)
  PROVE  Exact'
BY LeaveExact DEF Raise

\* Between artifacts nothing is lost.
LEMMA KeptExact ==
  ASSUME Exact, UNCHANGED <<system, call, atCall>>, Done' = Done,
         pc \in {"batch", "uri"}, pc' \in {"batch", "uri"},
         Pairs(artifact_hashes') \cup Pairs(hashes') = Pairs(artifact_hashes) \cup Pairs(hashes)
  PROVE  Exact'
<1>1. UNCHANGED <<tree, calm>> /\ Steady' = Steady
  BY SameSteady DEF system
<1>2. DoneEntries' = DoneEntries
  BY SameExpected
<1> QED BY <1>1, <1>2 DEF Exact, RecordsExactly

\* An artifact that is one entry has been recorded.
LEMMA RecordExact ==
  ASSUME Base, Exact, todo # {}, NEW key, NEW hash, Record(key, hash),
         Steady => /\ Pairs(artifact_hashes) \cup Pairs(hashes) = DoneEntries
                   /\ key \in DOMAIN hashes => hashes[key] = hash
                   /\ EntriesOf(Uri) = {<<key, hash>>}
  PROVE  Exact'
<1>1. /\ UNCHANGED <<tree, calm, call, atCall, waiting, artifact_hashes>>
      /\ pc' = "uri" /\ todo' = todo \ {First(todo)} /\ hashes' = With(hashes, key, hash)
  BY DEF Record, system
<1>2. Steady' = Steady /\ DoneEntries' = DoneEntries \cup EntriesOf(Uri)
  BY <1>1, SameSteady, DoneNext
<1>3. Steady => Pairs(artifact_hashes') \cup Pairs(hashes') = DoneEntries'
  <2>1. Steady => Pairs(With(hashes, key, hash)) = Pairs(hashes) \cup {<<key, hash>>}
    BY WithPairs
  <2> QED BY <1>1, <1>2, <2>1
<1> QED BY <1>1, <1>2, <1>3 DEF Exact, RecordsExactly

LEMMA FileEntriesExpected ==
  ASSUME Base, pc = "files"
  PROVE  /\ FileEntries \subseteq Expected
         /\ pending = {} => FileEntries = EntriesOf(Uri)
<1>1. /\ First(todo) \in DOMAIN call.artifacts
      /\ ResolverOf(First(todo)) = "file"
  BY ArtifactsType DEF Base, Typed, Cleared
<1>2. CASE Uri.scheme \in {"", "file"}
  <2>1. EntriesOf(Uri) = {<<Key(Uri.scheme, q), atCall.tree[At(Start, q)]>> : q \in Files}
    BY <1>2 DEF EntriesOf, Files, FilesFor
  <2>2. EntriesOf(Uri) \subseteq Expected
    BY <1>1 DEF Expected, Uri
  <2> QED BY <2>1, <2>2 DEF FileEntries
<1>3. CASE Uri.scheme \notin {"", "file"}
  <2>1. Uri.scheme = "custom" /\ "custom" \notin atCall.registry
    BY <1>1, <1>3, Dispatched DEF Uri
  <2>2. EntriesOf(Uri) = {}
    BY <2>1 DEF EntriesOf
  <2>3. FileEntries = {}
    BY <1>3 DEF FileEntries, Files, FilesFor
  <2> QED BY <2>2, <2>3
<1> QED BY <1>2, <1>3

LEMMA BeginFilesExact ==
  ASSUME Base, Exact, BeginFiles
  PROVE  Exact'
<1>1. /\ UNCHANGED <<tree, calm, call, atCall, waiting, todo, artifact_hashes, hashes>>
      /\ pc = "uri" /\ pc' = "files" /\ pending' = Wanted(Uri)
      /\ todo # {} /\ ResolverOf(First(todo)) = "file"
  BY DEF BeginFiles, AtUri, system
<1>2. Steady' = Steady /\ Files' = Files /\ DoneEntries' = DoneEntries
  BY <1>1, SameSteady, SameUri, SameExpected DEF Done
<1>3. Steady => pending' = Files
  <2>1. Uri.path \in Path
    BY <1>1, ArtifactsType DEF Base, Typed, Uri
  <2>2. cwd = Start
    BY <1>1, AtStart
  <2>3. Steady => tree = atCall.tree
    BY DEF Exact, Steady
  <2> QED BY <1>1, <2>1, <2>2, <2>3, WantedFiles DEF Base, Files
<1>4. Steady => FileEntries' = {}
  BY <1>2, <1>3 DEF FileEntries
<1>5. Steady => Pairs(artifact_hashes') \cup Pairs(hashes') = DoneEntries'
  BY <1>1, <1>2 DEF Exact
<1> QED BY <1>1, <1>2, <1>3, <1>4, <1>5 DEF Exact, RecordsExactly

LEMMA HashFileExact ==
  ASSUME Base, Exact, HashFile
  PROVE  Exact'
<1>1. CASE Raise("PrefixError") \/ Raise("OSError")
  BY <1>1, RaiseExact DEF Exceptions
<1>2. CASE ~ (Raise("PrefixError") \/ Raise("OSError"))
  <2>1. PICK p \in pending :
          /\ IsFile(At(cwd, p)) => ~FileDuplicate(p)
          /\ pending' = pending \ {p}
          /\ hashes' = IF IsFile(At(cwd, p)) THEN With(hashes, Key(Uri.scheme, p), tree[At(cwd, p)])
                       ELSE hashes
    BY <1>2 DEF HashFile
  <2>2. /\ UNCHANGED <<tree, calm, call, atCall, waiting, todo, artifact_hashes>>
        /\ pc = "files" /\ pc' = "files"
    BY <1>2 DEF HashFile, system
  <2>3. Steady' = Steady /\ Files' = Files /\ DoneEntries' = DoneEntries
    BY <2>2, SameSteady, SameUri, SameExpected DEF Done
  <2> DEFINE key == Key(Uri.scheme, p)
             hash == atCall.tree[At(Start, p)]
  <2>4. ASSUME Steady
        PROVE  /\ pending' \subseteq Files'
               /\ Pairs(artifact_hashes') \cup Pairs(hashes') = DoneEntries' \cup FileEntries'
    <3>1. /\ pending \subseteq Files /\ tree = atCall.tree
          /\ Pairs(artifact_hashes) \cup Pairs(hashes) = DoneEntries \cup FileEntries
      BY <2>2, <2>4 DEF Exact, Steady
    <3>2. /\ todo # {} /\ ResolverOf(First(todo)) = "file" /\ Uri.scheme \in {"", "file"}
          /\ First(todo) \in DOMAIN call.artifacts /\ Uri.path \in Path
      <4>1. pending # {}
        BY <2>1
      <4> QED BY <2>2, <4>1, ArtifactsType DEF Base, Typed, Cleared, Uri
    <3>3. cwd = Start /\ cwd \in Dirs
      BY <2>2, <3>2, AtStart DEF Base, Typed
    <3>4. IsFile(At(cwd, p))
      <4>1. p \in FilesOf(Start, Uri.path)
        BY <2>1, <3>1, <3>2 DEF Files, FilesFor
      <4> QED BY <3>1, <3>2, <3>3, <4>1, FilesFound DEF Base, Typed, IsFile
    <3>5. hashes' = With(hashes, key, hash)
      BY <2>1, <3>1, <3>3, <3>4
    <3>6. key \in DOMAIN hashes => hashes[key] = hash
      <4>1. CASE call.lstrip_paths # << >>
        <5>1. Uri.scheme = ""
          BY <2>4, <3>2, <4>1 DEF Steady, Uri
        <5> QED BY <2>1, <3>4, <4>1, <5>1 DEF FileDuplicate
      <4>2. CASE call.lstrip_paths = << >>
        <5>1. Pairs(hashes) \subseteq Expected
          BY <2>2, <3>1, FileEntriesExpected, DoneExpected
        <5>2. key \in DOMAIN hashes => hashes[key] = ValueOf(key)
          <6> HIDE DEF key
          <6> QED BY <4>2, <5>1, KnownValue DEF Base
        <5>3. key.scheme \in {"", "file"} /\ key.path = p
          <6>1. key = [scheme |-> Uri.scheme, path |-> p]
            BY <4>2, KeyUnstripped
          <6> HIDE DEF key
          <6> QED BY <3>2, <6>1
        <5>4. ValueOf(key) = hash
          <6> HIDE DEF key
          <6> QED BY <5>3 DEF ValueOf
        <5> QED BY <5>2, <5>4
      <4> QED BY <4>1, <4>2
    <3>7. Pairs(hashes') = Pairs(hashes) \cup {<<key, hash>>}
      <4> HIDE DEF key, hash
      <4> QED BY <3>5, <3>6, WithPairs
    <3>8. FileEntries' = FileEntries \cup {<<key, hash>>}
      <4>1. Files' \ pending' = (Files \ pending) \cup {p}
        BY <2>1, <2>3, <3>1
      <4>2. Uri' = Uri /\ Start' = Start /\ \A scheme, q : Key(scheme, q)' = Key(scheme, q)
        BY <2>2, SameUri, SameCall, SameFiles
      <4>3. FileEntries' = {<<Key(Uri.scheme, q), atCall.tree[At(Start, q)]>> :
                              q \in (Files \ pending) \cup {p}}
        BY <2>2, <4>1, <4>2 DEF FileEntries
      <4> QED BY <4>3 DEF FileEntries
    <3> HIDE DEF key, hash
    <3> QED BY <2>1, <2>2, <2>3, <3>1, <3>7, <3>8
  <2> HIDE DEF key, hash
  <2> QED BY <2>2, <2>3, <2>4 DEF Exact, RecordsExactly
<1> QED BY <1>1, <1>2

LEMMA EndFilesExact ==
  ASSUME Base, Exact, EndFiles
  PROVE  Exact'
<1>1. /\ UNCHANGED <<tree, calm, call, atCall, waiting, artifact_hashes, hashes>>
      /\ pc = "files" /\ pc' = "uri" /\ pending = {} /\ todo' = todo \ {First(todo)}
  BY DEF EndFiles, system
<1>2. todo # {}
  BY <1>1 DEF Base, Cleared
<1>3. Steady' = Steady /\ DoneEntries' = DoneEntries \cup EntriesOf(Uri)
  BY <1>1, <1>2, SameSteady, DoneNext
<1>4. EntriesOf(Uri) = FileEntries
  BY <1>1, FileEntriesExpected
<1>5. Steady => Pairs(artifact_hashes') \cup Pairs(hashes') = DoneEntries'
  BY <1>1, <1>3, <1>4 DEF Exact
<1> QED BY <1>1, <1>3, <1>5 DEF Exact, RecordsExactly


LEMMA HashCommitExact ==
  ASSUME Base, Exact, HashCommit
  PROVE  Exact'
<1>1. CASE Raise("OSError")
  BY <1>1, RaiseExact DEF Exceptions
<1>2. CASE ~ Raise("OSError")
  <2> DEFINE key == [scheme |-> "ostree", path |-> Uri.path]
             hash == tree[At(cwd, RefPath(Uri.path))]
  <2>1. /\ Record(key, hash)
        /\ pc = "uri" /\ todo # {} /\ ResolverOf(First(todo)) = "ostree"
    BY <1>2 DEF HashCommit, AtUri
  <2>2. Uri.scheme = "ostree"
    <3>1. First(todo) \in DOMAIN call.artifacts
      BY <2>1, ArtifactsType DEF Base, Typed
    <3> QED BY <2>1, <3>1, Dispatched DEF Uri
  <2>3. cwd = Start
    BY <2>1, AtStart
  <2>4. ASSUME Steady
        PROVE  /\ Pairs(artifact_hashes) \cup Pairs(hashes) = DoneEntries
               /\ key \in DOMAIN hashes => hashes[key] = hash
               /\ EntriesOf(Uri) = {<<key, hash>>}
    <3>1. /\ Pairs(artifact_hashes) \cup Pairs(hashes) = DoneEntries
          /\ tree = atCall.tree
      BY <2>1, <2>4 DEF Exact, Steady
    <3>2. EntriesOf(Uri) = {<<key, hash>>}
      BY <2>2, <2>3, <3>1 DEF EntriesOf
    <3>3. key \in DOMAIN hashes => hashes[key] = hash
      <4>1. ValueOf(key) = hash
        BY <2>3, <3>1 DEF ValueOf
      <4>2. Pairs(hashes) \subseteq Expected /\ key.scheme = "ostree"
        BY <3>1, DoneExpected
      <4> HIDE DEF key, hash
      <4> QED BY <4>1, <4>2, KnownValue DEF Base
    <3> QED BY <3>1, <3>2, <3>3
  <2> HIDE DEF key, hash
  <2> QED BY <2>1, <2>4, RecordExact
<1> QED BY <1>1, <1>2

LEMMA HashCustomExact ==
  ASSUME Base, Exact, HashCustom
  PROVE  Exact'
<1> DEFINE key == [scheme |-> "custom", path |-> Uri.path]
<1>1. /\ Record(key, "custom")
      /\ pc = "uri" /\ todo # {} /\ ResolverOf(First(todo)) = "custom"
  BY DEF HashCustom, AtUri
<1>2. Uri.scheme = "custom" /\ "custom" \in atCall.registry
  <2>1. First(todo) \in DOMAIN call.artifacts
    BY <1>1, ArtifactsType DEF Base, Typed
  <2> QED BY <1>1, <2>1, Dispatched DEF Uri
<1>3. ASSUME Steady
      PROVE  /\ Pairs(artifact_hashes) \cup Pairs(hashes) = DoneEntries
             /\ key \in DOMAIN hashes => hashes[key] = "custom"
             /\ EntriesOf(Uri) = {<<key, "custom">>}
  <2>1. Pairs(artifact_hashes) \cup Pairs(hashes) = DoneEntries
    BY <1>1, <1>3 DEF Exact
  <2>2. EntriesOf(Uri) = {<<key, "custom">>}
    BY <1>2 DEF EntriesOf
  <2>3. key \in DOMAIN hashes => hashes[key] = "custom"
    <3>1. ValueOf(key) = "custom"
      BY DEF ValueOf
    <3>2. Pairs(hashes) \subseteq Expected /\ key.scheme = "custom"
      BY <2>1, DoneExpected
    <3> HIDE DEF key
    <3> QED BY <3>1, <3>2, KnownValue DEF Base
  <2> QED BY <2>1, <2>2, <2>3
<1> HIDE DEF key
<1> QED BY <1>1, <1>3, RecordExact

LEMMA BeginDirectoryExact ==
  ASSUME Base, Exact, BeginDirectory
  PROVE  Exact'
<1>1. CASE Raise("ValueError")
  BY <1>1, RaiseExact DEF Exceptions
<1>2. CASE ~ Raise("ValueError")
  <2> DEFINE d == At(cwd, Uri.path)
  <2>1. /\ UNCHANGED <<tree, calm, call, atCall, waiting, todo, artifact_hashes, hashes>>
        /\ pc = "uri" /\ pc' = "dir" /\ IsDir(d) /\ original_cwd' = cwd
        /\ pending' = {q \in FilesBelow(DOMAIN tree, d, << >>) : ~Excluded(q)}
        /\ file_hashes' = << >>
    BY <1>2 DEF BeginDirectory, AtUri, system
  <2>2. Steady' = Steady /\ Inside' = Inside /\ DoneEntries' = DoneEntries
    BY <2>1, SameSteady, SameUri, SameExpected DEF Done
  <2>3. cwd = atCall.cwd
    <3>1. todo # {} /\ ResolverOf(First(todo)) = "dir"
      BY DEF BeginDirectory, AtUri
    <3>2. First(todo) \in todo
      BY <3>1, ArtifactsType DEF Base, Typed
    <3> QED BY <2>1, <3>1, <3>2 DEF Base, Placed, ChangesDirectory
  <2>4. Steady => pending' = Inside
    <3>1. d \in Dirs /\ IsFiles(atCall.tree) /\ (Steady => tree = atCall.tree)
      BY <2>1 DEF Base, Typed, IsDir, Exact, Steady
    <3>2. Inside = FilesOf(d, << >>)
      BY <2>3 DEF Inside
    <3> HIDE DEF d
    <3> QED BY <2>1, <3>1, <3>2, InsideFiles
  <2> HIDE DEF d
  <2>5. Steady => file_hashes' = [q \in Inside' \ pending' |-> atCall'.tree[At(cwd', q)]]
    <3>1. Steady => Inside' \ pending' = {}
      BY <2>2, <2>4
    <3> QED BY <2>1, <3>1, EmptyDict
  <2>6. Steady => Pairs(artifact_hashes') \cup Pairs(hashes') = DoneEntries'
    BY <2>1, <2>2 DEF Exact
  <2> QED BY <2>1, <2>2, <2>4, <2>5, <2>6 DEF Exact, RecordsExactly
<1> QED BY <1>1, <1>2

LEMMA HashInDirectoryExact ==
  ASSUME Base, Exact, HashInDirectory
  PROVE  Exact'
<1>1. CASE Raise("OSError")
  BY <1>1, RaiseExact DEF Exceptions
<1>2. CASE ~ Raise("OSError")
  <2>1. PICK p \in pending :
          /\ pending' = pending \ {p}
          /\ file_hashes' = IF IsFile(At(cwd, p)) THEN With(file_hashes, p, tree[At(cwd, p)])
                            ELSE file_hashes
    BY <1>2 DEF HashInDirectory
  <2>2. /\ UNCHANGED <<tree, calm, call, atCall, cwd, waiting, todo, artifact_hashes, hashes>>
        /\ pc = "dir" /\ pc' = "dir"
    BY <1>2 DEF HashInDirectory, system
  <2>3. Steady' = Steady /\ Inside' = Inside /\ DoneEntries' = DoneEntries
    BY <2>2, SameSteady, SameUri, SameExpected DEF Done
  <2>4. ASSUME Steady
        PROVE  /\ pending' \subseteq Inside
               /\ file_hashes' = [q \in Inside \ pending' |-> atCall.tree[At(cwd, q)]]
    <3>1. /\ pending \subseteq Inside /\ tree = atCall.tree
          /\ file_hashes = [q \in Inside \ pending |-> atCall.tree[At(cwd, q)]]
      BY <2>2, <2>4 DEF Exact, Steady
    <3>2. Inside = FilesOf(cwd, << >>) /\ cwd \in Dirs /\ IsFiles(atCall.tree)
      BY <2>2 DEF Base, Placed, Typed, Inside
    <3>3. IsFile(At(cwd, p))
      BY <2>1, <3>1, <3>2, InsideFiles DEF IsFile
    <3>4. Inside \ pending' = (Inside \ pending) \cup {p}
      BY <2>1, <3>1
    <3>5. file_hashes' = With(file_hashes, p, atCall.tree[At(cwd, p)])
      BY <2>1, <3>1, <3>3
    <3>6. With(file_hashes, p, atCall.tree[At(cwd, p)]) =
            [q \in (Inside \ pending) \cup {p} |-> atCall.tree[At(cwd, q)]]
      BY <3>1 DEF With
    <3> QED BY <2>1, <3>1, <3>4, <3>5, <3>6
  <2>5. Steady => Pairs(artifact_hashes') \cup Pairs(hashes') = DoneEntries'
    BY <2>2, <2>3 DEF Exact
  <2> QED BY <2>2, <2>3, <2>4, <2>5 DEF Exact, RecordsExactly
<1> QED BY <1>1, <1>2

LEMMA EndDirectoryExact ==
  ASSUME Base, Exact, EndDirectory
  PROVE  Exact'
<1>1. CASE Leave("PrefixError")
  BY <1>1, LeaveExact DEF Exceptions
<1>2. CASE ~ Leave("PrefixError")
  <2> DEFINE key == Key("dir", Uri.path)
             d == At(atCall.cwd, Uri.path)
             hash == [q \in FilesOf(d, << >>) |-> atCall.tree[d \o q]]
  <2>1. /\ Record(key, file_hashes) /\ ~DirDuplicate(Uri.path)
        /\ pc = "dir" /\ pending = {}
    BY <1>2 DEF EndDirectory
  <2>2. /\ todo # {} /\ Uri.scheme = "dir" /\ cwd = d /\ d \in Dirs
        /\ IsFiles(atCall.tree)
    <3>1. todo # {} /\ ResolverOf(First(todo)) = "dir"
      BY <2>1 DEF Base, Cleared
    <3>2. First(todo) \in DOMAIN call.artifacts
      BY <3>1, ArtifactsType DEF Base, Typed
    <3>3. Uri.scheme = "dir"
      BY <2>1, <3>1, <3>2, Dispatched DEF Uri
    <3> QED BY <2>1, <3>1, <3>3 DEF Base, Placed, Typed
  <2>3. ASSUME Steady
        PROVE  At(Start, Uri.path) = d /\ EntriesOf(Uri) = {<<key, hash>>}
    <3>1. Based(Uri)
      BY <2>2, <2>3, ArtifactsType DEF Steady, Uri, Base, Typed
    <3>2. At(Start, Uri.path) = d
      BY <2>2, <3>1 DEF Based, Start, At
    <3> HIDE DEF d
    <3> QED BY <2>2, <3>2 DEF EntriesOf
  <2>4. ASSUME Steady
        PROVE  /\ Pairs(artifact_hashes) \cup Pairs(hashes) = DoneEntries
               /\ key \in DOMAIN hashes => hashes[key] = file_hashes
               /\ file_hashes = hash
    <3>1. /\ Pairs(artifact_hashes) \cup Pairs(hashes) = DoneEntries
          /\ file_hashes = [q \in Inside |-> atCall.tree[At(cwd, q)]]
      BY <2>1, <2>4 DEF Exact
    <3>2. file_hashes = hash
      <4>1. Inside = FilesOf(d, << >>)
        BY DEF Inside
      <4>2. \A q \in Inside : At(d, q) = d \o q
        <5> HIDE DEF d
        <5> QED BY <2>2, <4>1, InsideFiles
      <4> HIDE DEF d
      <4> QED BY <2>2, <3>1, <4>1, <4>2
    <3>3. key \in DOMAIN hashes => hashes[key] = hash
      <4>1. CASE call.lstrip_paths # << >>
        BY <2>1, <4>1 DEF DirDuplicate
      <4>2. CASE call.lstrip_paths = << >>
        <5>1. Pairs(hashes) \subseteq Expected
          BY <3>1, DoneExpected
        <5>2. key \in DOMAIN hashes => hashes[key] = ValueOf(key)
          <6> HIDE DEF key
          <6> QED BY <4>2, <5>1, KnownValue DEF Base
        <5>3. key = [scheme |-> "dir", path |-> Uri.path]
          BY <4>2, KeyUnstripped
        <5>4. ValueOf(key) = hash
          <6> HIDE DEF key
          <6>1. key.scheme = "dir" /\ key.path = Uri.path /\ At(Start, Uri.path) = d
            BY <2>3, <2>4, <5>3
          <6> HIDE DEF d
          <6> QED BY <6>1 DEF ValueOf
        <5> QED BY <5>2, <5>4
      <4> QED BY <4>1, <4>2
    <3> QED BY <3>1, <3>2, <3>3
  <2> HIDE DEF key, hash
  <2> QED BY <2>1, <2>2, <2>3, <2>4, RecordExact
<1> QED BY <1>1, <1>2


LEMMA ReturnExact ==
  ASSUME Base, Exact, Return
  PROVE  Exact'
<1>1. /\ UNCHANGED <<tree, calm, call, atCall, artifact_hashes>>
      /\ pc = "batch" /\ waiting = {} /\ pc' = "idle"
  BY DEF Return, Leave, system
<1>2. todo = {} /\ hashes = << >>
  BY <1>1 DEF Base, Cleared
<1>3. Steady' = Steady /\ Expected' = Expected
  BY <1>1, SameSteady, SameExpected
<1>4. DoneEntries = Expected
  BY <1>1, <1>2 DEF DoneEntries, Done, Expected
<1>5. Steady => Pairs(artifact_hashes) = Expected
  BY <1>1, <1>2, <1>4, EmptyDict DEF Exact
<1>6. Recorded' = Pairs(artifact_hashes)
  BY <1>1 DEF Recorded, Pairs
<1>7. RecordsExactly'
  BY <1>3, <1>5, <1>6 DEF RecordsExactly, Steady
<1> QED BY <1>1, <1>7 DEF Exact

LEMMA CallExact ==
  ASSUME Base, Exact, NEW c \in Calls, Call(c)
  PROVE  Exact'
<1>1. /\ tree' = tree /\ atCall'.tree = tree /\ artifact_hashes' = << >>
      /\ pc' \in {"idle", "batch"} /\ hashes' = hashes /\ hashes = << >>
      /\ todo' = todo /\ todo = {} /\ call' = c
  BY DEF Call, Base, Cleared
<1>2. CASE pc' = "idle" /\ c.artifacts = << >>
  <2>1. Recorded' = {}
    BY <1>1, EmptyDict DEF Recorded
  <2>2. Expected' = {}
    BY <1>1, <1>2, EmptyDict DEF Expected
  <2> QED BY <1>1, <1>2, <2>1, <2>2 DEF Exact, RecordsExactly
<1>3. CASE pc' = "idle" /\ c.artifacts # << >>
  <2>1. outcome' = "PrefixError"
    BY <1>3 DEF Call
  <2> QED BY <1>1, <1>3, <2>1 DEF Exact, RecordsExactly
<1>4. CASE pc' = "batch"
  <2>1. waiting' = DOMAIN c.artifacts
    BY <1>4 DEF Call
  <2>2. DoneEntries' = {}
    BY <1>1, <2>1 DEF DoneEntries, Done
  <2> QED BY <1>1, <1>4, <2>2, EmptyDict DEF Exact, RecordsExactly
<1> QED BY <1>1, <1>2, <1>3, <1>4

LEMMA NextExact ==
  ASSUME Base, Exact, [Next]_vars
  PROVE  Exact'
<1>1. CASE BeginBatch
  <2>1. CASE Raise("OSError")
    BY <2>1, RaiseExact DEF Exceptions
  <2>2. CASE ~ Raise("OSError")
    <3>1. /\ UNCHANGED <<system, call, atCall, artifact_hashes>> /\ hashes' = << >>
          /\ pc = "batch" /\ pc' = "uri" /\ todo' = NextBatch /\ waiting' = waiting \ NextBatch
      BY <1>1, <2>2 DEF BeginBatch
    <3>2. todo = {} /\ hashes = << >>
      BY <3>1 DEF Base, Cleared
    <3>3. Done' = Done
      BY <3>1, <3>2 DEF Done, NextBatch
    <3> QED BY <3>1, <3>2, <3>3, KeptExact
  <2> QED BY <2>1, <2>2
<1>2. CASE EndBatch
  <2>1. /\ UNCHANGED <<system, call, atCall, waiting, todo>> /\ hashes' = << >>
        /\ pc = "uri" /\ pc' = "batch" /\ artifact_hashes' = Updated(artifact_hashes, hashes)
    BY <1>2 DEF EndBatch
  <2>2. DOMAIN artifact_hashes \cap DOMAIN hashes = {}
    BY DEF Base, Apart
  <2>3. Pairs(artifact_hashes') \cup Pairs(hashes') = Pairs(artifact_hashes) \cup Pairs(hashes)
    BY <2>1, <2>2, UpdatedPairs, EmptyDict
  <2>4. Done' = Done
    BY <2>1 DEF Done
  <2> QED BY <2>1, <2>3, <2>4, KeptExact
<1>3. CASE Register
  <2>1. /\ UNCHANGED <<tree, calm, call, atCall, artifact_hashes, pc, outcome>>
        /\ pc = "idle"
    BY <1>3 DEF Register, system
  <2>2. Expected' = Expected /\ Recorded' = Recorded
    BY <2>1, SameExpected DEF Recorded
  <2>3. RecordsExactly'
    <3>1. Steady' = Steady
      BY <2>1, SameSteady
    <3> QED BY <2>1, <2>2, <3>1 DEF Exact, RecordsExactly, Steady
  <2> QED BY <2>1, <2>3 DEF Exact
<1>4. CASE Change
  BY <1>4 DEF Change, Exact, Steady, RecordsExactly
<1>5. CASE UNCHANGED vars
  <2>1. /\ UNCHANGED <<tree, calm, call, atCall, artifact_hashes, hashes, pc, outcome, cwd>>
        /\ UNCHANGED <<waiting, todo, pending, file_hashes>>
    BY <1>5 DEF vars, system, job
  <2>2. /\ Steady' = Steady /\ Uri' = Uri /\ Files' = Files /\ Inside' = Inside
        /\ Expected' = Expected /\ DoneEntries' = DoneEntries /\ Start' = Start
        /\ \A scheme, q : Key(scheme, q)' = Key(scheme, q)
    BY <2>1, SameSteady, SameUri, SameExpected, SameCall, SameFiles DEF Done
  <2>3. FileEntries' = FileEntries /\ Recorded' = Recorded
    BY <2>1, <2>2 DEF FileEntries, Recorded
  <2>4. RecordsExactly'
    BY <2>1, <2>2, <2>3 DEF Exact, RecordsExactly, Steady
  <2> QED BY <2>1, <2>2, <2>3, <2>4 DEF Exact
<1>6. ASSUME NEW c \in Calls, Call(c) PROVE Exact'
  BY <1>6, CallExact
<1> QED BY <1>1, <1>2, <1>3, <1>4, <1>5, <1>6, ReturnExact, BeginFilesExact, HashFileExact,
           EndFilesExact, HashCommitExact, BeginDirectoryExact, HashInDirectoryExact,
           EndDirectoryExact, HashCustomExact DEF Next, Step

-----------------------------------------------------------------------------
(* Theorems *)

LEMMA InitIInv ==
  ASSUME Init
  PROVE  IInv
<1>1. Home \in Dirs /\ NoArguments \in Arguments /\ NoArguments.artifacts = << >>
  BY RecordingAssumption DEF NoArguments, Arguments, Path
<1>2. IsFiles(tree)
  BY RecordingAssumption DEF Init, IsFiles, Places
<1>3. Typed
  BY <1>1, <1>2, EmptyDict DEF Init, Typed, Exceptions
<1>4. Cleared /\ Apart
  BY EmptyDict DEF Init, Cleared, Apart
<1>5. Placed
  BY <1>1 DEF Init, Placed, StaysPut
<1>6. RecordsExactly
  <2>1. Recorded = {} /\ Expected = {}
    BY <1>1, EmptyDict DEF Init, Recorded, Expected
  <2> QED BY <2>1 DEF RecordsExactly
<1>7. Exact
  BY <1>6 DEF Init, Exact
<1> QED BY <1>3, <1>4, <1>5, <1>7 DEF IInv

LEMMA Invariance ==
  Spec => []IInv
<1>1. IInv /\ [Next]_vars => IInv'
  BY NextTyped, NextCleared, NextPlaced, NextApart, NextExact DEF IInv, Base
<1> QED BY <1>1, InitIInv, PTL DEF Spec

\* The process always has a directory that exists, files have absolute paths, and what a
\* call works with is cleared when it ends, however it ends.
THEOREM TypeCorrect == Spec => []TypeOK
<1>1. IInv => TypeOK
  <2> SUFFICES ASSUME IInv PROVE TypeOK
    OBVIOUS
  <2>1. \A f \in DOMAIN tree : f[1] = Root /\ tree[f] \in Contents \cup {Unreadable}
    BY PlaceFacts DEF IInv, Typed, IsFiles
  <2>2. pc = "idle" => pending = {}
    BY DEF IInv, Cleared
  <2> QED BY <2>1, <2>2 DEF IInv, Typed, Cleared, Apart, IsDir, TypeOK
<1> QED BY <1>1, Invariance, PTL

\* record_artifacts_as_dict returns, when no file changed meanwhile, an entry for every
\* file, commit and directory its artifacts stand for, and no other, whatever calls
\* came before.
THEOREM ExactCorrect == Spec => []RecordsExactly
<1>1. IInv => RecordsExactly
  BY DEF IInv, Exact
<1> QED BY <1>1, Invariance, PTL

\* However a call of record_artifacts_as_dict ends, the process is where it was, or in
\* the base path or a directory of that call if it raised; a call that returned has
\* removed its resolvers.
THEOREM PutCorrect == Spec => []StaysPut
<1>1. IInv => StaysPut
  BY DEF IInv, Placed, StaysPut
<1> QED BY <1>1, Invariance, PTL

\* in_toto_match_products reports every difference between products and files once.
THEOREM MatchCorrect == Spec => []MatchExact
<1>1. IInv => MatchExact
  <2> SUFFICES ASSUME IsDict(artifact_hashes), NEW products \in Comparable
               PROVE  LET a == artifact_hashes
                          reports == <<OnlyProducts(products, a), NotInProducts(products, a),
                                       Differ(products, a)>>
                      IN  /\ products = a <=> \A i \in 1 .. 3 : reports[i] = {}
                          /\ \A i, j \in 1 .. 3 : i < j => reports[i] \cap reports[j] = {}
    BY DEF IInv, Typed, MatchExact
  <2> DEFINE a == artifact_hashes
  <2>1. IsDict(products)
    BY DEF Comparable, IsDict, With
  <2>2. /\ OnlyProducts(products, a) = DOMAIN products \ DOMAIN a
        /\ NotInProducts(products, a) = DOMAIN a \ DOMAIN products
        /\ Differ(products, a) = {n \in DOMAIN products \cap DOMAIN a : products[n] # a[n]}
    BY DEF OnlyProducts, NotInProducts, Differ
  <2>3. /\ OnlyProducts(products, a) = {} /\ NotInProducts(products, a) = {}
        /\ Differ(products, a) = {}
        => products = a
    BY <2>1, <2>2 DEF IsDict
  <2>4. products = a => /\ OnlyProducts(products, a) = {} /\ NotInProducts(products, a) = {}
                        /\ Differ(products, a) = {}
    BY <2>2
  <2>5. /\ OnlyProducts(products, a) \cap NotInProducts(products, a) = {}
        /\ OnlyProducts(products, a) \cap Differ(products, a) = {}
        /\ NotInProducts(products, a) \cap Differ(products, a) = {}
    BY <2>2
  <2> HIDE DEF a
  <2>6. /\ \A i \in 1 .. 3 : i = 1 \/ i = 2 \/ i = 3
        /\ 1 \in 1 .. 3 /\ 2 \in 1 .. 3 /\ 3 \in 1 .. 3
    OBVIOUS
  <2> QED BY <2>3, <2>4, <2>5, <2>6 DEF a
<1> QED BY <1>1, Invariance, PTL
=============================================================================
