------------------------- MODULE ArtifactRecording -------------------------
(***************************************************************************)
(* record_artifacts_as_dict (runlib) and the resolvers it dispatches to    *)
(* (resolver/_resolver): FileResolver, OSTreeResolver, DirectoryResolver   *)
(* and one a user has registered.  Calls follow each other in one process, *)
(* whose working directory and resolver registry they share, while others  *)
(* change the files being hashed.  in_toto_match_products compares the     *)
(* result with a link's products.                                          *)
(*                                                                         *)
(* A path is the sequence of its components, an absolute one starts with   *)
(* Root, "." is the empty sequence.  Exclude patterns are the set of paths *)
(* they match; lstrip paths end in a slash.                                *)
(***************************************************************************)
EXTENDS Integers, Sequences

Seqs == INSTANCE SequencesExt

CONSTANTS
  Names,             \* components of paths
  Root,              \* first component of absolute paths
  Home,              \* working directory of the process when it starts
  Dirs,              \* absolute paths of the directories there are
  Trees,             \* initial file systems: absolute file path -> content
  Contents,          \* file contents, as the hash tells them apart
  Unreadable,        \* the content of a file that cannot be opened
  Calls,             \* arguments of calls
  ArtifactBasePath,  \* settings.ARTIFACT_BASE_PATH, << >> if None
  MaxChanges         \* bound on the changes to files

BuiltIn == {"file", "ostree", "dir"}
Schemes == {"", "custom"} \cup BuiltIn   \* "": the artifact has no scheme

Path == Seq(Names)
Uris == [scheme : Schemes, path : Path]
Arguments == [artifacts : Seq(Uris), base_path : Path, lstrip_paths : Seq(Path),
              exclude_patterns : SUBSET Path]
NoArguments == [artifacts |-> << >>, base_path |-> << >>, lstrip_paths |-> << >>,
                exclude_patterns |-> {}]

\* Where there are files.
Places == UNION {DOMAIN files : files \in Trees}

\* Directories and files have absolute paths, and are not the same; what contains
\* a file is a directory.
ASSUME RecordingAssumption ==
  /\ Root \in Names /\ {"refs", "heads"} \subseteq Names
  /\ \A d \in Dirs : d \in Path /\ d # << >> /\ d[1] = Root
  /\ Home \in Dirs
  /\ \A f \in Places :
       /\ f \in Path /\ f # << >> /\ f[1] = Root /\ f \notin Dirs
       /\ \A i \in 2 .. Len(f) : f[i] # Root
       /\ \A i \in 1 .. Len(f) - 1 : SubSeq(f, 1, i) \in Dirs
  /\ \A files \in Trees, f \in Places :
       f \in DOMAIN files => files[f] \in Contents \cup {Unreadable}
  /\ Calls \subseteq Arguments /\ ArtifactBasePath \in Path

VARIABLES
  tree,             \* the file system
  changes,          \* number of changes to it so far
  cwd,              \* working directory of the process
  registry,         \* RESOLVER_FOR_URI_SCHEME: its schemes
  call,             \* arguments of the latest call
  pc,               \* "idle", or where the call is
  waiting,          \* resolver_for_uris: indices of artifacts in batches not begun
  todo,             \* indices of the batch at hand, from the current one on
  pending,          \* files of the current uri still to be hashed
  file_hashes,      \* DirectoryResolver: the files hashed so far
  original_cwd,     \* to change back to, << >> if the directory was not changed
  hashes,           \* result of the batch at hand
  artifact_hashes,  \* result of the call
  outcome,          \* "returned" or the exception of the latest call
  atCall,           \* history: tree, cwd and registry when the latest call began
  calm              \* history: no file changed during the latest call

job == <<waiting, todo, pending, file_hashes, original_cwd, hashes>>
system == <<tree, changes, calm>>
vars == <<system, cwd, registry, call, pc, job, artifact_hashes, outcome, atCall>>

-----------------------------------------------------------------------------
(* Paths *)

\* What path p means to a process whose working directory is d.
At(d, p) == IF p # << >> /\ p[1] = Root THEN p ELSE d \o p

IsDir(d) == d \in Dirs
IsFile(f) == f \in DOMAIN tree

\* Files below directory At(d, p), as paths that start with p.
FilesBelow(files, d, p) ==
  {p \o SubSeq(f, Len(At(d, p)) + 1, Len(f)) :
     f \in {g \in files : Seqs!IsStrictPrefix(At(d, p), g)}}

\* Excluding a directory excludes what is below it.
Excluded(p) == \E i \in 1 .. Len(p) : SubSeq(p, 1, i) \in call.exclude_patterns

\* The first lstrip path that p starts with is stripped.
Stripped(lstrip_paths, p) ==
  LET fits == {i \in DOMAIN lstrip_paths : Seqs!IsStrictPrefix(lstrip_paths[i], p)}
      first == lstrip_paths[CHOOSE i \in fits : \A j \in fits : i <= j]
  IN  IF fits = {} THEN p ELSE SubSeq(p, Len(first) + 1, Len(p))

Key(scheme, p) == [scheme |-> scheme, path |-> Stripped(call.lstrip_paths, p)]

\* FileResolver._mangle looks a stripped path up before it re-adds the scheme.
FileDuplicate(p) == call.lstrip_paths # << >> /\ Key("", p) \in DOMAIN hashes
\* DirectoryResolver._mangle afterwards.
DirDuplicate(p) == call.lstrip_paths # << >> /\ Key("dir", p) \in DOMAIN hashes

PrefixesClash(lstrip_paths) ==
  \E i, j \in DOMAIN lstrip_paths : i < j /\ \/ Seqs!IsPrefix(lstrip_paths[i], lstrip_paths[j])
                                             \/ Seqs!IsPrefix(lstrip_paths[j], lstrip_paths[i])

BasePath == IF call.base_path = << >> THEN ArtifactBasePath ELSE call.base_path

(* Dicts *)

\* dict[key] = value
With(dict, key, value) ==
  [n \in DOMAIN dict \cup {key} |-> IF n = key THEN value ELSE dict[n]]

\* dict.update(other)
Updated(dict, other) ==
  [n \in DOMAIN dict \cup DOMAIN other |-> IF n \in DOMAIN other THEN other[n] ELSE dict[n]]

(* Dispatch *)

\* Resolver.for_uri
ForUri(uri, registered) == IF uri.scheme \in registered THEN uri.scheme ELSE "file"
ResolverOf(i) == ForUri(call.artifacts[i], registry)

First(indices) == CHOOSE i \in indices : \A j \in indices : i <= j
Uri == call.artifacts[First(todo)]

\* One batch per resolver, in the order in which resolvers first appear.
NextBatch == {i \in waiting : ResolverOf(i) = ResolverOf(First(waiting))}

Init ==
  /\ tree \in Trees /\ changes = 0 /\ calm = TRUE
  /\ cwd = Home /\ registry = {}
  /\ call = NoArguments
  /\ pc = "idle"
  /\ waiting = {} /\ todo = {} /\ pending = {}
  /\ file_hashes = << >> /\ original_cwd = << >> /\ hashes = << >>
  /\ artifact_hashes = << >> /\ outcome = "returned"
  /\ atCall = [tree |-> tree, cwd |-> cwd, registry |-> registry]

\* The call ends; only a normal return clears the registry, and nothing but the
\* resolvers themselves changes the working directory back.
Leave(how) ==
  /\ pc' = "idle" /\ outcome' = how
  /\ waiting' = {} /\ todo' = {} /\ pending' = {}
  /\ file_hashes' = << >> /\ original_cwd' = << >> /\ hashes' = << >>
  /\ UNCHANGED <<system, call, atCall>>

\* (mutant) A failing batch is left as it is, for the next call to continue.
RaiseInPlace(exception) ==
  /\ pc' = "idle" /\ outcome' = exception
  /\ UNCHANGED <<system, cwd, registry, call, job, artifact_hashes, atCall>>

Raise(exception) == Leave(exception) /\ UNCHANGED <<cwd, registry, artifact_hashes>>

\* A user registers a resolver (see resolver/__init__).
Register ==
  /\ pc = "idle" /\ "custom" \notin registry
  /\ registry' = registry \cup {"custom"}
  /\ UNCHANGED <<system, cwd, call, pc, job, artifact_hashes, outcome, atCall>>

Call(c) ==
  /\ pc = "idle"
  /\ call' = c /\ artifact_hashes' = << >> /\ calm' = TRUE
  /\ atCall' = [tree |-> tree, cwd |-> cwd, registry |-> registry]
  /\ UNCHANGED <<tree, changes, cwd, todo, pending, file_hashes, original_cwd, hashes>>
  /\ \/ /\ c.artifacts = << >>
        /\ outcome' = "returned"
        /\ UNCHANGED <<registry, pc, waiting>>
     \/ /\ c.artifacts # << >> /\ PrefixesClash(c.lstrip_paths)
        /\ outcome' = "PrefixError"
        /\ UNCHANGED <<registry, pc, waiting>>
     \/ /\ c.artifacts # << >> /\ ~PrefixesClash(c.lstrip_paths)
        /\ registry' = registry \cup BuiltIn
        /\ waiting' = DOMAIN c.artifacts
        /\ pc' = "batch" /\ outcome' = "running"

(* Batches *)

ChangesDirectory(resolver) == resolver \in {"file", "ostree"} /\ BasePath # << >>

BeginBatch ==
  /\ pc = "batch" /\ waiting # {}
  /\ LET target == At(cwd, BasePath)
         changing == ChangesDirectory(ResolverOf(First(waiting)))
     IN  \/ /\ changing /\ ~IsDir(target)
            /\ Raise("OSError")
         \/ /\ changing => IsDir(target)
            /\ original_cwd' = IF changing THEN cwd ELSE << >>
            /\ cwd' = IF changing THEN target ELSE cwd
            /\ todo' = NextBatch /\ waiting' = waiting \ NextBatch
            /\ hashes' = << >> /\ pc' = "uri"
            /\ UNCHANGED <<system, registry, call, pending, file_hashes,
                           artifact_hashes, outcome, atCall>>

\* (mutant) The result of a batch replaces that of the batches before.
EndBatchAlone ==
  /\ pc = "uri" /\ todo = {}
  /\ cwd' = IF original_cwd = << >> THEN cwd ELSE original_cwd
  /\ artifact_hashes' = hashes
  /\ original_cwd' = << >> /\ hashes' = << >> /\ pc' = "batch"
  /\ UNCHANGED <<system, registry, call, waiting, todo, pending, file_hashes, outcome, atCall>>

EndBatch ==
  /\ pc = "uri" /\ todo = {}
  /\ cwd' = IF original_cwd = << >> THEN cwd ELSE original_cwd
  /\ artifact_hashes' = Updated(artifact_hashes, hashes)
  /\ original_cwd' = << >> /\ hashes' = << >> /\ pc' = "batch"
  /\ UNCHANGED <<system, registry, call, waiting, todo, pending, file_hashes, outcome, atCall>>

Return ==
  /\ pc = "batch" /\ waiting = {}
  /\ registry' = {}
  /\ Leave("returned")
  /\ UNCHANGED <<cwd, artifact_hashes>>

(* One uri *)

AtUri(resolver) == pc = "uri" /\ todo # {} /\ ResolverOf(First(todo)) = resolver

\* The files a uri stands for, for FileResolver.
Wanted(uri) ==
  LET p == uri.path
  IN  IF uri.scheme \notin {"", "file"} \/ Excluded(p) THEN {}
      ELSE IF IsFile(At(cwd, p)) THEN {p}
      ELSE IF IsDir(At(cwd, p))
           THEN {q \in FilesBelow(DOMAIN tree, cwd, p) : ~Excluded(q)}
      ELSE {}

BeginFiles ==
  /\ AtUri("file")
  /\ pending' = Wanted(Uri) /\ pc' = "files"
  /\ UNCHANGED <<system, cwd, registry, call, waiting, todo, file_hashes, original_cwd,
                 hashes, artifact_hashes, outcome, atCall>>

\* In the order os.walk finds them.  A file that has vanished is skipped if isfile
\* notices, and cannot be opened otherwise.
HashFile ==
  /\ pc = "files"
  /\ \E p \in pending :
       LET f == At(cwd, p)
       IN  \/ FileDuplicate(p) /\ Raise("PrefixError")
           \/ /\ ~FileDuplicate(p) /\ (IsFile(f) => tree[f] = Unreadable)
              /\ Raise("OSError")
           \/ /\ IsFile(f) => (~FileDuplicate(p) /\ tree[f] # Unreadable)
              /\ pending' = pending \ {p}
              /\ hashes' = IF IsFile(f) THEN With(hashes, Key(Uri.scheme, p), tree[f])
                           ELSE hashes
              /\ UNCHANGED <<system, cwd, registry, call, pc, waiting, todo, file_hashes,
                             original_cwd, artifact_hashes, outcome, atCall>>

EndFiles ==
  /\ pc = "files" /\ pending = {}
  /\ todo' = todo \ {First(todo)} /\ pc' = "uri"
  /\ UNCHANGED <<system, cwd, registry, call, waiting, pending, file_hashes, original_cwd,
                 hashes, artifact_hashes, outcome, atCall>>

\* The next uri, this one having been recorded under key.
Record(key, hash) ==
  /\ hashes' = With(hashes, key, hash)
  /\ todo' = todo \ {First(todo)} /\ pc' = "uri"
  /\ UNCHANGED <<system, registry, call, waiting, artifact_hashes, outcome, atCall>>

RefPath(p) == <<"refs", "heads">> \o p

HashCommit ==
  /\ AtUri("ostree")
  /\ LET p == Uri.path
         ref == At(cwd, RefPath(p))
     IN  \/ /\ IsFile(ref) => tree[ref] = Unreadable
            /\ Raise("OSError")
         \/ /\ IsFile(ref) /\ tree[ref] # Unreadable
            /\ Record([scheme |-> "ostree", path |-> p], tree[ref])
            /\ UNCHANGED <<cwd, pending, file_hashes, original_cwd>>

\* A FileResolver of its own, whose base path is the directory, hashes ".".
BeginDirectory ==
  /\ AtUri("dir")
  /\ LET d == At(cwd, Uri.path)
     IN  \/ ~IsDir(d) /\ Raise("ValueError")
         \/ /\ IsDir(d)
            /\ original_cwd' = cwd /\ cwd' = d
            /\ pending' = {q \in FilesBelow(DOMAIN tree, d, << >>) : ~Excluded(q)}
            /\ file_hashes' = << >> /\ pc' = "dir"
            /\ UNCHANGED <<system, registry, call, waiting, todo, hashes, artifact_hashes,
                           outcome, atCall>>

HashInDirectory ==
  /\ pc = "dir"
  /\ \E p \in pending :
       LET f == At(cwd, p)
       IN  \/ /\ IsFile(f) => tree[f] = Unreadable
              /\ Raise("OSError")
           \/ /\ IsFile(f) => tree[f] # Unreadable
              /\ pending' = pending \ {p}
              /\ file_hashes' = IF IsFile(f) THEN With(file_hashes, p, tree[f]) ELSE file_hashes
              /\ UNCHANGED <<system, cwd, registry, call, pc, waiting, todo, original_cwd,
                             hashes, artifact_hashes, outcome, atCall>>

\* (mutant) The working directory stays in the directory that was hashed.
EndDirectoryInside ==
  /\ pc = "dir" /\ pending = {} /\ ~DirDuplicate(Uri.path)
  /\ original_cwd' = << >> /\ file_hashes' = << >>
  /\ Record(Key("dir", Uri.path), file_hashes)
  /\ UNCHANGED <<cwd, pending>>

\* The directory is left before its name is found to be a duplicate.
EndDirectory ==
  /\ pc = "dir" /\ pending = {}
  /\ cwd' = original_cwd
  /\ \/ /\ DirDuplicate(Uri.path)
        /\ Leave("PrefixError") /\ UNCHANGED <<registry, artifact_hashes>>
     \/ /\ ~DirDuplicate(Uri.path)
        /\ original_cwd' = << >> /\ file_hashes' = << >>
        /\ Record(Key("dir", Uri.path), file_hashes)
        /\ UNCHANGED pending

\* What a user's resolver is assumed to do: hash each uri, touch nothing else.
HashCustom ==
  /\ AtUri("custom")
  /\ Record([scheme |-> "custom", path |-> Uri.path], "custom")
  /\ UNCHANGED <<cwd, pending, file_hashes, original_cwd>>

\* Others change files.  (Changes between calls are other initial trees.)
Change ==
  /\ pc # "idle" /\ changes < MaxChanges
  /\ changes' = changes + 1 /\ calm' = FALSE
  /\ \E f \in DOMAIN tree :
       \/ \E content \in Contents \ {tree[f]} : tree' = [tree EXCEPT ![f] = content]
       \/ tree' = [g \in DOMAIN tree \ {f} |-> tree[g]]
  /\ UNCHANGED <<cwd, registry, call, pc, job, artifact_hashes, outcome, atCall>>

Step ==
  \/ BeginBatch \/ EndBatch \/ Return
  \/ BeginFiles \/ HashFile \/ EndFiles
  \/ HashCommit
  \/ BeginDirectory \/ HashInDirectory \/ EndDirectory
  \/ HashCustom

Next == Step \/ Register \/ Change \/ \E c \in Calls : Call(c)

\* A call that has begun runs on; nobody is obliged to make one.
Spec == Init /\ [][Next]_vars /\ WF_vars(Step)

-----------------------------------------------------------------------------
(* in_toto_match_products *)

OnlyProducts(products, artifacts) == DOMAIN products \ DOMAIN artifacts
NotInProducts(products, artifacts) == DOMAIN artifacts \ DOMAIN products

\* (mutant) Only names are compared.
DifferInName(products, artifacts) == {}

Differ(products, artifacts) ==
  {n \in DOMAIN products \cap DOMAIN artifacts : products[n] # artifacts[n]}

(* Properties *)

Exceptions == {"OSError", "ValueError", "PrefixError"}

TypeOK ==
  /\ \A f \in DOMAIN tree : f[1] = Root /\ tree[f] \in Contents \cup {Unreadable}
  /\ IsDir(cwd) /\ registry \subseteq BuiltIn \cup {"custom"}
  /\ pc \in {"idle", "batch", "uri", "files", "dir"}
  /\ outcome \in Exceptions \cup {"returned", "running"}
  /\ pc = "idle" <=> outcome # "running"
  /\ pc = "idle" => waiting = {} /\ todo = {} /\ pending = {} /\ hashes = << >>
  /\ pc # "dir" => file_hashes = << >>
  /\ \A n \in DOMAIN artifact_hashes : n.scheme \in Schemes

(* What a call should record, from its arguments and the files alone. *)
Start == IF BasePath = << >> THEN atCall.cwd ELSE At(atCall.cwd, BasePath)

FilesOf(d, p) ==
  LET files == DOMAIN atCall.tree
      found == IF At(d, p) \in files THEN {p} ELSE FilesBelow(files, d, p)
  IN  {q \in found : ~Excluded(q)}

EntriesOf(uri) ==
  LET p == uri.path
  IN  CASE uri.scheme \in {"", "file"} ->
             {<<Key(uri.scheme, q), atCall.tree[At(Start, q)]>> : q \in FilesOf(Start, p)}
        [] uri.scheme = "ostree" ->
             {<<[scheme |-> "ostree", path |-> p], atCall.tree[At(Start, RefPath(p))]>>}
        [] uri.scheme = "dir" ->
             LET inside == FilesOf(At(Start, p), << >>)
             IN  {<<Key("dir", p), [q \in inside |-> atCall.tree[At(Start, p) \o q]]>>}
        [] uri.scheme = "custom" ->
             IF "custom" \in atCall.registry
             THEN {<<[scheme |-> "custom", path |-> p], "custom">>} ELSE {}

\* A relative "dir:" uri is not looked up from the base path: DirectoryResolver is not
\* given any.
Based(uri) ==
  uri.scheme = "dir" /\ BasePath # << >> => uri.path # << >> /\ uri.path[1] = Root

Recorded == {<<n, artifact_hashes[n]>> : n \in DOMAIN artifact_hashes}
Expected == UNION {EntriesOf(call.artifacts[i]) : i \in DOMAIN call.artifacts}

\* The result of a call in which no file changed is what its arguments say, every
\* file of every artifact under a name of its own: neither the batches, nor a
\* prefix stripped from two of them, nor what a failed call has left behind in the
\* process loses or replaces an entry.  Two kinds of call are left out, which do
\* not keep the promise: "file:" uris with lstrip paths (see NoNameTwice), and a base
\* path with a relative "dir:" uri, looked up from the working directory although
\* record_artifacts_as_dict is to "change to base_path and record artifacts relative
\* from there".
RecordsExactly ==
  /\ pc = "idle" /\ outcome = "returned" /\ calm
  /\ \A i \in DOMAIN call.artifacts : Based(call.artifacts[i])
  /\ call.lstrip_paths # << >> =>
       \A i \in DOMAIN call.artifacts : call.artifacts[i].scheme # "file"
  => Recorded = Expected

\* The working directory and the registry belong to the whole process.  A call that
\* returns has left the former as it was and none of its resolvers in the latter; one
\* that raises has at worst moved the process to its base path or to a directory it
\* was hashing, never further.
StaysPut ==
  pc = "idle" =>
    /\ \/ cwd = atCall.cwd
       \/ outcome \in Exceptions /\ cwd = Start
       \/ /\ outcome \in Exceptions
          /\ \E i \in DOMAIN call.artifacts : /\ call.artifacts[i].scheme = "dir"
                                              /\ cwd = At(atCall.cwd, call.artifacts[i].path)
    /\ outcome = "returned" /\ call.artifacts # << >> => registry \subseteq {"custom"}

\* in_toto_match_products reports every name on which products and files disagree,
\* exactly once, and nothing else: products are the files iff it reports nothing.
Comparable == {artifact_hashes} \cup {[artifact_hashes EXCEPT ![n] = Unreadable] :
                                         n \in DOMAIN artifact_hashes}
  \cup {[m \in DOMAIN artifact_hashes \ {n} |-> artifact_hashes[m]] :
          n \in DOMAIN artifact_hashes}
  \cup {With(artifact_hashes, [scheme |-> "", path |-> <<"new">>], Unreadable)}

MatchExact ==
  pc = "idle" /\ outcome = "returned" =>
    \A products \in Comparable :
      LET a == artifact_hashes
          reports == <<OnlyProducts(products, a), NotInProducts(products, a),
                       Differ(products, a)>>
      IN  /\ products = a <=> \A i \in 1 .. 3 : reports[i] = {}
          /\ \A i, j \in 1 .. 3 : i < j => reports[i] \cap reports[j] = {}

\* The comment in FileResolver._mangle: "Fail if left-stripping above results in
\* duplicates".
NoNameTwice ==
  pc = "idle" /\ outcome = "returned" /\ calm =>
    \A e, f \in Expected : e[1] = f[1] => e = f
=============================================================================
