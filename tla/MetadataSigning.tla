-------------------------- MODULE MetadataSigning --------------------------
(***************************************************************************)
(* in-toto-sign (in_toto_sign.py): several invocations sign, re-sign and   *)
(* verify link and layout files of one directory, at the same time and one *)
(* after the other, while somebody edits the files.                        *)
(*                                                                         *)
(* A document is its container, the type and the version of its payload,   *)
(* and its signatures, each of one key over one version of the payload.    *)
(***************************************************************************)
EXTENDS Naturals, Sequences

Seqs == INSTANCE SequencesExt

CONSTANTS
  Processes,
  Paths,
  LinkFile,        \* keyid -> path "<name>.<keyid>.link"
  Keys,            \* of key files and of the gpg keyring
  Keyids,
  MissingKey,      \* a path without a key, a keyid that gpg does not know
  DefaultGpgKey,
  SigningKeyid,    \* key -> keyid of the key or subkey that signs
  Subkeys,         \* key -> keyids of its subkeys
  Payloads,        \* versions of a payload
  Requests,        \* command lines
  StartFiles,
  Absent, Torn,    \* no file; a file that json.load refuses
  None,
  MaxRuns, MaxEdits

VARIABLES
  file,      \* path -> document, Absent or Torn
  phase,     \* of each process
  request,   \* its command line
  loaded,    \* the document it has loaded
  exit,      \* its exit code
  runs, edits,
  made,      \* history: which key has signed which payload
  fresh,     \* history: processes whose input file has not changed since
  kept       \* history: path -> signatures no later run has put at risk
vars == <<file, phase, request, loaded, exit, runs, edits, made, fresh, kept>>

Signature == [keyid : Keyids, payload : Payloads]
Document == [kind : {"metablock", "envelope"}, type : {"link", "layout"},
             payload : Payloads, signatures : Seq(Signature)]
IsDocument(content) == content \notin {Absent, Torn}
Ids(key) == {key} \cup Subkeys[key]

\* -f, -k or -g, -a, --verify, -o
Request(path, keys, gpg, append, verify, output) ==
  [file |-> path, keys |-> keys, gpg |-> gpg, append |-> append, verify |-> verify,
   output |-> output]

\* Link files have names of their own; a key signs with itself or a subkey; -k
\* takes at least one path (nargs="+"), and one of -k and -g is given.
ASSUME SigningAssumption ==
  /\ Absent \notin Document /\ Torn \notin Document
  /\ None \notin 0 .. 2 /\ None \notin Requests
  /\ LinkFile \in [Keyids -> Paths]
  /\ \A k, l \in Keyids : LinkFile[k] = LinkFile[l] => k = l
  /\ SigningKeyid \in [Keys -> Keyids]
  /\ \A key \in Keys : SigningKeyid[key] \in Ids(key)
  /\ DefaultGpgKey \in Keys
  /\ Requests \subseteq [file : Paths, keys : Seq(Keys \cup {MissingKey}), gpg : BOOLEAN,
                         append : BOOLEAN, verify : BOOLEAN, output : Paths \cup {None}]
  /\ \A r \in Requests : r.keys = << >> => r.gpg
  /\ StartFiles \subseteq [Paths -> Document \cup {Absent, Torn}]

Init == /\ file \in StartFiles
        /\ phase = [p \in Processes |-> "idle"]
        /\ request = [p \in Processes |-> None]
        /\ loaded = [p \in Processes |-> None]
        /\ exit = [p \in Processes |-> None]
        /\ runs = 0 /\ edits = 0
        /\ made = {<<s.keyid, s.payload>> :
                     s \in UNION {Seqs!ToSet(file[f].signatures) : f \in {g \in Paths : IsDocument(file[g])}}}
        /\ fresh = {}
        /\ kept = [f \in Paths |-> {}]

Exit(p, code) == /\ phase' = [phase EXCEPT ![p] = "done"]
                 /\ exit' = [exit EXCEPT ![p] = code]

(***************************************************************************)
(* main                                                                    *)
(***************************************************************************)
\* What argparse leaves to main: options that exclude each other, and a gpg
\* verification without keyids.
BadArguments(r) == \/ r.verify /\ (r.append \/ r.output # None)
                   \/ r.verify /\ r.gpg /\ r.keys = << >>

\* (mutant) A link may be signed by several keys at once.
BadForLinkAppendOnly(r, document) == document.type = "link" /\ r.append

\* A link has one signature, which names its file.
BadForLink(r, document) ==
  document.type = "link" /\ (Len(r.keys) > 1 \/ r.append)

Start(p, r) ==
  /\ phase[p] \in {"idle", "done"}
  /\ runs < MaxRuns
  /\ runs' = runs + 1
  /\ request' = [request EXCEPT ![p] = r]
  /\ IF BadArguments(r) \/ ~IsDocument(file[r.file]) \/ BadForLink(r, file[r.file])
     THEN /\ Exit(p, 2)
          /\ loaded' = [loaded EXCEPT ![p] = None]
          /\ fresh' = fresh \ {p}
     ELSE /\ phase' = [phase EXCEPT ![p] = "loaded"]
          /\ exit' = [exit EXCEPT ![p] = None]
          /\ loaded' = [loaded EXCEPT ![p] = file[r.file]]
          /\ fresh' = fresh \cup {p}
  /\ UNCHANGED <<file, edits, made, kept>>

(***************************************************************************)
(* _sign_and_dump_metadata                                                 *)
(***************************************************************************)
SigningKeys(r) == IF r.gpg /\ r.keys = << >> THEN <<DefaultGpgKey>> ELSE r.keys

\* A missing key, or a gpg key for an Envelope, which takes none.
KeysFail(r, document) ==
  \/ MissingKey \in Seqs!ToSet(r.keys)
  \/ r.gpg /\ document.kind = "envelope"

\* (mutant) Signatures are always replaced.
NoneBefore(r, document) == << >>

Before(r, document) == IF r.append THEN document.signatures ELSE << >>

NewSignatures(r, document) ==
  LET keys == SigningKeys(r)
  IN  [i \in DOMAIN keys |->
         [keyid |-> SigningKeyid[keys[i]], payload |-> document.payload]]

Signed(p) ==
  [loaded[p] EXCEPT !.signatures =
     Before(request[p], loaded[p]) \o NewSignatures(request[p], loaded[p])]

\* --output, else a link is named after the signer, else the input file.
OutPath(p) ==
  IF request[p].output # None THEN request[p].output
  ELSE IF loaded[p].type = "link"
       THEN LinkFile[Seqs!Last(Signed(p).signatures).keyid]
  ELSE request[p].file

Signing(p) == phase[p] = "loaded" /\ ~request[p].verify

FailToSign(p) ==
  /\ Signing(p)
  /\ KeysFail(request[p], loaded[p])
  /\ Exit(p, 2)
  /\ UNCHANGED <<file, request, loaded, runs, edits, made, fresh, kept>>

Readers(f) == {p \in Processes : request[p] # None /\ request[p].file = f}
Writers(f) == {p \in Processes : phase[p] = "writing" /\ OutPath(p) = f}

\* All signatures are created, then dump opens, and truncates, the file.
SignAndOpen(p) ==
  /\ Signing(p)
  /\ ~KeysFail(request[p], loaded[p])
  /\ phase' = [phase EXCEPT ![p] = "writing"]
  /\ made' = made \cup {<<s.keyid, s.payload>> :
                          s \in Seqs!ToSet(NewSignatures(request[p], loaded[p]))}
  /\ file' = [file EXCEPT ![OutPath(p)] = Torn]
  /\ fresh' = fresh \ (Readers(OutPath(p)) \ {p})
  /\ UNCHANGED <<request, loaded, exit, runs, edits, kept>>

\* Each process writes from the start of the file: what another one has written
\* since the file was truncated is overwritten, except for a longer tail.
Overwritten(content, document) ==
  IF \/ content = Torn
     \/ content.kind = document.kind
          /\ Len(content.signatures) <= Len(document.signatures)
  THEN {document} ELSE {document, Torn}

Write(p) ==
  LET f == OutPath(p)
      alone == p \in fresh /\ Writers(f) = {p} /\ f = request[p].file
  IN  /\ phase[p] = "writing"
      /\ \E content \in Overwritten(file[f], Signed(p)) : file' = [file EXCEPT ![f] = content]
      /\ kept' = [kept EXCEPT ![f] =
                    IF ~alone THEN {}
                    ELSE (IF request[p].append THEN @ ELSE {})
                           \cup Seqs!ToSet(NewSignatures(request[p], loaded[p]))]
      /\ fresh' = fresh \ Readers(f)
      /\ Exit(p, 0)
      /\ UNCHANGED <<request, loaded, runs, edits, made>>

(***************************************************************************)
(* _verify_metadata                                                        *)
(***************************************************************************)
\* The signatures of the key or a subkey.
Own(document, key) ==
  {i \in DOMAIN document.signatures : document.signatures[i].keyid \in Ids(key)}

\* (mutant) The signature of the key need not be over the payload.
VerifiesKeyid(document, key) == Own(document, key) # {}

\* A Metablock looks at the first of them, an Envelope at any.
Verifies(document, key) ==
  \E i \in Own(document, key) :
    /\ document.signatures[i].payload = document.payload
    /\ document.kind = "metablock" => \A j \in Own(document, key) : i <= j

\* All public keys are loaded first; an Envelope takes no gpg key.
Verify(p) ==
  LET r == request[p]
  IN  /\ phase[p] = "loaded" /\ r.verify
      /\ Exit(p, IF KeysFail(r, loaded[p]) THEN 2
                 ELSE IF \A key \in Seqs!ToSet(r.keys) : Verifies(loaded[p], key) THEN 0 ELSE 1)
      /\ UNCHANGED <<file, request, loaded, runs, edits, made, fresh, kept>>

(***************************************************************************)
(* The process is killed; somebody edits a document, whose signatures stay *)
(***************************************************************************)
Crash(p) ==
  /\ phase[p] \in {"loaded", "writing"}
  /\ phase' = [phase EXCEPT ![p] = "done"]
  /\ fresh' = fresh \ {p}
  /\ kept' = IF phase[p] = "writing" THEN [kept EXCEPT ![OutPath(p)] = {}] ELSE kept
  /\ UNCHANGED <<file, request, loaded, exit, runs, edits, made>>

EditPayload(f, payload) ==
  /\ edits < MaxEdits
  /\ edits' = edits + 1
  /\ IsDocument(file[f]) /\ Writers(f) = {}
  /\ payload # file[f].payload
  /\ file' = [file EXCEPT ![f].payload = payload]
  /\ fresh' = fresh \ Readers(f)
  /\ UNCHANGED <<phase, request, loaded, exit, runs, made, kept>>

Next ==
  \/ \E p \in Processes :
       \/ \E r \in Requests : Start(p, r)
       \/ FailToSign(p)
       \/ SignAndOpen(p)
       \/ Write(p)
       \/ Verify(p)
       \/ Crash(p)
  \/ \E f \in Paths, payload \in Payloads : EditPayload(f, payload)

Spec == Init /\ [][Next]_vars

(***************************************************************************)
(* Properties                                                              *)
(***************************************************************************)
\* What the name of a link file says of what is in it.
NamedFor(content, keyid) ==
  IsDocument(content) =>
    /\ content.type = "link"
    /\ [i \in DOMAIN content.signatures |-> content.signatures[i].keyid] = <<keyid>>

\* Files that begin as their names say, and --output names no link file.
NamesRespected ==
  /\ \A files \in StartFiles, keyid \in Keyids : NamedFor(files[LinkFile[keyid]], keyid)
  /\ \A r \in Requests, keyid \in Keyids : r.output # LinkFile[keyid]

\* Types; and a link file has one signature, by the key its name tells,
\* whatever is signed, re-signed, interrupted or run at the same time (if
\* NamesRespected).
TypeOK ==
  /\ \A f \in Paths : IsDocument(file[f]) => file[f] \in Document
  /\ \A p \in Processes : /\ phase[p] \in {"idle", "loaded", "writing", "done"}
                          /\ exit[p] \in {None, 0, 1, 2}
                          /\ phase[p] \in {"loaded", "writing"} => loaded[p] \in Document
  /\ \A keyid \in Keyids : NamedFor(file[LinkFile[keyid]], keyid)

\* Exit code 0 is the truth.  Of --verify: each of the keys, or a subkey, has
\* signed this very payload.  Of signing: the document written verifies for
\* each key, unless a Metablock was appended to that held a stale signature of
\* that key, which stays in front of the new one.
ExitsTruthfully ==
  \A p \in Processes :
    phase[p] = "done" /\ exit[p] = 0 =>
      IF request[p].verify
      THEN \A key \in Seqs!ToSet(request[p].keys) :
             \E keyid \in Ids(key) : <<keyid, loaded[p].payload>> \in made
      ELSE \A key \in Seqs!ToSet(SigningKeys(request[p])) :
             \/ Verifies(Signed(p), key)
             \/ /\ request[p].append /\ loaded[p].kind = "metablock"
                /\ \E i \in DOMAIN loaded[p].signatures :
                     LET s == loaded[p].signatures[i]
                     IN  s.keyid \in Ids(key) /\ s.payload # loaded[p].payload

\* Signatures that runs which exited with 0 have put into a file stay there
\* through any number of runs that append, until one replaces them, one is
\* killed while it writes, or one writes that has loaded the file before.
SignaturesKept ==
  \A f \in Paths :
    Writers(f) = {} => /\ kept[f] # {} => IsDocument(file[f])
                       /\ IsDocument(file[f]) => kept[f] \subseteq Seqs!ToSet(file[f].signatures)
=============================================================================
