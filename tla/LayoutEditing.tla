--------------------------- MODULE LayoutEditing ---------------------------
(***************************************************************************)
(* A project owner and a verifier, each with a layout in hand: adding and  *)
(* removing steps, inspections, keys and rules (layout.py), wrapping the   *)
(* layout in a container, signing, storing and loading it (metadata.py),   *)
(* and the first phases of verification, which rewrite the layout they are *)
(* given: substitute_parameters (verifylib.py).                            *)
(*                                                                         *)
(* A Metablock holds the layout object itself, which later edits change;   *)
(* an Envelope holds the bytes the layout had when it was wrapped.         *)
(***************************************************************************)
EXTENDS RuleGrammar, SequencesExt

CONSTANTS
  Names, Keys,       \* of items; key ids
  MissingKey,        \* a path, or a gpg keyid, without a key
  Placeholders,      \* words "{name}" that parameters replace
  StartLayouts,      \* the layouts constructed at the start
  NewItems,          \* the items appended
  NewRules,          \* calls of add_*_rule_from_string: item list, rule list, tokens
  NewCommands,       \* commands given to set_*_from_string
  RuleStrings,       \* token lists given to unpack_rule by itself
  KeyLists,          \* lists given to add_functionary_keys_from_paths or _gpg_keyids
  ParameterDicts,    \* parameter dictionaries, functions on placeholders
  Malformed,         \* an attribute value that does not validate
  None,
  MaxEdits, MaxSignatures

(***************************************************************************)
(* The attributes of layouts and their items; an item of either list has a *)
(* command (expected_command of a step, run of an inspection).             *)
(***************************************************************************)
Lists == {"steps", "inspect"}
RuleLists == {"expected_materials", "expected_products"}

Item == [name : Names, expected_materials : Seq(Rule), expected_products : Seq(Rule),
         command : Seq(Words)]
Layout == [steps : Seq(Item), inspect : Seq(Item), keys : SUBSET Keys,
           expires : {"later", Malformed}]

\* What is passed to the mutators has passed their argument checks; a placeholder is
\* written in braces and is no keyword.
ASSUME LayoutAssumption ==
  /\ KEYWORDS \cup {EmptyWord} \subseteq STRING /\ EmptyWord \notin KEYWORDS
  /\ Placeholders \cap KEYWORDS = {}
  /\ StartLayouts \subseteq Layout
  /\ NewItems \subseteq Item
  /\ \A new \in NewRules : new.rules \in RuleLists /\ new.rule \in Rule
  /\ NewCommands \subseteq Seq(Words)
  /\ RuleStrings \subseteq Rule
  /\ KeyLists \subseteq Seq(Keys \cup {MissingKey})
  /\ \A parameters \in ParameterDicts :
       \A name \in DOMAIN parameters : parameters[name] \in STRING
  /\ MaxEdits \in Nat

VARIABLES
  layout,   \* the Layout object in hand
  box,      \* its container: the kind, the bytes of an Envelope, what was signed
  file,     \* the container on disk
  edits,    \* how many edits were made
  parsed,   \* a rule parsed by unpack_rule, and packed again
  last,     \* history: the last removal
  used      \* history: what the last verification continued with
vars == <<layout, box, file, edits, parsed, last, used>>

(***************************************************************************)
(* Validation                                                              *)
(***************************************************************************)
Items(l) == l.steps \o l.inspect
RulesOf(item) == ToSet(item.expected_materials \o item.expected_products)

ValidItem(item) == \A rule \in RulesOf(item) : Unpack(rule) # {}

Validate(l) == /\ l.expires # Malformed
               /\ \A i \in DOMAIN Items(l) : ValidItem(Items(l)[i])
               /\ \A i, j \in DOMAIN Items(l) : Items(l)[i].name = Items(l)[j].name => i = j

(***************************************************************************)
(* Editing                                                                 *)
(***************************************************************************)
NoBox == [kind |-> "none", bytes |-> None, signatures |-> << >>]
NoFile == NoBox

Init == /\ layout \in StartLayouts
        /\ Validate(layout)
        /\ box = NoBox /\ file = NoFile
        /\ edits = 0
        /\ parsed = None /\ last = None /\ used = None

\* An edit that changes nothing is left out.
Edit(new) == /\ edits < MaxEdits /\ parsed = None
             /\ new # layout
             /\ edits' = edits + 1
             /\ layout' = new
             /\ used' = None
             /\ UNCHANGED <<box, file, parsed>>

\* layout.steps.append(Step(...)), whose constructor validates the item.
AppendItem(list, item) ==
  /\ ValidItem(item)
  /\ Edit([layout EXCEPT ![list] = Append(@, item)])
  /\ last' = None

\* (mutant) The loop ends with the first removal.
RemoveOnce(items, name) == RemoveFirstMatch(items, LAMBDA item : item.name = name)

\* One turn of the loop, which walks over the list it removes from; list.remove takes
\* the first item that equals the one at hand.
RemoveTurn(items, name, i) ==
  IF i \in DOMAIN items /\ items[i].name = name THEN RemoveFirst(items, items[i]) ELSE items

RemoveNamed(items, name) ==
  LET rest[i \in 0 .. Len(items)] ==
        IF i = 0 THEN items ELSE RemoveTurn(rest[i - 1], name, i)
  IN  rest[Len(items)]

RemoveByName(list, name) ==
  /\ Edit([layout EXCEPT ![list] = RemoveNamed(@, name)])
  /\ last' = [list |-> list, name |-> name]

\* (mutant) The rule is appended as it was typed.
AddRuleUnchecked(list, i, rules, rule) ==
  /\ Edit([layout EXCEPT ![list][i][rules] = Append(@, rule)])
  /\ last' = None

AddRule(list, i, rules, rule) ==
  /\ Unpack(rule) # {}
  /\ Edit([layout EXCEPT ![list][i][rules] = Append(@, rule)])
  /\ last' = None

SetCommand(list, i, command) ==
  /\ Edit([layout EXCEPT ![list][i].command = command])
  /\ last' = None

\* From paths or from gpg keyids, one after the other: the keys before one that
\* cannot be loaded stay.
AddFunctionaryKeys(paths) ==
  LET loaded == {i \in DOMAIN paths : \A j \in 1..i : paths[j] # MissingKey}
  IN  /\ Edit([layout EXCEPT !.keys = @ \cup {paths[i] : i \in loaded}])
      /\ last' = None

\* Attributes are plain: any value can be assigned to them.
AssignExpires ==
  /\ Edit([layout EXCEPT !.expires = Malformed])
  /\ last' = None
SetRelativeExpiration ==
  /\ layout.expires = Malformed
  /\ Edit([layout EXCEPT !.expires = "later"])
  /\ last' = None

\* unpack_rule and pack_rule, called by themselves (bounded to the start).
ParseRule(rule) ==
  /\ edits = 0 /\ box = NoBox /\ parsed = None
  /\ parsed' = [rule |-> rule, data |-> Unpack(rule),
                again |-> UNION {UNION {Unpack(r) : r \in Pack(d)} : d \in Unpack(rule)}]
  /\ UNCHANGED <<layout, box, file, edits, last, used>>

(***************************************************************************)
(* Containers                                                              *)
(***************************************************************************)
\* (mutant) The bytes that are signed leave the commands of steps out.
SignableWithoutCommands(l) ==
  [l EXCEPT !.steps = [i \in DOMAIN @ |-> [@[i] EXCEPT !.command = << >>]]]

\* Canonical JSON: different layouts have different bytes.
SignableBytes(l) == l

Metablock(bytes, signatures) ==
  [kind |-> "metablock", bytes |-> bytes, signatures |-> signatures]
Envelope(bytes, signatures) ==
  [kind |-> "envelope", bytes |-> bytes, signatures |-> signatures]

\* What is signed and stored: the layout of a Metablock as it is now.
Payload == IF box.kind = "envelope" THEN box.bytes ELSE layout

\* The constructor of a Metablock validates what it holds.
WrapInMetablock ==
  /\ parsed = None
  /\ Validate(layout)
  /\ box' = Metablock(None, << >>)
  /\ last' = None /\ used' = None
  /\ UNCHANGED <<layout, file, edits, parsed>>

\* from_signable does not.
WrapInEnvelope ==
  /\ parsed = None
  /\ box' = Envelope(layout, << >>)
  /\ last' = None /\ used' = None
  /\ UNCHANGED <<layout, file, edits, parsed>>

CreateSignature ==
  /\ box.kind # "none" /\ Len(box.signatures) < MaxSignatures
  /\ box' = [box EXCEPT !.signatures = Append(@, SignableBytes(Payload))]
  /\ last' = None /\ used' = None
  /\ UNCHANGED <<layout, file, edits, parsed>>

\* The file is written once (a bound).
Dump ==
  /\ box.kind # "none"
  /\ file = NoFile
  /\ file' = [box EXCEPT !.bytes = Payload]
  /\ last' = None /\ used' = None
  /\ UNCHANGED <<layout, box, edits, parsed>>

\* Loading a Metablock makes a new layout object of it; FormatError when that
\* does not validate.
LoadMetablock ==
  /\ file.kind = "metablock"
  /\ Validate(file.bytes)
  /\ layout' = file.bytes
  /\ box' = Metablock(None, file.signatures)
  /\ last' = None /\ used' = None
  /\ UNCHANGED <<file, edits, parsed>>

LoadEnvelope ==
  /\ file.kind = "envelope"
  /\ box' = file
  /\ last' = None /\ used' = None
  /\ UNCHANGED <<layout, file, edits, parsed>>

\* get_payload of an Envelope: every call reads and validates the bytes anew.
GetPayload ==
  /\ box.kind = "envelope"
  /\ Validate(box.bytes)
  /\ layout' = box.bytes
  /\ last' = None /\ used' = None
  /\ UNCHANGED <<box, file, edits, parsed>>

(***************************************************************************)
(* Verification, up to the substitution of parameters                      *)
(***************************************************************************)
Substitute(token, parameters) ==
  IF token.word \in Placeholders THEN Lower(parameters[token.word]) ELSE token
SubstituteList(tokens, parameters) ==
  [i \in DOMAIN tokens |-> Substitute(tokens[i], parameters)]
SubstituteLists(lists, parameters) ==
  [i \in DOMAIN lists |-> SubstituteList(lists[i], parameters)]

SubstituteItem(item, parameters) ==
  [item EXCEPT !.expected_materials = SubstituteLists(@, parameters),
               !.expected_products = SubstituteLists(@, parameters),
               !.command = SubstituteList(@, parameters)]

WordsOf(item) ==
  {t.word : t \in ToSet(item.command) \cup UNION {ToSet(r) : r \in RulesOf(item)}}
Known(item, parameters) == WordsOf(item) \cap Placeholders \subseteq DOMAIN parameters

\* How many items are rewritten, steps before inspections: all before the first
\* with a placeholder that has no value, which raises KeyError.
Rewritable(l, parameters) ==
  Cardinality({i \in DOMAIN Items(l) :
                 \A j \in 1..i : Known(Items(l)[j], parameters)})

SubstituteParameters(l, parameters) ==
  LET n == Rewritable(l, parameters)
  IN  [l EXCEPT !.steps = [i \in DOMAIN @ |->
                             IF i <= n THEN SubstituteItem(@[i], parameters) ELSE @[i]],
                !.inspect = [i \in DOMAIN @ |->
                               IF Len(l.steps) + i <= n
                               THEN SubstituteItem(@[i], parameters) ELSE @[i]]]

\* A Metablock looks at the first signature of the key, an Envelope at any.
VerifySignature ==
  IF box.kind = "metablock"
  THEN box.signatures # << >> /\ Head(box.signatures) = SignableBytes(layout)
  ELSE SignableBytes(box.bytes) \in ToSet(box.signatures)

\* The layout a verification works on: the object of a Metablock, a fresh one
\* of an Envelope.  verify_layout_expiration parses the date, which has not come.
VerifyLayout(parameters) ==
  LET l == Payload
      new == IF parameters = None THEN l ELSE SubstituteParameters(l, parameters)
      complete == parameters = None \/ Rewritable(l, parameters) = Len(Items(l))
  IN  /\ box.kind # "none"
      /\ VerifySignature
      /\ box.kind = "envelope" => Validate(l)
      /\ l.expires # Malformed
      /\ used' = IF complete THEN [layout |-> new, parameters |-> parameters] ELSE None
      /\ layout' = IF box.kind = "metablock" THEN new ELSE layout
      /\ last' = None
      /\ UNCHANGED <<box, file, edits, parsed>>

Positions(list) == DOMAIN layout[list]

Next ==
  \/ \E list \in Lists :
       \/ \E item \in NewItems : AppendItem(list, item)
       \/ \E name \in Names : RemoveByName(list, name)
       \/ \E i \in Positions(list) :
            \/ \E new \in NewRules : list = new.list /\ AddRule(list, i, new.rules, new.rule)
            \/ \E command \in NewCommands : SetCommand(list, i, command)
  \/ \E paths \in KeyLists : AddFunctionaryKeys(paths)
  \/ AssignExpires
  \/ SetRelativeExpiration
  \/ \E rule \in RuleStrings : ParseRule(rule)
  \/ WrapInMetablock
  \/ WrapInEnvelope
  \/ CreateSignature
  \/ Dump
  \/ LoadMetablock
  \/ LoadEnvelope
  \/ GetPayload
  \/ \E parameters \in ParameterDicts \cup {None} : VerifyLayout(parameters)

Spec == Init /\ [][Next]_vars

(***************************************************************************)
(* Properties                                                              *)
(***************************************************************************)
IsLayout(l) == l \in Layout /\ \A i \in DOMAIN Items(l) : ValidItem(Items(l)[i])

\* Types: whatever is edited, substituted, stored and loaded, all rules that a
\* layout in hand or on disk holds can be unpacked.
TypeOK ==
  /\ IsLayout(layout)
  /\ box.kind \in {"none", "metablock", "envelope"}
  /\ file.kind \in {"none", "metablock", "envelope"}
  /\ box.kind = "envelope" => IsLayout(box.bytes)
  /\ file.kind # "none" => IsLayout(file.bytes)
  /\ \A i \in DOMAIN box.signatures : IsLayout(box.signatures[i])
  /\ edits \in 0..MaxEdits

\* unpack_rule accepts exactly the language its docstring describes, finds one
\* reading of every rule, and what pack_rule writes of it reads the same; only a
\* MATCH rule whose step name is empty is refused by pack_rule.
GrammarExact ==
  parsed # None =>
    /\ parsed.data # {} <=> InLanguage(parsed.rule)
    /\ Cardinality(parsed.data) <= 1
    /\ parsed.again = {d \in parsed.data : d.rule_type = "match" =>
                                             d.dest_name.word # EmptyWord}

\* new is old without some of its items of that name.
KeepsOthers(new, old, name) ==
  \E at \in [DOMAIN new -> DOMAIN old] :
    /\ \A i, j \in DOMAIN new : i < j => at[i] < at[j]
    /\ \A i \in DOMAIN new : new[i] = old[at[i]]
    /\ \A k \in DOMAIN old : old[k].name # name => \E i \in DOMAIN new : at[i] = k

\* remove_step_by_name and remove_inspection_by_name keep all other items in their
\* order, touch nothing else, and, if no two items of the name stand in a row, remove all
\* of that name, though the loop walks over the list it removes from.  (A validated
\* layout has one item of a name; what happens to two in a row, see RemovesAllNamed.)
RemovesNamed ==
  [][last' # None =>
       LET old == layout[last'.list]
           new == layout'[last'.list]
           Named(items) == {i \in DOMAIN items : items[i].name = last'.name}
       IN  /\ KeepsOthers(new, old, last'.name)
           /\ (\A i \in Named(old) : i - 1 \notin Named(old)) => Named(new) = {}
           /\ layout' = [layout EXCEPT ![last'.list] = new]]_vars

\* What the docstrings of both say of any layout: "Removes all steps identified" and
\* "Removes all inspections identified".
RemovesAllNamed ==
  last # None =>
    \A i \in DOMAIN layout[last.list] : layout[last.list][i].name # last.name

\* A verification goes on with exactly what was signed, with the parameters of
\* this call and no other, in spite of earlier calls that rewrote, all or in
\* part, the same object; and with a valid layout, whatever an Envelope was made of.
UsedAsSigned ==
  used # None =>
    \E signed \in ToSet(box.signatures) :
      /\ used.layout = IF used.parameters = None THEN signed
                       ELSE [signed EXCEPT
                               !.steps = [i \in DOMAIN @ |-> SubstituteItem(@[i], used.parameters)],
                               !.inspect = [i \in DOMAIN @ |->
                                              SubstituteItem(@[i], used.parameters)]]
      /\ box.kind = "envelope" => Validate(signed)
=============================================================================
