--------------------------- MODULE MCInTotoVerify ---------------------------
(***************************************************************************)
(* InTotoVerify for TLC: an owner key; functionaries k1, with a gpg        *)
(* subkey s1, and k2; the step "build", which one or both of them may      *)
(* delegate; a sublayout with the step "compile", which may be delegated   *)
(* once more.                                                              *)
(***************************************************************************)
EXTENDS InTotoVerify, TLC

CONSTANTS owner, k1, s1, k2, foo, h1, h2, none, no_path

MCKeyids == {owner, k1, s1, k2}
MCShort == owner :> "owner" @@ k1 :> "k1" @@ s1 :> "s1" @@ k2 :> "k2"
MCStepNames == {"build", "compile"}
MCNames == MCStepNames \cup {"check", "scan"}
MCPaths == {foo}
MCHashes == {h1, h2}
MCPrefixes == {none}
MCStrip == none :> (foo :> foo)

All == {foo}
Match(type, name) ==
  [rule_type |-> "match", pattern |-> All, source_prefix |-> none, dest_prefix |-> none,
   dest_type |-> type, dest_name |-> name]
Disallow == [rule_type |-> "disallow", pattern |-> All]
Allow == [rule_type |-> "allow", pattern |-> All]
Modify == [rule_type |-> "modify", pattern |-> All]

Step(name, pubkeys, threshold, rules) ==
  [name |-> name, pubkeys |-> pubkeys, threshold |-> threshold,
   expected_materials |-> << >>, expected_products |-> rules]
Inspect(name, run, rules) ==
  [name |-> name, run |-> run, expected_materials |-> rules, expected_products |-> << >>]

Keys == k1 :> <<s1>> @@ k2 :> << >>
Layout(keys, steps, inspect, expires) ==
  [type_ |-> "layout", keys |-> keys, steps |-> steps, inspect |-> inspect, expires |-> expires]

\* What the final product, foo, should be: what "build" made of it.
FromBuild == <<Match("products", "build"), Disallow>>
Check == Inspect("check", "verify", FromBuild)
Scan == Inspect("scan", "clean", << >>)

Doc_(container, signer, good, payload) ==
  [container |-> container, signatures |-> <<[keyid |-> signer, good |-> good]>>,
   payload |-> payload]
By(signer, payload) == Doc_("metablock", signer, TRUE, payload)

Foo(h) == foo :> h
Built(before, after) == LinkOf(Foo(before), Foo(after))

\* Sublayouts for "build": one step of one's own; the same delegated further; expired.
Sub(expires) ==
  Layout(k2 :> << >>, <<Step("compile", <<k2>>, 1, <<Modify, Disallow>>)>>, <<Scan>>, expires)
Subs == {Sub(9), Sub(1)}
Deep == Layout(k2 :> << >>, <<Step("compile", <<k2>>, 1, << >>),
                              Step("build", <<k2>>, 1, << >>)>>, << >>, 9)

RootLayouts ==
  {Layout(Keys, <<Step("build", pk, t, rules)>>, inspect, 9) :
     pk \in {<<k1, k2>>}, t \in {1, 2}, rules \in {<<Modify, Disallow>>},
     inspect \in {<<Check>>, <<Scan, Check>>}}
TemplateLayout ==
  Layout(Keys, <<Step("build", <<k1, k2>>, 1, <<Disallow>>)>>, <<Check>>, 9)
MCFormat ==
  "complete" :> (TemplateLayout :>
     Layout(Keys, <<Step("build", <<k1, k2>>, 1, <<Modify, Disallow>>)>>, <<Check>>, 9))
  @@ "incomplete" :> << >>

\* Commands: "verify" changes nothing and may fail, "clean" may also change foo.
Ends(result, after) == [result |-> result, after |-> after]
MCCommands ==
  "verify" :> [a \in Artifacts |->
                 {Ends("zero", a), Ends("BadReturnValueError", a)}]
  @@ "clean" :> [a \in Artifacts |->
                 {Ends("zero", a), Ends("zero", Foo(h1)), Ends("TimeoutExpired", Foo(h1))}]
MCProject == Foo(h1)

\* What k1, s1 and k2 may have filed for "build": links, sublayouts, one that has
\* expired, files signed by someone else, Envelopes (which k1, a gpg key, cannot verify).
K1Files == {By(k1, Built(h1, h2)), By(k2, Built(h1, h2)), By(k1, Sub(9)), By(k1, Sub(1)),
            By(s1, Sub(9)), Doc_("envelope", k1, TRUE, Sub(9))}
S1Files == {By(s1, Sub(9)), By(s1, Built(h1, h2))}
K2Files == {By(k2, Built(h1, h2)), By(k2, Built(h2, h1)), By(k2, Sub(9)),
            Doc_("envelope", k2, TRUE, Sub(9))}
\* And in the directory of a sublayout, for "compile".
CompileFiles == {By(k2, Built(h1, h2)), By(k2, Built(h1, h1)), By(k2, Deep)}

Optional(S) == {{}} \cup {{x} : x \in S}
File(name, k, docs) == [f \in {<<name, k>> : d \in docs} |-> CHOOSE d \in docs : TRUE]

FilesOf(b1, bs, b2, c) ==
     << >> :> (File("build", "k1", b1) @@ File("build", "s1", bs) @@ File("build", "k2", b2))
  @@ [path \in {<< <<"build", k>> >> : k \in {"k1", "s1", "k2"}} |-> File("compile", "k2", c)]
  @@ [path \in {<< <<"build", k>>, <<"compile", "k2">> >> : k \in {"k1", "s1", "k2"}} |->
        File("compile", "k2", {By(k2, Built(h1, h1))}) @@ File("build", "k2", {By(k2, Built(h1, h2))})]

OwnerKey == owner :> {Key(owner, << >>)}
Call(metadata, keys, params, files, persist, base) ==
  [metadata |-> metadata, keys |-> keys, params |-> params, files |-> files,
   persist |-> persist, base_path |-> base, cwd |-> Foo(h2)]

\* With and without persistent inspection links and a base path.
CallOn(layout, files) ==
  LET persist == Len(layout.inspect) = 1
  IN  Call(By(owner, layout), OwnerKey, NoParams, files, persist,
           IF persist THEN "unset" ELSE "project")

Products ==
  {CallOn(layout, FilesOf(b1, bs, b2, c)) :
     layout \in RootLayouts, b1 \in Optional(K1Files), bs \in Optional(S1Files),
     b2 \in Optional(K2Files), c \in Optional(CompileFiles)}

\* Calls with other keys, parameters and layouts.
Links1 == FilesOf({By(k1, Built(h1, h2))}, {}, {}, {})
Simple(metadata, keys, params) == Call(metadata, keys, params, Links1, TRUE, "project")
Others ==
  {Simple(By(signer, TemplateLayout), keys, params) :
     signer \in {owner, k2},
     keys \in {<< >>, OwnerKey, OwnerKey @@ k2 :> {Key(k2, << >>)}, OwnerKey @@ k2 :> {}},
     params \in {NoParams, "complete", "incomplete"}}
  \cup {Simple(By(owner, Layout(Keys, << >>, inspect, e)), OwnerKey, NoParams) :
           inspect \in {<< >>, <<Scan>>}, e \in {0, 1}}
  \cup {Call(By(owner, Layout(Keys, <<Step("build", <<k1, k2>>, 1, <<Disallow>>)>>, <<Check>>, 9)),
             OwnerKey, NoParams,
             FilesOf({By(k1, Sub(9))}, {}, {}, {By(k2, Built(h1, h2))}), FALSE, "unset")}
  \cup {Simple(By(owner, Layout(Keys, <<Step("compile", <<k1>>, 0, << >>)>>, <<Scan>>, 9)),
               OwnerKey, NoParams)}

MCCalls == Products \cup Others
MCPayloads ==
  UNION {{d.payload : d \in K1Files \cup S1Files \cup K2Files \cup CompileFiles},
         RootLayouts, {c.metadata.payload : c \in Others}}
=============================================================================
