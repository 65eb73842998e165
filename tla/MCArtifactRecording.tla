------------------------ MODULE MCArtifactRecording ------------------------
(***************************************************************************)
(* ArtifactRecording for TLC: a project directory with a directory "sub",  *)
(* which holds a file of a name that its parent holds too, one directory   *)
(* of its own name and an OSTree reference.                                *)
(***************************************************************************)
EXTENDS ArtifactRecording, TLC

CONSTANTS c1, c2, unreadable

MCNames == {"/", "top", "sub", "refs", "heads", "a", "r", "x", "none"}
MCHome == <<"/", "top">>
Sub == MCHome \o <<"sub">>
MCDirs == {<<"/">>, MCHome, Sub, Sub \o <<"sub">>, Sub \o <<"refs">>, Sub \o <<"refs", "heads">>}
MCContents == {c1, c2}

Tree == MCHome \o <<"a">> :> c1 @@ Sub \o <<"a">> :> c2
          @@ Sub \o <<"sub", "a">> :> c1 @@ Sub \o <<"refs", "heads", "r">> :> c2
MCTrees == {Tree, [Tree EXCEPT ![Sub \o <<"sub", "a">>] = unreadable]}

U(scheme, path) == [scheme |-> scheme, path |-> path]

\* Files and directories, some named twice, once by two uris of one resolver.
Files == {<<U("", << >>)>>, <<U("", <<"sub", "a">>), U("", <<"none">>), U("", << >>)>>,
          <<U("", <<"a">>), U("", <<"sub">>)>>, <<U("", <<"a">>), U("file", <<"sub">>)>>}
\* Two or three resolvers, whose batches succeed or fail.
Mixed == {<<U("ostree", <<"r">>), U("", <<"sub">>), U("ostree", <<"r">>)>>,
          <<U("dir", <<"sub">>), U("", <<"a">>)>>,
          <<U("", <<"a">>), U("dir", <<"sub", "sub">>), U("dir", <<"none">>)>>,
          <<U("custom", <<"x">>), U("file", <<"a">>)>>}
SameDirectory == {<<U("dir", <<"sub", "sub">>), U("dir", Sub \o <<"sub">>)>>}

Args(lists, base, strip, exclude) ==
  [artifacts : lists, base_path : base, lstrip_paths : strip, exclude_patterns : exclude]

MCArtifactBasePath == << >>

MCCalls ==
  Args(Files \cup Mixed \cup {<< >>}, {<< >>, <<"sub">>}, {<< >>}, {{}})
    \cup Args(Files \cup Mixed, {<< >>}, {<<<<"sub">>>>}, {{}})
    \cup Args(SameDirectory \cup {<<U("", Sub), U("", <<"a">>)>>}, {<< >>},
              {<<Sub, <<"sub">>>>, <<<<"sub">>, <<"sub", "sub">>>>}, {{}})
    \cup Args({<<U("dir", Sub \o <<"sub">>), U("", <<"a">>)>>}, {<<"sub">>}, {<< >>}, {{}})
    \cup Args(Mixed, {Sub, <<"none">>}, {<< >>}, {{<<"sub">>}, {<<"a">>, <<"refs">>}})

\* The same two files with and without scheme, of which stripping makes one name.
SchemeCalls ==
  Args({<<U(scheme, <<"a">>), U(scheme, <<"sub", "a">>)>> : scheme \in {"", "file"}},
       {<< >>}, {<<<<"sub">>>>}, {{}})
=============================================================================
