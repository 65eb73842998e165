-------------------------- MODULE MCLinkRecording --------------------------
(***************************************************************************)
(* Instances of LinkRecording for TLC.                                     *)
(***************************************************************************)
EXTENDS LinkRecording, TLC

CONSTANTS a, b,            \* functionaries
          build, foo, fooBar

\* b's gpg home holds a's public key.
MCKeyring == a :> {a} @@ b :> {a, b}

\* The glob of a step finds its own unfinished files only.
MCMatches == build :> {build} @@ foo :> {foo}

\* Steps "foo" and "foo.bar": ".foo.*.link-unfinished" matches the files of both.
MCMatchesDotted == foo :> {foo, fooBar} @@ fooBar :> {fooBar}

=============================================================================
