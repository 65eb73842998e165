-------------------------- MODULE MCLinkThresholds --------------------------
(***************************************************************************)
(* LinkThresholds for TLC: two main keys, the first with a gpg subkey; a   *)
(* third main key whose short keyid is that of the first.                  *)
(***************************************************************************)
EXTENDS LinkThresholds, TLC

CONSTANTS k1, s1, k2, k3, r1, r2,
          Thresholds   \* thresholds of the one-step layouts

MCKeyids == {k1, s1, k2, k3}
MCShort == k1 :> "k1" @@ s1 :> "s1" @@ k2 :> "k2" @@ k3 :> "k1"
MCStepNames == {"build", "test"}
MCPayloads == {r1, r2}

Keys == k1 :> <<s1>> @@ k2 :> << >>
AllKeys == Keys @@ k3 :> << >>

OneStep(keys, pubkeys, threshold) ==
  [keys |-> keys,
   steps |-> <<[name |-> "build", pubkeys |-> pubkeys, threshold |-> threshold]>>]

SingleStep ==
  {OneStep(Keys, p, t) : p \in {<<k1, k2>>, <<s1, k2>>, <<k2, k1, s1>>}, t \in Thresholds \ {0}}
    \cup {OneStep(Keys, <<k1>>, t) : t \in Thresholds}
Colliding == {OneStep(AllKeys, <<k1, k3, k2>>, t) : t \in Thresholds \ {0}}
TwoSteps ==
  {[keys |-> Keys,
    steps |-> <<[name |-> "build", pubkeys |-> <<k1, k2>>, threshold |-> 2],
                [name |-> "test", pubkeys |-> <<k2>>, threshold |-> 1]>>]}

MCLayouts == SingleStep \cup Colliding \cup TwoSteps

Sig(k, good) == [keyid |-> k, good |-> good]
Metablock(sigs, r) == [container |-> "metablock", signatures |-> sigs, payload |-> r]
Envelope(sigs, r) == [container |-> "envelope", signatures |-> sigs, payload |-> r]

\* Good links, a link with a stale signature before the good one (in both
\* containers), a link signed by someone else, links signed by a subkey, an Envelope
\* where a gpg key would have to verify it.
K1Links == {Metablock(<<Sig(k1, TRUE)>>, r1), Metablock(<<Sig(k1, TRUE)>>, r2),
            Metablock(<<Sig(k1, FALSE), Sig(k1, TRUE)>>, r1),
            Metablock(<<Sig(s1, TRUE)>>, r1), Metablock(<<Sig(k2, TRUE)>>, r1),
            Envelope(<<Sig(k1, TRUE)>>, r1)}
S1Links == {Metablock(<<Sig(s1, TRUE)>>, r2)}
K2Links == {Metablock(<<Sig(k2, TRUE)>>, r1), Envelope(<<Sig(k2, FALSE), Sig(k2, TRUE)>>, r2),
            Envelope(<<Sig(k2, FALSE)>>, r1)}
K3Link == Metablock(<<Sig(k3, TRUE)>>, r1)

Contents(docs) == {Absent} \cup {Holding(d) : d \in docs}

Directory(b1, bs, b2, t2) ==
  [f \in FileName |->
     CASE f = <<"build", "k1">> -> b1
       [] f = <<"build", "s1">> -> bs
       [] f = <<"build", "k2">> -> b2
       [] f = <<"test", "k2">> -> t2
       [] OTHER -> Absent]

MCFiles ==
  [lay \in MCLayouts |->
     IF lay \in TwoSteps
     THEN {Directory(b1, Absent, b2, t2) :
             b1 \in Contents({Metablock(<<Sig(k1, TRUE)>>, r1)}), b2 \in Contents(K2Links),
             t2 \in Contents(K2Links)}
     ELSE {Directory(b1, bs, b2, Absent) :
             b1 \in Contents(K1Links \cup {K3Link}), bs \in Contents(S1Links),
             b2 \in Contents(K2Links)}]

\* What is published is validly signed by the functionary the file is named after.
MCPublications ==
  [lay \in MCLayouts |->
     [f \in FileName |->
        CASE f = <<"build", "k1">> -> {Metablock(<<Sig(k1, TRUE)>>, r1)}
          [] f = <<"build", "k2">> -> {Metablock(<<Sig(k2, TRUE)>>, r1)}
          [] f = <<"build", "s1">> -> {Metablock(<<Sig(s1, TRUE)>>, r2)}
          [] f = <<"test", "k2">> -> {Metablock(<<Sig(k2, TRUE)>>, r2)}
          [] OTHER -> {}]]

\* The premise of NobodyOverlooked.
ASSUME MCPublicationsHonest == HonestPublications
=============================================================================
