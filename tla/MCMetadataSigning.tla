------------------------- MODULE MCMetadataSigning -------------------------
(***************************************************************************)
(* MetadataSigning for TLC: two processes, a layout in a Metablock, one in *)
(* an Envelope and a link; two keys in files and a gpg key that signs with *)
(* a subkey.                                                               *)
(***************************************************************************)
EXTENDS MetadataSigning, TLC

MCKeys == {"k1", "k2", "gpg"}
MCKeyids == MCKeys \cup {"sub"}
MCLinkFile == [keyid \in MCKeyids |-> CASE keyid = "k1" -> "s.k1.link"
                                        [] keyid = "k2" -> "s.k2.link"
                                        [] keyid = "gpg" -> "s.gpg.link"
                                        [] keyid = "sub" -> "s.sub.link"]
MCPaths == {"root.layout", "dsse.layout"} \cup {MCLinkFile[k] : k \in MCKeyids}

MCSigningKeyid == [key \in MCKeys |-> IF key = "gpg" THEN "sub" ELSE key]
MCSubkeys == [key \in MCKeys |-> IF key = "gpg" THEN {"sub"} ELSE {}]

Doc(kind, type, signatures) ==
  [kind |-> kind, type |-> type, payload |-> 1, signatures |-> signatures]
By(keyid) == <<[keyid |-> keyid, payload |-> 1]>>

MCStartFiles ==
  {[f \in MCPaths |->
      CASE f = "root.layout" -> Doc("metablock", "layout", By("k1"))
        [] f = "dsse.layout" -> Doc("envelope", "layout", By("k1"))
        [] f = "s.k1.link" -> Doc("metablock", "link", By("k1"))
        [] OTHER -> Absent]}

Sign(path, keys, append, output) == Request(path, keys, FALSE, append, FALSE, output)
Gpg(path, keys, append) == Request(path, keys, TRUE, append, FALSE, None)
Check(path, keys, gpg) == Request(path, keys, gpg, FALSE, TRUE, None)

MCRequests ==
  {Sign("root.layout", <<"k1">>, TRUE, None), Sign("root.layout", <<"k2">>, TRUE, None),
   Sign("root.layout", <<"k2">>, FALSE, None), Sign("root.layout", <<"k1", "none">>, FALSE, None),
   Gpg("root.layout", << >>, TRUE), Gpg("dsse.layout", <<"gpg">>, TRUE),
   Sign("dsse.layout", <<"k1", "k2">>, TRUE, None),
   Sign("dsse.layout", <<"k2">>, FALSE, "root.layout"),
   Sign("s.k1.link", <<"k2">>, FALSE, None), Sign("s.k1.link", <<"k1", "k2">>, FALSE, None),
   Gpg("s.k1.link", << >>, FALSE), Sign("s.k1.link", <<"k2">>, TRUE, None),
   Check("root.layout", <<"k1", "k2">>, FALSE), Check("root.layout", <<"gpg">>, TRUE),
   Check("dsse.layout", <<"k1">>, FALSE), Check("dsse.layout", <<"gpg">>, TRUE),
   Check("root.layout", << >>, TRUE)}

ASSUME MCNames == NamesRespected
=============================================================================
