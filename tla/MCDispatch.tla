------------------------------ MODULE MCDispatch ------------------------------
(***************************************************************************)
(* Containers for every kind of key, with a cipher and without, a private    *)
(* section behind the key that looks like more fields, and a security key's  *)
(* application inside the blob; all of them intact, cut off after every      *)
(* byte, and with every byte replaced by others.  A length takes two bytes   *)
(* of base 8: up to 63, while the longest container has less than 50 bytes.  *)
(* And DER values of every shape the recognisers know and of three elements   *)
(* of any kind, bundles of blocks, and every way for a file to begin.        *)
(***************************************************************************)
EXTENDS Dispatch

MCByte   == 0 .. 7
MCNumber == [b \in [1 .. 2 -> MCByte] |-> 8 * b[1] + b[2]]
MCKeyKind == [t \in {<<i>> : i \in 1 .. 6} |->
  CASE t[1] = 1 -> "rsa" [] t[1] = 2 -> "dsa" [] t[1] = 3 -> "ecdsa" [] t[1] = 4 -> "ed25519"
    [] t[1] = 5 -> "sk-ed25519" [] OTHER -> "sk-ecdsa"]
MCNistCurve == [c \in {<<5>>} |-> 384]
MCP256   == <<6>>
MCNoCipher == {<<>>, <<7>>}

Str(s) == <<Len(s) \div 8, Len(s) % 8>> \o s
Blobs == {Str(<<1>>) \o Str(<<3>>) \o Str(<<2, 1>>), Str(<<2>>) \o Str(<<1>>) \o Str(<<3>>),
          Str(<<3>>) \o Str(<<5>>) \o Str(<<4>>), Str(<<3>>) \o Str(<<4>>), Str(<<4>>) \o Str(<<2>>),
          Str(<<5>>), Str(<<6>>), Str(<<7>>) \o Str(<<1>>)}
MCMagic  == <<7, 0>>
Wrapped(c, n, b) == MCMagic \o Str(c) \o Str(<<1>>) \o Str(<<>>) \o <<0, n>> \o Str(b)
Whole == {Wrapped(c, n, b) \o Str(Str(<<2>>) \o Str(<<1, 1>>)) :
            c \in {<<7>>, <<>>, <<1>>}, n \in {1}, b \in {x \in Blobs : Len(x) < 8}}
         \cup {Wrapped(<<1>>, n, b) : n \in 0 .. 4, b \in Blobs}
Cut(p)     == {SubSeq(p, 1, n) : n \in 0 .. Len(p)}
Changed(p) == {[p EXCEPT ![i] = v] : i \in DOMAIN p, v \in MCByte}
MCPayloads == UNION {Cut(p) \cup Changed(p) : p \in Whole}

MCCipherName == [o \in {"rsaEncryption", "ecPublicKey", "ed25519", "data", "signedData", "pbes2",
                        "pbe", "aes"} |-> CASE o = "aes" -> <<1>> [] o = "pbe" -> <<2>> [] OTHER -> <<3>>]
MCPbes2 == <<4>>

Value(elems, trailing, k, params) ==
  [elems |-> elems, trailing |-> trailing, key |-> k, params |-> params]
NoDER == Value(<<>>, FALSE, "", "")
Elements == {"0", "1", "3", "rsaEncryption", "data", "signedData", "pbes2", "pbe", "tbs", "info",
             "octets", "empty", "bits"}
Values ==
  {Value(<<a, b, c>>, t, k, "") : a \in Elements, b \in Elements, c \in Elements,
                                  t \in BOOLEAN, k \in {"rsa", ""}}
  \cup {Value(<<a, b>>, t, k, "") : a \in Elements, b \in Elements, t \in BOOLEAN, k \in {"ecdsa", "other"}}
  \cup {Value(<<v>> \o [i \in 1 .. n |-> "big"], t, k, "") :
          v \in {"0", "1", "3"}, n \in {5, 8}, t \in BOOLEAN, k \in {"rsa", ""}}
Samples ==
  {NoDER, Value(<<"0">> \o [i \in 1 .. 8 |-> "big"], FALSE, "rsa", ""),
   Value(<<"0", "rsaEncryption", "octets">>, FALSE, "rsa", ""), Value(<<"1", "octets">>, FALSE, "ecdsa", "")}
  \cup {Value(<<a, "rsaEncryption", "bits">>, FALSE, k, "") : a \in {"tbs", "info"}, k \in {"rsa", "other", ""}}
  \cup {Value(<<o, "octets">>, FALSE, "", p) : o \in {"pbes2", "pbe"}, p \in {"aes", ""}}

MCBlock(type, header, der, p) ==
  [type |-> type, procType |-> header, dek |-> <<5>>, der |-> der, payload |-> p]
Sealed(p)  == MCBlock("OPENSSH PRIVATE KEY", FALSE, NoDER, p)
Intact(c)  == Wrapped(c, 1, Str(<<5>>))
Blocks ==
  {MCBlock(type, header, der, <<>>) : type \in PrivateTypes \cup OtherTypes, header \in BOOLEAN,
                                      der \in Samples}
  \cup {MCBlock("OPENSSH PRIVATE KEY", TRUE, NoDER, Intact(c)) : c \in MCNoCipher \cup {<<1>>}}
Few ==
  {Sealed(Intact(<<7>>)), Sealed(Intact(<<1>>)), Sealed(SubSeq(Intact(<<1>>), 1, 12)),
   MCBlock("PRIVATE KEY", FALSE, NoDER, <<>>), MCBlock("ENCRYPTED PRIVATE KEY", FALSE, NoDER, <<>>),
   MCBlock("RSA PRIVATE KEY", TRUE, NoDER, <<>>), MCBlock("CERTIFICATE", FALSE, NoDER, <<>>)}
Bundles == UNION {[1 .. n -> Few] : n \in 0 .. 3} \cup {<<b>> : b \in Blocks}
           \cup {<<Sealed(p)>> : p \in MCPayloads}

MCFile(start, marker, ppk, blocks, der) ==
  [start |-> start, marker |-> marker, ppk |-> ppk, blocks |-> blocks, der |-> der]
MCFiles ==
  {MCFile("other", TRUE, "invalid", blocks, NoDER) : blocks \in Bundles}
  \cup {MCFile("0x30", FALSE, "invalid", <<>>, der) : der \in Values \cup Samples}
  \cup {MCFile(s, m, p, IF m THEN <<Sealed(Intact(<<7>>))>> ELSE <<>>, der) :
          s \in {"jks", "jceks", "ppk", "0x30", "other"}, m \in BOOLEAN,
          p \in {"plaintext", "encrypted", "invalid"}, der \in Samples}
  \cup {MCFile("empty", FALSE, "invalid", <<>>, NoDER)}
=============================================================================
