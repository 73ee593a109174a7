------------------------------- MODULE Dispatch -------------------------------
(***************************************************************************)
(* What parse.File makes of one file: the order in which the formats are    *)
(* tried (parse.go), the blocks scanPEM finds and what classifyPEM makes of  *)
(* each (pem.go), the recognisers of bare DER (der.go, pkcs8enc.go), and the *)
(* OpenSSH container, which Wire reads field by field.                       *)
(*                                                                         *)
(* A file is what these functions tell apart in it: how it begins, whether   *)
(* the PEM marker stands anywhere, the PEM blocks, and its DER.  A DER value  *)
(* is the outer SEQUENCE element by element ("0", "1", "3" and "big" are      *)
(* INTEGERs, an AlgorithmIdentifier or ContentInfo is named by its OID),      *)
(* whether bytes follow it, the key crypto/x509 finds inside ("" where it     *)
(* rejects the content), and the cipher of its PBES2 parameters.             *)
(***************************************************************************)
EXTENDS Wire

CONSTANTS
  Files,        \* the files
  CipherName,   \* the name reported for an OID: cipherNames, or "oid:..."
  Pbes2         \* the name reported where the parameters do not parse

Algorithms == {"rsa", "ecdsa", "ed25519"}
Small      == {"0", "1", "3"}
Integer    == Small \cup {"big"}
KeyOids    == {"rsaEncryption", "ecPublicKey", "ed25519"}
Pkcs7      == {"data", "signedData"}
Oids       == DOMAIN CipherName

PrivateTypes == {"RSA PRIVATE KEY", "PRIVATE KEY", "ENCRYPTED PRIVATE KEY", "EC PRIVATE KEY",
                 "DSA PRIVATE KEY", "OPENSSH PRIVATE KEY", "ANY PRIVATE KEY"}
OtherTypes   == {"CERTIFICATE", "CERTIFICATE REQUEST", "PUBLIC KEY"}

DER == [elems : Seq(Integer \cup Oids \cup {"tbs", "info", "octets", "empty", "bits"}),
        trailing : BOOLEAN, key : Algorithms \cup {"x25519", "other", ""},
        params : Oids \cup {""}]
Block == [type : PrivateTypes \cup OtherTypes, procType : BOOLEAN, dek : Seq(Byte),
          der : DER, payload : Seq(Byte)]
File == [start : {"empty", "jks", "jceks", "ppk", "0x30", "other"}, marker : BOOLEAN,
         ppk : {"plaintext", "encrypted", "invalid"}, blocks : Seq(Block), der : DER]

ASSUME DispatchAssumption ==
  /\ Files \subseteq File /\ CipherName \in [Oids -> Seq(Byte)] /\ Pbes2 \in Seq(Byte)
  /\ KeyOids \cup Pkcs7 \cup {"pbes2"} \subseteq Oids
  /\ Oids \cap (Integer \cup {"tbs", "info", "octets", "empty", "bits"}) = {}

VARIABLES
  file,    \* content
  pc,      \* where File is: "file", "block", "openssh" or "done"
  block,   \* the block scanPEM is at
  found    \* out

vars == <<file, pc, block, found, wireVars>>

Init == file \in Files /\ pc = "file" /\ block = 1 /\ found = <<>> /\ Idle

-----------------------------------------------------------------------------
(* A finding; line is the number of its block, 0 for a whole file, and sized  *)
(* that Bits is known.                                                       *)
Found(kind, format, protection) ==
  [line |-> 0, kind |-> kind, format |-> format, algorithm |-> "", sized |-> FALSE,
   protection |-> protection, cipher |-> <<>>]
NoFinding == Found("", "", "none")
Container(format) == Found("container", format, "password")
PrivateKey(format) == Found("private-key", format, "plaintext")

(* describeKey and describePublicKey: the algorithms each has a case for.    *)
Sized(f, algorithm) == [f EXCEPT !.algorithm = algorithm, !.sized = TRUE]
DescribeKey(f, k)    == IF k \in Algorithms \cup {"x25519"} THEN Sized(f, k) ELSE f
DescribePublic(f, k) == IF k \in Algorithms THEN Sized(f, k) ELSE f

(* encoding/asn1 reads a prefix of a SEQUENCE; crypto/x509 and the strict    *)
(* parsers refuse bytes behind it, the others ignore them.                   *)
Begins(d, shape) ==
  Len(shape) <= Len(d.elems) /\ \A i \in DOMAIN shape : d.elems[i] \in shape[i]
Integers(n) == [i \in 1 .. n |-> Integer]

IsCertificate(d) == Begins(d, <<{"tbs"}, Oids, {"bits"}>>) /\ ~d.trailing /\ d.key # ""
IsRequest(d)     == Begins(d, <<{"info"}, Oids, {"bits"}>>) /\ ~d.trailing /\ d.key # ""
IsPKCS8(d) == Begins(d, <<Small, KeyOids, {"octets"}>>) /\ d.key \in Algorithms \cup {"x25519"}
IsPKCS1(d) ==
  Begins(d, <<{"0", "1"}>> \o Integers(8)) /\ ~d.trailing /\ d.key = "rsa"
IsSEC1(d)  == Begins(d, <<{"1"}, {"octets"}>>) /\ d.key = "ecdsa"
IsEncryptedPKCS8(d) == Begins(d, <<Oids, {"octets"}>>) /\ ~d.trailing
(* Mistake: the content type is not looked at. *)
IsPKCS12AnyContent(d) == Begins(d, <<{"3"}, Oids>>)
IsPKCS12(d) == Begins(d, <<{"3"}, Pkcs7>>)

IsDSA(d) == Begins(d, <<Small>> \o Integers(5))

(* parseEncryptedPKCS8Cipher, the KDF left out. *)
EncryptionOf(d) ==
  CASE d.elems[1] # "pbes2" -> CipherName[d.elems[1]]
    [] d.params = ""        -> Pbes2
    [] OTHER                -> CipherName[d.params]

Encrypted(f, name) == [f EXCEPT !.protection = "encrypted", !.cipher = name]

ScanDER(d) ==
  CASE IsCertificate(d) -> DescribePublic(Found("certificate", "x509-der", "none"), d.key)
    [] IsPKCS8(d) -> DescribeKey(PrivateKey("pkcs8-der"), d.key)
    [] IsPKCS1(d) -> DescribeKey(PrivateKey("pkcs1-der"), "rsa")
    [] IsSEC1(d)  -> DescribeKey(PrivateKey("sec1-der"), "ecdsa")
    [] IsEncryptedPKCS8(d) -> Encrypted(PrivateKey("pkcs8-der"), EncryptionOf(d))
    [] IsPKCS12(d) -> Container("pkcs12")
    [] OTHER -> NoFinding

-----------------------------------------------------------------------------
(* classifyPEM, but for OPENSSH PRIVATE KEY.  The header Proc-Type is read    *)
(* first, and what the type says may override it.                            *)
Header(b, format) ==
  IF b.procType THEN Encrypted(PrivateKey(format), b.dek) ELSE PrivateKey(format)
Traditional(b, format, algorithm, parses) ==
  [Header(b, format) EXCEPT !.algorithm = algorithm, !.sized = ~b.procType /\ parses]
Public(b, kind, format) ==
  DescribePublic([Header(b, format) EXCEPT !.kind = kind, !.protection = "none"], b.der.key)

ClassifyPEM(b) ==
  CASE b.type = "RSA PRIVATE KEY" -> Traditional(b, "pkcs1-pem", "rsa", IsPKCS1(b.der))
    [] b.type = "EC PRIVATE KEY" -> Traditional(b, "sec1-pem", "ecdsa", IsSEC1(b.der))
    [] b.type = "DSA PRIVATE KEY" -> Traditional(b, "dsa-pem", "dsa", IsDSA(b.der))
    [] b.type = "PRIVATE KEY" ->
         DescribeKey(Header(b, "pkcs8-pem"), IF IsPKCS8(b.der) THEN b.der.key ELSE "")
    [] b.type = "ENCRYPTED PRIVATE KEY" ->
         Encrypted(Header(b, "pkcs8-pem"), IF IsEncryptedPKCS8(b.der) THEN EncryptionOf(b.der)
                                             ELSE Header(b, "pkcs8-pem").cipher)
    [] b.type = "ANY PRIVATE KEY" -> Header(b, "pem")
    [] b.type = "CERTIFICATE" /\ IsCertificate(b.der) -> Public(b, "certificate", "x509-pem")
    [] b.type = "CERTIFICATE REQUEST" /\ IsRequest(b.der) ->
         Public(b, "certificate-request", "csr-pem")
    [] OTHER -> NoFinding

(* parseOpenSSH's finding.  Mistake: "none" is the only name of no cipher. *)
ProtectedByName(f) == IF cipher # <<>> /\ cipher \in NoCipher THEN f ELSE Encrypted(f, cipher)
Protected(f) == IF cipher \in NoCipher THEN f ELSE Encrypted(f, cipher)
OpenSSH ==
  Protected([PrivateKey("openssh") EXCEPT !.algorithm = key.algorithm,
    !.sized = key.bits # 0 \/ \E i \in DOMAIN key.number : key.number[i] # 0])

(* A container that cannot be read.  Mistake: it is no finding. *)
Dropped(b) == NoFinding
Unread(b) == Header(b, "openssh")

-----------------------------------------------------------------------------
(* File.  Only what begins as none of the first formats is searched for PEM, *)
(* and only what has no PEM marker is tried as DER.                          *)
HasPEM == file.start \in {"0x30", "other"} /\ file.marker

WholeFile ==
  CASE file.start \in {"jks", "jceks"} -> Container(file.start)
    [] file.start = "ppk" /\ file.ppk # "invalid" ->
         [PrivateKey("ppk") EXCEPT !.protection = file.ppk]
    [] file.start = "0x30" -> ScanDER(file.der)
    [] OTHER -> NoFinding

Recognise ==
  /\ pc = "file" /\ ~HasPEM
  /\ found' = IF WholeFile = NoFinding THEN <<>> ELSE <<WholeFile>>
  /\ pc' = "done" /\ UNCHANGED <<file, block, wireVars>>

ScanPEM ==
  /\ pc = "file" /\ HasPEM
  /\ pc' = "block" /\ UNCHANGED <<file, block, found, wireVars>>

(* What the block at hand is, if anything, after which the next one is due.  *)
Report(f) ==
  /\ found' = IF f = NoFinding THEN found ELSE Append(found, [f EXCEPT !.line = block])
  /\ block' = block + 1 /\ pc' = "block" /\ UNCHANGED <<file, wireVars>>

More == pc = "block" /\ block <= Len(file.blocks)
This == file.blocks[block]

Classify == More /\ This.type # "OPENSSH PRIVATE KEY" /\ Report(ClassifyPEM(This))

OpenContainer ==
  /\ More /\ This.type = "OPENSSH PRIVATE KEY"
  /\ Open(This.payload) /\ pc' = "openssh" /\ UNCHANGED <<file, block, found>>

ReadField == pc = "openssh" /\ Parse /\ UNCHANGED <<file, pc, block, found>>

Return ==
  pc = "openssh" /\ Ended /\ Report(IF at = "read" THEN OpenSSH ELSE Unread(This))

NoMoreBlocks ==
  /\ pc = "block" /\ ~More
  /\ pc' = "done" /\ UNCHANGED <<file, block, found, wireVars>>

Done == pc = "done" /\ UNCHANGED vars

Next == Recognise \/ ScanPEM \/ Classify \/ OpenContainer \/ ReadField \/ Return
        \/ NoMoreBlocks \/ Done
Spec == Init /\ [][Next]_vars

-----------------------------------------------------------------------------
Formats == {"pkcs1-pem", "pkcs8-pem", "sec1-pem", "dsa-pem", "pem", "openssh", "ppk", "x509-pem",
  "csr-pem", "pkcs1-der", "pkcs8-der", "sec1-der", "x509-der", "pkcs12", "jks", "jceks"}
FoundType == [line : Nat, kind : {"private-key", "certificate", "certificate-request", "container"},
  format : Formats, algorithm : Kinds \cup {"x25519", ""}, sized : BOOLEAN,
  protection : {"plaintext", "encrypted", "password", "none"}, cipher : Seq(Byte)]
TypeOK ==
  /\ file \in File /\ pc \in {"file", "block", "openssh", "done"}
  /\ block \in 1 .. Len(file.blocks) + 1 /\ found \in Seq(FoundType) /\ WireType
  /\ pc = "openssh" => block <= Len(file.blocks)

Keys == {i \in DOMAIN found : found[i].kind = "private-key"}

(* Every private key of a bundle is in the inventory, once and in order,     *)
(* however damaged its block, unreadable its container and mixed the blocks  *)
(* around it: a block is a key finding exactly when its type says so.  That  *)
(* includes a key an earlier block's parse failed on (pem.go:156-161,        *)
(* 184-191), and holds at every moment of the scan for what is behind it.    *)
NoKeyLost ==
  pc \in {"block", "openssh"} =>
    /\ {found[i].line : i \in Keys} =
         {b \in 1 .. block - 1 : file.blocks[b].type \in PrivateTypes}
    /\ \A i, j \in DOMAIN found : i < j => found[i].line < found[j].line

(* A key in bare DER is a key finding whatever else its bytes could be taken  *)
(* for: at most one recogniser takes a value, and the order they are tried   *)
(* in, which the code says matters (der.go:72-74), never decides.            *)
Accepts(d, format) ==
  \/ format = "x509" /\ IsCertificate(d)
  \/ format = "pkcs8" /\ IsPKCS8(d)
  \/ format = "encrypted" /\ IsEncryptedPKCS8(d)
  \/ format = "pkcs1" /\ IsPKCS1(d)
  \/ format = "sec1" /\ IsSEC1(d)
  \/ format = "pkcs12" /\ IsPKCS12(d)
Unambiguous ==
  \A f, g \in {"x509", "pkcs8", "pkcs1", "sec1", "encrypted", "pkcs12"} :
    Accepts(file.der, f) /\ Accepts(file.der, g) => f = g

(* The protection reported is the one the block states: the container that   *)
(* can be read speaks for itself, by its cipher, over the header; a container *)
(* that cannot be read is as the header says; the type ENCRYPTED decides for  *)
(* PKCS#8 (pem.go:104-109, 129-135, 156-161, openssh.go:58-64).  No state of  *)
(* an earlier block or container stands in a later one's finding.            *)
StatedCiphers(b) ==
  IF b.type # "OPENSSH PRIVATE KEY" \/ ~HasMagic(b.payload) THEN {}
  ELSE {c.cipher : c \in Contents(Rest(b.payload))}
SaysEncrypted(b) ==
  \/ b.type = "ENCRYPTED PRIVATE KEY"
  \/ StatedCiphers(b) # {} /\ StatedCiphers(b) \cap NoCipher = {}
  \/ StatedCiphers(b) = {} /\ b.procType
ProtectionStated ==
  \A i \in Keys : found[i].line > 0 =>
    LET b == file.blocks[found[i].line] IN
    /\ found[i].protection = IF SaysEncrypted(b) THEN "encrypted" ELSE "plaintext"
    /\ StatedCiphers(b) # {} => found[i].cipher \in StatedCiphers(b) \cup {<<>>}

-----------------------------------------------------------------------------
(* The ciphers named by a container that is complete: every string of it     *)
(* ends inside, it holds one key, whose blob begins with the name of a type,  *)
(* and the private section is all that follows.                             *)
CompleteFrom(p, o) ==
  /\ o + Prefix <= Len(p) /\ Number[SubSeq(p, o + 1, o + Prefix)] = 1
  /\ \E b \in End(p, o + Prefix) :
       /\ Len(p) \in End(p, b)
       /\ LET blob == Text(p, o + Prefix, b) IN
          KeysIn(blob) # {} \/ \E name \in Texts(blob, 0) : name \notin DOMAIN KeyKind
CompleteCiphers(p) ==
  {Text(p, 0, c) : c \in {d \in End(p, 0) :
     \E k \in End(p, d) : \E o \in End(p, k) : CompleteFrom(p, o)}}

(* "The container stores the cipher name and every public key in the clear,   *)
(* so algorithm, size, and encryption state are all recoverable without the  *)
(* passphrase" (openssh.go:16-18): a complete container that names a cipher   *)
(* is not reported as plaintext.  One whose public key is of a type that      *)
(* parseSSHPublicBlob does not know is: the cipher, read long before, is      *)
(* dropped with the error (openssh.go:48), and the header's default stands.   *)
NamedCipherShown ==
  \A i \in Keys : found[i].line > 0 =>
    LET b == file.blocks[found[i].line] IN
    b.type = "OPENSSH PRIVATE KEY" /\ HasMagic(b.payload)
      /\ ~(CompleteCiphers(Rest(b.payload)) \subseteq NoCipher)
    => found[i].protection # "plaintext"
=============================================================================
