--------------------------------- MODULE Wire ---------------------------------
(***************************************************************************)
(* The SSH wire format: sshReader (internal/parse/sshwire.go), a cursor over *)
(* length-prefixed strings, parseSSHPublicBlob that reads one public key     *)
(* with it, and parseOpenSSH (openssh.go) that reads the container around    *)
(* that key with another.  One action is one field.                         *)
(*                                                                         *)
(* A buffer is a sequence of bytes.  A number takes Prefix of them, and what *)
(* it is, what key type or curve a string names, are functions of bytes.     *)
(***************************************************************************)
EXTENDS Integers, Sequences

CONSTANTS
  Byte, Prefix,     \* the bytes, and how many make a length: 4
  Modulus, Number,  \* 2^32, and binary.BigEndian.Uint32
  MaxKeys,          \* the largest key count taken for real, 64
  KeyKind,          \* the key types parseSSHPublicBlob knows, by name
  NistCurve, P256,  \* nistCurveBits, from the name of a curve; "nistp256"
  NoCipher,         \* the names of no cipher, "none" and ""
  Magic             \* opensshMagic

Kinds   == {"rsa", "dsa", "ecdsa", "ed25519", "sk-ed25519", "sk-ecdsa"}

ASSUME WireAssumption ==
  /\ Prefix \in Nat \ {0} /\ Modulus \in Nat \ {0} /\ MaxKeys \in Nat
  /\ Number \in [[1 .. Prefix -> Byte] -> 0 .. Modulus - 1]
  /\ Magic \in Seq(Byte) \ {<<>>} /\ NoCipher \subseteq Seq(Byte) /\ P256 \in Seq(Byte)
  /\ \A t \in DOMAIN KeyKind : KeyKind[t] \in Kinds
  /\ \A c \in DOMAIN NistCurve : NistCurve[c] \in Nat

VARIABLES
  payload,   \* the block, which nobody changes
  reader,    \* the sshReader in use: buf and off
  at,        \* the field to be read next, or how the parse ended
  cipher,    \* the cipher read
  key        \* pubKeyInfo

wireVars == <<payload, reader, at, cipher, key>>

(* pubKeyInfo; number is the mpint whose bit length is Bits. *)
NoKey == [algorithm |-> "", curve |-> <<>>, number |-> <<>>, bits |-> 0]
Over(buffer) == [buf |-> buffer, off |-> 0]

(* parseOpenSSH: the magic, and a reader over the rest. *)
HasMagic(p) == Len(p) >= Len(Magic) /\ SubSeq(p, 1, Len(Magic)) = Magic
Rest(p)     == SubSeq(p, Len(Magic) + 1, Len(p))
First(p)    == IF HasMagic(p) THEN "cipher" ELSE "error"

(* No block has been opened yet, and opening block p. *)
Idle ==
  /\ payload = <<>> /\ reader = Over(<<>>) /\ at = "error" /\ cipher = <<>> /\ key = NoKey
Open(p) ==
  /\ payload' = p /\ reader' = Over(IF HasMagic(p) THEN Rest(p) ELSE <<>>)
  /\ at' = First(p) /\ cipher' = <<>> /\ key' = NoKey

-----------------------------------------------------------------------------
(* sshReader. *)

(* Mistake: the sum cut to 32 bits. *)
FitsWrapped(r, n) == (r.off + n) % Modulus <= Len(r.buf)
Fits(r, n) == r.off + n <= Len(r.buf)

Uint32(r) == Number[[i \in 1 .. Prefix |-> r.buf[r.off + i]]]
Past(r, n) == [r EXCEPT !.off = r.off + n]

(* bytes: a length and that many bytes, or an error. *)
Holds(r) == Fits(r, Prefix) /\ Fits(Past(r, Prefix), Uint32(r))
Skip(r)  == Past(r, Prefix + Uint32(r))
(* Go panics on a slice that ends outside: here it ends with the buffer, and *)
(* the cursor is outside, where Inside sees it.                              *)
Bytes(r) == LET last == Skip(r).off IN
  SubSeq(r.buf, r.off + Prefix + 1, IF last <= Len(r.buf) THEN last ELSE Len(r.buf))

(* A field that can be read, and the cursor behind it.                       *)
Takes(field) == at = field /\ Holds(reader)
Field(field) == Takes(field) /\ reader' = Skip(reader) /\ UNCHANGED payload

Truncated ==
  /\ at \in {"cipher", "kdf", "options", "blob", "type", "e", "fact"}
  /\ ~Holds(reader) /\ at' = "error" /\ UNCHANGED <<payload, reader, cipher, key>>

-----------------------------------------------------------------------------
(* parseOpenSSH. *)
Cipher  == Field("cipher") /\ cipher' = Bytes(reader) /\ at' = "kdf" /\ UNCHANGED key
Kdf     == Field("kdf") /\ at' = "options" /\ UNCHANGED <<cipher, key>>
Options == Field("options") /\ at' = "count" /\ UNCHANGED <<cipher, key>>

Count ==
  /\ at = "count" /\ UNCHANGED <<payload, cipher, key>>
  /\ IF Fits(reader, Prefix) THEN reader' = Past(reader, Prefix) ELSE UNCHANGED reader
  /\ at' = IF Fits(reader, Prefix) /\ Uint32(reader) \in 1 .. MaxKeys THEN "blob" ELSE "error"

(* The blob gets a reader of its own, which ends where the blob ends.        *)
(* Mistake: one over all that is left of the container. *)
ReaderOverRest(r) == Over(SubSeq(r.buf, r.off + Prefix + 1, Len(r.buf)))
ReaderOver(r) == Over(Bytes(r))
Blob ==
  /\ Takes("blob") /\ reader' = ReaderOver(reader) /\ at' = "type"
  /\ UNCHANGED <<payload, cipher, key>>

-----------------------------------------------------------------------------
(* parseSSHPublicBlob: the key type says how many strings follow it and what *)
(* the last one tells; a security key needs none.                           *)
Described(kind, text) ==
  CASE kind \in {"rsa", "dsa"} -> [NoKey EXCEPT !.algorithm = kind, !.number = text]
    [] kind = "ecdsa" -> [NoKey EXCEPT !.algorithm = kind, !.curve = text,
                           !.bits = IF text \in DOMAIN NistCurve THEN NistCurve[text] ELSE 0]
    [] kind = "sk-ecdsa" -> [NoKey EXCEPT !.algorithm = "ecdsa", !.curve = P256, !.bits = 256]
    [] OTHER -> [NoKey EXCEPT !.algorithm = "ed25519", !.bits = 256]

KeyType ==
  LET name == Bytes(reader)  kind == KeyKind[name] IN
  /\ Field("type") /\ UNCHANGED cipher
  /\ IF name \notin DOMAIN KeyKind THEN at' = "error" /\ UNCHANGED key
     ELSE /\ key' = Described(kind, <<>>)
          /\ at' = CASE kind = "rsa" -> "e" [] kind \in {"sk-ed25519", "sk-ecdsa"} -> "read"
                     [] OTHER -> "fact"

Exponent == Field("e") /\ at' = "fact" /\ UNCHANGED <<cipher, key>>

(* An RSA modulus, a DSA prime, an ECDSA curve, an Ed25519 point. *)
Fact ==
  /\ Field("fact") /\ key' = Described(key.algorithm, Bytes(reader)) /\ at' = "read"
  /\ UNCHANGED cipher

Ended == at \in {"read", "error"}

Parse == \/ Truncated \/ Cipher \/ Kdf \/ Options \/ Count \/ Blob
         \/ KeyType \/ Exponent \/ Fact

-----------------------------------------------------------------------------
Fields == {"cipher", "kdf", "options", "count", "blob", "type", "e", "fact"}

(* Whatever the lengths in the data say, every slice r.buf[r.off:...] that   *)
(* Go is asked for lies in the buffer (sshwire.go:21-41): no panic.          *)
Inside == reader.off \in 0 .. Len(reader.buf)
Reader  == [buf : Seq(Byte), off : Nat]
KeyInfo == [algorithm : Kinds \cup {""}, curve : Seq(Byte), number : Seq(Byte), bits : Nat]
WireType ==
  /\ payload \in Seq(Byte) /\ at \in Fields \cup {"read", "error"}
  /\ reader \in Reader /\ Inside /\ cipher \in Seq(Byte) /\ key \in KeyInfo

(* The format by where its strings end, without a cursor: the end of the     *)
(* string that begins behind i, if there is one, and what the string says.   *)
End(b, i) == {j \in i + Prefix .. Len(b) : Number[SubSeq(b, i + 1, i + Prefix)] = j - i - Prefix}
Text(b, i, j) == SubSeq(b, i + Prefix + 1, j)
Texts(b, i) == {Text(b, i, j) : j \in End(b, i)}

(* The keys a blob holds, and what a container holds: one at most. *)
KeysIn(b) == UNION {
  LET name == Text(b, 0, t)  kind == KeyKind[name] IN
  IF name \notin DOMAIN KeyKind THEN {} ELSE
  {Described(kind, text) : text \in
         CASE kind = "rsa" -> UNION {Texts(b, e) : e \in End(b, t)}
           [] kind \in {"sk-ed25519", "sk-ecdsa"} -> {<<>>}
           [] OTHER -> Texts(b, t)} : t \in End(b, 0)}

Contents(p) == UNION {UNION {UNION {UNION {
  IF o + Prefix <= Len(p) /\ Number[SubSeq(p, o + 1, o + Prefix)] \in 1 .. MaxKeys
    THEN {[cipher |-> Text(p, 0, c), key |-> found] : found \in KeysIn(b)} ELSE {}
  : b \in Texts(p, o + Prefix)} : o \in End(p, k)} : k \in End(p, c)} : c \in End(p, 0)}

(* The parse reports a key exactly when the container holds one from its     *)
(* first field to the last that is needed: data cut off anywhere is an error *)
(* and never a guess, no fact comes from behind the field it stands in, from *)
(* behind the blob or from the private section, and what stands there        *)
(* changes nothing (openssh.go:24-50, sshwire.go:68-112).                    *)
Exact ==
  Ended => (IF HasMagic(payload) THEN Contents(Rest(payload)) ELSE {}) =
           IF at = "read" THEN {[cipher |-> cipher, key |-> key]} ELSE {}
=============================================================================
