------------------------------- MODULE MCSweep -------------------------------
(***************************************************************************)
(* Instances of Sweep for TLC.  The tree is                                 *)
(*     top/a/k   top/a.txt   top/x (excluded)   top/nm/p (nm pruned)         *)
(* where WalkDir meets a/k before a.txt although "a.txt" < "a/k" bytewise.  *)
(***************************************************************************)
EXTENDS SweepInventory

MCFiles == {"a/k", "a.txt", "x", "nm/p"}
MCDirs  == {"top", "a", "nm"}
MCBeneath == [d \in MCDirs |-> CASE d = "top" -> MCFiles \cup {"a", "nm"}
                                 [] d = "a"   -> {"a/k"}
                                 [] d = "nm"  -> {"nm/p"}]
Rank(s) == [n \in MCFiles \cup MCDirs |-> CHOOSE i \in 1 .. Len(s) : s[i] = n]
MCWalkOrder == Rank(<<"top", "a", "a/k", "a.txt", "nm", "nm/p", "x">>)
MCPathOrder == Rank(<<"top", "a", "a.txt", "a/k", "nm", "nm/p", "x">>)

(* Contents: nothing of interest, one key, a bundle, a key over the cap. *)
MCContents == {"none", "key", "bundle", "big"}
MCBytes == [c \in MCContents |-> CASE c = "none" -> 0 [] c = "big" -> 3 [] OTHER -> 2]
(* A bundle rewritten under a read, or written where another content was,    *)
(* may lose its key.                                                        *)
MCTexts == MCContents \cup {"half"}
MCMixed == [c \in MCContents |-> [d \in MCContents |->
  IF c = d THEN {c} ELSE IF "bundle" \in {c, d} THEN {d, "half"} ELSE {d}]]
MCParse == [c \in MCTexts |->
  CASE c = "none"   -> <<>>
    [] c = "half"   -> <<[line |-> 1, format |-> "certificate"]>>
    [] c = "bundle" -> <<[line |-> 1, format |-> "certificate"], [line |-> 9, format |-> "key"]>>
    [] OTHER        -> <<[line |-> 1, format |-> "key"]>>]

(* A tree from what is at a/k, at a.txt and at x, and whether a can be listed. *)
Tree(k, t, x, a) ==
  [n \in MCFiles \cup MCDirs |->
     CASE n = "a/k" -> k [] n = "a.txt" -> t [] n = "x" -> x [] n = "a" -> a
       [] n = "nm/p" -> Regular("key", "tight")
       [] OTHER -> Directory("entries")]

Shapes == {Regular("bundle", "loose"), Regular("big", "tight"), Regular("none", "tight"),
           Locked, Link("big"), Link(Unreadable), Gone}
StillTrees == {Tree(k, t, x, a) : k \in Shapes, t \in Shapes,
                 x \in {Regular("key", "loose"), Link("key")},
                 a \in {Directory("entries"), Directory(Unreadable), Gone}}
BusyTrees  == {Tree(Regular("bundle", "tight"), t, Regular("key", "loose"), Directory("entries")) :
                 t \in {Regular("key", "loose"), Regular("big", "tight")}}
BusyRoots  == {"top"}
AnyRoot    == {"top", "nm", "a.txt", "x"}
OneFile    == {"a.txt", "x"}
=============================================================================
