-------------------------------- MODULE MCGlob --------------------------------
(* Every pattern of up to MaxSegments segments over "**", "*" and a name,    *)
(* every shorter one that may also hold a malformed glob, and every pair of  *)
(* short ones, against every path of up to MaxSegments segments over two     *)
(* names.                                                                   *)
EXTENDS Glob
CONSTANT MaxSegments

MCNames   == {"a", "b"}
MCGlobs   == {"*", "a", "["}
MCAccepts == {<<"*", "a">>, <<"*", "b">>, <<"a", "a">>}

SeqsOver(S, max) == UNION {[1 .. n -> S] : n \in 1 .. max}
MCPaths == SeqsOver(MCNames, MaxSegments)
MCPatternLists ==
  {<<>>} \cup {<<p>> : p \in SeqsOver({"*", "a", Any}, MaxSegments)}
         \cup {<<p>> : p \in SeqsOver(MCGlobs \cup {Any}, MaxSegments - 1)}
         \cup {<<p, q>> : p, q \in SeqsOver({"a", "[", Any}, 2)}
=============================================================================
