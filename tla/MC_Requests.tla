----------------------------- MODULE MC_Requests -----------------------------
EXTENDS Requests

IdentityCodec == [kind |-> "identity"]
(* One mount inside another, which hides m/b.                              *)
MountCodec ==
  [kind |-> "mount",
   entries |-> <<<<<<"", "a">>, <<"m", ".">>>>, <<<<"a", "b">>, <<"n">>>>, <<<<".">>, <<"">>>>>>]
SealedCodec == [kind |-> "sealed", names |-> [s1 |-> <<"m">>, s2 |-> <<"m", "x">>, s3 |-> <<"p">>,
    s4 |-> <<"n">>, s5 |-> <<"n", "z">>, s6 |-> <<"m", "s2">>,
    s7 |-> <<"m", "b">>]]
MCCodecs == {IdentityCodec, MountCodec, SealedCodec}
MCMount == {MountCodec}

(* A reader of what is mounted, one of the name it is mounted under, one   *)
(* who may do everything and one who may only write.                       *)
MCTokens ==
  {[permissions |-> {"read"}, paths |-> {<<"m">>}],
   [permissions |-> {"read"}, paths |-> {<<"a">>}],
   [permissions |-> {"read", "write"}, paths |-> {<<>>}],
   [permissions |-> {"write"}, paths |-> {<<"m", "x">>}]}
MCAll == {[permissions |-> {"read", "write"}, paths |-> {<<>>}]}

MCTrees ==
  {<<"m", "x">> :> [version |-> 1, size |-> 3] @@ <<"p">> :> [version |-> 1, size |-> 0]
   @@ <<"n", "z">> :> [version |-> 1, size |-> 1] @@ <<"m", "b">> :> [version |-> 1, size |-> 1]}

MCRawPaths ==
  {<<>>, <<"a">>, <<"a", "x">>, <<"m", "x">>, <<"p">>, <<"..", "p">>, <<"", "p">>,
   <<".", "m", "", "x">>, <<"s1", "x">>, <<"s1", "s2">>, <<"s2">>, <<"p", "y">>,
   <<"a", "b">>}

Bytes(first, last) == [form |-> "bytes", first |-> first, last |-> last]
Suffix(count) == [form |-> "suffix", count |-> count]
MCRanges ==
  {[form |-> "none"], [form |-> "malformed"], Bytes(0, 0), Bytes(1, 2), Bytes(1, OpenEnded),
   Bytes(2, 6), Bytes(2, 1), Bytes(1, 7), Bytes(7, OpenEnded), Suffix(0), Suffix(2), Suffix(7)}
MCNoRange == {[form |-> "none"]}
=============================================================================
