--------------------------- MODULE MCRequestReply ---------------------------
(* RequestReply for TLC: messages of two bytes, a short one and an empty   *)
(* one, and two callbacks, the second of which answers with one byte.      *)
EXTENDS RequestReply, TLC

MCRequests == {<<1, 2>>, <<3>>, <<>>}
ShortRequests == {<<1, 2>>, <<3>>}

Double == 2
Triple == 3

MCApply(k, m) ==
    IF k = Double THEN <<(2 * m[1]) % 256, m[2]>> ELSE <<(3 * m[1]) % 256>>

ClientSymmetry == Permutations(Client)
=============================================================================
