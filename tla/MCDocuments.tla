---------------------------- MODULE MCDocuments ----------------------------
(* Addresses of one and of two characters; images of up to three segments, *)
(* one more than are walked, some filling a slot of 96 bytes to the last,  *)
(* with and without a hash and the magic.                                  *)
EXTENDS Documents

MCTexts == {<<"0">>, <<"1", "2">>}
MCNoIpText == <<"0">>
MCImages ==
  [segments : UNION {[1..n -> {0, 31, 63}] : n \in 0..3},
   hash : BOOLEAN, magic : BOOLEAN]
=============================================================================
