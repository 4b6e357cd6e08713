------------------------------ MODULE MCBridge ------------------------------
(* Three frames from two senders, KEY_MAX = 4: a key of that length, which *)
(* fills the buffer to its terminator, one that is longer, and one with a  *)
(* NUL byte inside.                                                        *)
EXTENDS Bridge

MCMacOf == <<"a", "b", "a">>
MCKeyOf ==
  <<<<"t", "e", "m", "p">>, <<"p", "o", "w", "e", "r">>, <<"v", Nul, "w">>>>
=============================================================================
