-------------------------- MODULE MC_IterativeEcho --------------------------
(* IterativeEcho for TLC: the string of the client longOne is just long    *)
(* enough for a mutual block, that of emptyOne is empty, the others are    *)
(* one byte too short for a mutual block.                                  *)
EXTENDS IterativeEcho

CONSTANTS longOne, emptyOne

MCStrLen == [c \in Clients |-> CASE c = longOne  -> MaxLen
                                 [] c = emptyOne -> 0
                                 [] OTHER        -> MaxLen - 1]
=============================================================================
