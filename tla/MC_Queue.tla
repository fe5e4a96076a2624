------------------------------ MODULE MC_Queue ------------------------------
(***************************************************************************)
(* Queue for TLC: two elements tell apart a lost, repeated or reordered    *)
(* one in the windows that sizes up to four give.                          *)
(***************************************************************************)
EXTENDS Queue

SizesUpTo4 == 0..4
Size3 == {3}
=============================================================================
