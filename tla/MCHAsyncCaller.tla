--------------------------- MODULE MCHAsyncCaller ---------------------------
(* Model-checking instance of HAsyncCaller: two or three runners, and three  *)
(* calls, two of which have the same priority.                               *)
EXTENDS HAsyncCaller

CONSTANTS a, b, c

TwoPriorities == [x \in Calls |-> IF x = c THEN -1 ELSE 0]
=============================================================================
