----------------------------- MODULE MCServices ------------------------------
(* Model-checking instance of the services: values of the constants that are *)
(* functions.                                                                *)
EXTENDS Services

CONSTANTS a

(* HThreadPool, HAsyncCaller, HScheduledAsyncCaller: life_time() and what    *)
(* each of them uses.                                                        *)
LifeTimes == [pool |-> 30, caller |-> 10, scheduler |-> 0]
UsedBy    == [pool |-> {}, caller |-> {"pool"}, scheduler |-> {"caller", "pool"}]

MessagesOf == [s \in Streams \cup {Event} |-> IF s = a THEN 2 ELSE 1]
=============================================================================
