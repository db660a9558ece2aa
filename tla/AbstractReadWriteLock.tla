------------------------ MODULE AbstractReadWriteLock -----------------------
(***************************************************************************)
(* What HReadWriteLock promises its users: every thread may hold several   *)
(* guards, taking a guard and giving one back are atomic, and a thread     *)
(* whose first guard is a write guard is alone as long as it has any.  A   *)
(* write guard that is taken after a read guard, an upgrade, excludes      *)
(* nobody but those who would be alone.                                    *)
(***************************************************************************)
EXTENDS Naturals

CONSTANT Threads

VARIABLES
  reads,     \* HReadWriteLockReadLock objects each thread holds
  writes,    \* HReadWriteLockWriteLock objects each thread holds
  alone      \* threads that hold guards, the first of them a write guard

vars == <<reads, writes, alone>>

Init ==
  /\ reads  = [t \in Threads |-> 0]
  /\ writes = [t \in Threads |-> 0]
  /\ alone  = {}

Guards(t) == reads[t] + writes[t]

TakeRead(t) ==
  /\ alone \subseteq {t}
  /\ reads' = [reads EXCEPT ![t] = @ + 1]
  /\ UNCHANGED <<writes, alone>>

TakeWrite(t) ==
  /\ Guards(t) = 0 \/ t \in alone
  /\ \A u \in Threads \ {t}: Guards(u) = 0
  /\ writes' = [writes EXCEPT ![t] = @ + 1]
  /\ alone' = {t}
  /\ UNCHANGED reads

Upgrade(t) ==
  /\ Guards(t) > 0
  /\ alone = {}
  /\ writes' = [writes EXCEPT ![t] = @ + 1]
  /\ UNCHANGED <<reads, alone>>

GiveRead(t) ==
  /\ reads[t] > 0
  /\ reads' = [reads EXCEPT ![t] = @ - 1]
  /\ alone' = IF Guards(t) = 1 THEN alone \ {t} ELSE alone
  /\ UNCHANGED writes

GiveWrite(t) ==
  /\ writes[t] > 0
  /\ writes' = [writes EXCEPT ![t] = @ - 1]
  /\ alone' = IF Guards(t) = 1 THEN alone \ {t} ELSE alone
  /\ UNCHANGED reads

Next == \E t \in Threads:
  TakeRead(t) \/ TakeWrite(t) \/ Upgrade(t) \/ GiveRead(t) \/ GiveWrite(t)

Spec == Init /\ [][Next]_vars
=============================================================================
