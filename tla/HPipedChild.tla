---------------------------- MODULE HPipedChild -----------------------------
(***************************************************************************)
(* HPipedChild of src/tools/hpipedchild.cxx: an object that spawns a child *)
(* process, asks for its state, and in finish() ends it, by patience,      *)
(* SIGTERM and SIGKILL, with an HAlarm to interrupt waitpid().  The child, *)
(* and whoever else sends it signals, may end, stop and continue it at any *)
(* moment.  The object is used by one thread.                              *)
(***************************************************************************)
EXTENDS Naturals

CONSTANTS
  AlarmMayBeEarly,  \* may SIGALRM come before the thread is in waitpid()?
  MaxSpawns,        \* bound: calls of spawn()
  MaxStops          \* bound: how often the child is stopped

VARIABLES
  process,          \* the child: none, running, stopped, or a zombie
  change,           \* a stop or a continuation that no waitpid() told of yet
  pid,              \* _pid > 0
  type,             \* _status.type
  step,             \* where finish() is
  alarm,            \* SIGALRM is to come, or came too early
  spawns, stops     \* bounded by MaxSpawns, MaxStops

childVars == <<process, change, pid, type, step, alarm, spawns, stops>>

Init ==
  /\ process = "none" /\ change = "nothing"
  /\ pid = FALSE /\ type = "UNSPAWNED"
  /\ step = "idle" /\ alarm = "off"
  /\ spawns = 0 /\ stops = 0

Ended == process \in {"exited", "killed"}
Exists == process # "none"

TypeOf(report) ==
  CASE report = "exited"    -> "FINISHED"
    [] report = "killed"    -> "ABORTED"
    [] report = "stopped"   -> "PAUSED"
    [] report = "continued" -> "RUNNING"

(* waitpid(): tells of the end of the child, which is gone then, or of one  *)
(* of the changes that are asked for.                                       *)
Reported(report, asked) ==
  \/ Ended /\ report = process /\ process' = "none" /\ change' = "nothing"
  \/ ~Ended /\ change \in asked /\ report = change /\ change' = "nothing" /\ UNCHANGED process

Reports == {"exited", "killed", "stopped", "continued"}
Changes == {"stopped", "continued"}                 \* WUNTRACED | WCONTINUED
NothingToReport(asked) == ~Ended /\ change \notin asked

(* update_status() *)
Update(report) ==
  /\ type' = TypeOf(report)
  /\ pid' = (report \in Changes)

-----------------------------------------------------------------------------
Spawn ==
  /\ step = "idle" /\ ~pid /\ ~Exists
  /\ spawns < MaxSpawns
  /\ spawns' = spawns + 1
  /\ process' = "running" /\ pid' = TRUE /\ type' = "RUNNING"
  /\ UNCHANGED <<change, step, alarm, stops>>

(* get_status(), and wait() once there is something to tell. *)
GetStatus ==
  /\ step = "idle" /\ pid /\ Exists
  /\ \E r \in Reports: Reported(r, Changes) /\ Update(r)
  /\ UNCHANGED <<step, alarm, spawns, stops>>

(* finish(), up to the test of the state that get_status() gives. *)
Finish ==
  /\ step = "idle" /\ pid /\ Exists
  /\ \/ \E r \in Reports: Reported(r, Changes) /\ Update(r)
     \/ NothingToReport(Changes) /\ UNCHANGED <<process, change, type, pid>>
  /\ step' = IF ~pid' THEN "idle" ELSE IF type' = "PAUSED" THEN "continue" ELSE "wait"
  /\ UNCHANGED <<alarm, spawns, stops>>

(* do_continue(): SIGCONT, then waitpid() until it tells of that.  When it  *)
(* tells of the end of the child instead, the next one fails.               *)
Continue ==
  /\ step = "continue"
  /\ IF process = "stopped" THEN process' = "running" /\ change' = "continued"
                            ELSE UNCHANGED <<process, change>>
  /\ step' = "continuing"
  /\ UNCHANGED <<pid, type, alarm, spawns, stops>>

Continued ==
  /\ step = "continuing"
  /\ \E r \in Reports:
       /\ Reported(r, Changes)
       /\ step' = CASE r = "continued" -> "wait" [] r = "stopped" -> step [] OTHER -> "failed"
       /\ type' = IF r = "continued" THEN "RUNNING" ELSE type
  /\ UNCHANGED <<pid, alarm, spawns, stops>>

(* HAlarm( ms ), and waitpid() is entered. *)
SetAlarm ==
  alarm' \in {"set"} \cup IF AlarmMayBeEarly THEN {"missed"} ELSE {}

AlarmInterrupts == alarm = "set" /\ alarm' = "off"

Return(report) ==
  /\ type' = TypeOf(report)
  /\ pid' = FALSE
  /\ step' = "idle" /\ alarm' = "off"

(* finish( 0 ): one look; finish( delay ): the same with an alarm. *)
LookAndTerminate ==
  /\ step = "wait"
  /\ \/ \E r \in Reports: Reported(r, {"stopped"})
     \/ NothingToReport({"stopped"}) /\ UNCHANGED <<process, change>>
  /\ step' = "terminate"
  /\ UNCHANGED <<pid, type, alarm, spawns, stops>>

Look ==
  /\ step = "wait"
  /\ \/ \E r \in Reports: Reported(r, {"stopped"}) /\ Return(r)
     \/ /\ NothingToReport({"stopped"})
        /\ step' = "terminate"
        /\ UNCHANGED <<process, change, pid, type, alarm>>
  /\ UNCHANGED <<spawns, stops>>

WaitWithAlarm ==
  /\ step = "wait"
  /\ SetAlarm /\ step' = "waiting"
  /\ UNCHANGED <<process, change, pid, type, spawns, stops>>

WaitEnds ==
  /\ step = "waiting"
  /\ \E r \in Reports: Reported(r, {"stopped"}) /\ Return(r)
  /\ UNCHANGED <<spawns, stops>>

WaitInterrupted ==
  /\ step = "waiting"
  /\ AlarmInterrupts /\ step' = "terminate"
  /\ UNCHANGED <<process, change, pid, type, spawns, stops>>

TerminateForEver ==
  /\ step = "terminate"
  /\ step' = "terminating"
  /\ UNCHANGED <<process, change, pid, type, alarm, spawns, stops>>

Terminate ==
  /\ step = "terminate"
  /\ SetAlarm /\ step' = "terminating"
  /\ UNCHANGED <<process, change, pid, type, spawns, stops>>

Terminated ==
  /\ step = "terminating"
  /\ \E r \in Reports: Reported(r, {}) /\ Return(r)
  /\ UNCHANGED <<spawns, stops>>

TerminateInterrupted ==
  /\ step = "terminating"
  /\ AlarmInterrupts /\ step' = "kill"
  /\ UNCHANGED <<process, change, pid, type, spawns, stops>>

(* SIGKILL and the last waitpid(). *)
Kill ==
  /\ step = "kill"
  /\ Return(IF Ended THEN process ELSE "killed")
  /\ process' = "none" /\ change' = "nothing"
  /\ UNCHANGED <<spawns, stops>>

-----------------------------------------------------------------------------
(* The child and the rest of the world. *)
End ==
  /\ \/ process = "running" /\ process' \in {"exited", "killed"}
     \/ process = "stopped" /\ process' = "killed"
  /\ change' = "nothing"
  /\ UNCHANGED <<pid, type, step, alarm, spawns, stops>>

Stop ==
  /\ process = "running" /\ stops < MaxStops
  /\ stops' = stops + 1
  /\ process' = "stopped" /\ change' = "stopped"
  /\ UNCHANGED <<pid, type, step, alarm, spawns>>

Resume ==
  /\ process = "stopped"
  /\ process' = "running" /\ change' = "continued"
  /\ UNCHANGED <<pid, type, step, alarm, spawns, stops>>

InFinish ==
  \/ Continue \/ Continued \/ Look \/ WaitWithAlarm \/ WaitEnds \/ WaitInterrupted
  \/ Terminate \/ Terminated \/ TerminateInterrupted \/ Kill

Next == Spawn \/ GetStatus \/ Finish \/ InFinish \/ End \/ Stop \/ Resume

Spec == Init /\ [][Next]_childVars

(* The thread runs and the timer expires; nothing is asked of the child. *)
Fairness == WF_childVars(InFinish)

-----------------------------------------------------------------------------
TypeOK ==
  /\ process \in {"none", "running", "stopped", "exited", "killed"}
  /\ change \in Changes \cup {"nothing"}
  /\ pid \in BOOLEAN
  /\ type \in {"UNSPAWNED", "RUNNING", "PAUSED", "FINISHED", "ABORTED"}
  /\ step \in {"idle", "continue", "continuing", "wait", "waiting", "terminate",
               "terminating", "kill", "failed"}
  /\ alarm \in {"off", "set", "missed"}

(* finish() never signals a process it has already waited for, whose number *)
(* may be another one's by then.                                            *)
SignalsReachTheChild == step \in {"continue", "terminate", "kill"} => Exists

(* An object that knows no process has left none behind, neither running    *)
(* nor as a zombie, except a stopped one: its waitpid( WUNTRACED ) tells    *)
(* finish() of a stop, which it takes for the end of the child.             *)
NoChildIsLeft == ~pid /\ type # "PAUSED" => ~Exists

(* finish() returns or throws, whatever the child does with SIGTERM, unless *)
(* the child stops again while do_continue() waits for it.                  *)
FinishReturns ==
  step # "idle"
    ~> (step \in {"idle", "failed"} \/ (step = "continuing" /\ process = "stopped"))
=============================================================================
