------------------------------- MODULE Huginn --------------------------------
(***************************************************************************)
(* How src/tools/huginn runs the statements of a Huginn program: the state *)
(* that HThread keeps (thread.hxx), the frames of its calls (frame.hxx),   *)
(* the scopes that destroy their local variables on every way out          *)
(* (scope.hxx), loops, switches, try and catch, and the destructors of     *)
(* user classes (object.cxx, function.cxx), which run in the middle of all *)
(* this.  A program is any choice of statements.  Two kinds of exceptions  *)
(* exist: those of the program, which are a state of HThread, and those of *)
(* the interpreter, HHuginnRuntimeException, which are thrown in C++.      *)
(***************************************************************************)
EXTENDS Naturals, Sequences, FiniteSets, SequencesExt

CONSTANTS
  Exceptions,    \* exceptions a program throws
  Chains,        \* how many destructors an object has, its class and the bases
  MaxFrames,     \* max_call_stack_size()
  MaxNesting,    \* bound: statements of a function within each other
  MaxVariables,  \* bound: local variables of a call
  IllUses        \* "failing throw", "catch while throwing", "exit in destructor"

VARIABLES
  frames,        \* _frames, the current one last: its variables and its result
  control,       \* the C++ calls that execute statements, the innermost last
  state,         \* _state
  result,        \* _result of the thread: the exception, or the exit code
  thrown,        \* an HHuginnRuntimeException is on its way
  raised         \* the exception that waits for a handler, or "none"

huginnVars == <<frames, control, state, result, thrown, raised>>

States == {"NORMAL", "RETURN", "BREAK", "CONTINUE", "EXCEPTION", "RUNTIME_EXCEPTION", "EXIT"}
VirtualScopes == {"scope", "loop", "switch", "try", "catch"}

NewFrame == [variables |-> <<>>, result |-> "none"]

Top == Last(control)
In(kinds) == control # <<>> /\ Top.kind \in kinds
Variables(f) == frames[f].variables

(* HVirtualScope::execute_internal() remembers how many variables there are. *)
Scope(kind, frame, base) ==
  [kind |-> kind, frame |-> frame, base |-> base, declared |-> 0, leaves |-> FALSE]
Opened(kind) == Scope(kind, Len(frames), Len(Variables(Len(frames))))
Body(frame)  == <<Scope("function", frame, 0), Scope("scope", frame, 0)>>

Init ==
  /\ frames = <<NewFrame>> /\ control = Body(1)
  /\ state = "NORMAL" /\ result = "none"
  /\ thrown = FALSE /\ raised = "none"

(* The statement or the expression of the innermost call goes on. *)
Goes == ~thrown /\ state = "NORMAL" /\ ~Top.leaves
Executes  == In({"scope"}) /\ Goes
Evaluates ==
  /\ In({"scope", "loop", "switch", "throw"}) /\ Goes
  /\ Top.kind = "throw" => "failing throw" \in IllUses

Destructors == {i \in DOMAIN control: control[i].kind = "destructor"}
Functions   == {i \in DOMAIN control: control[i].kind = "function"}
Within(kinds) ==
  \E i \in DOMAIN control:
    control[i].kind \in kinds /\ \A j \in Functions: j < i

(* The statements of the innermost function that are executed. *)
Depth == Cardinality({i \in DOMAIN control: \A j \in Functions: j < i})

Fits(n) == Depth + n <= MaxNesting

-----------------------------------------------------------------------------
(* make_variable() of an object with n destructors. *)
Declare(n) ==
  /\ Executes /\ Len(Variables(Top.frame)) < MaxVariables
  /\ frames' = [frames EXCEPT ![Top.frame].variables = Append(@, n)]
  /\ control' = [control EXCEPT ![Len(control)].declared = @ + 1]
  /\ UNCHANGED <<state, result, thrown, raised>>

(* HFunction::execute(); create_frame() throws when there are too many.  *)
Call ==
  /\ Evaluates
  /\ IF Len(frames) = MaxFrames
     THEN thrown' = TRUE /\ UNCHANGED <<frames, control>>
     ELSE /\ frames' = Append(frames, NewFrame)
          /\ control' = control \o Body(Len(frames) + 1)
          /\ UNCHANGED thrown
  /\ UNCHANGED <<state, result, raised>>

(* An operation throws, in the program or in C++. *)
Raise(x) ==
  /\ Evaluates
  /\ state' = "EXCEPTION" /\ result' = x /\ raised' = x
  /\ UNCHANGED <<frames, control, thrown>>

Fail ==
  /\ Evaluates
  /\ thrown' = TRUE
  /\ UNCHANGED <<frames, control, state, result, raised>>

Exit ==
  /\ Evaluates
  /\ Destructors = {} \/ "exit in destructor" \in IllUses
  /\ state' = "EXIT" /\ result' = "exit code"
  /\ UNCHANGED <<frames, control, thrown, raised>>

(* HReturn and HBreak; the compiler lets breaks be where they may. *)
Jump(new) ==
  /\ Executes
  /\ new = "BREAK" => Within({"loop", "switch"})
  /\ new = "CONTINUE" => Within({"loop"})
  /\ state' = new
  /\ UNCHANGED <<frames, control, result, thrown, raised>>

(* HThrow: its expression, and then state_throw() whatever came of it. *)
Throw ==
  /\ Executes /\ Fits(1)
  /\ control' = Append(control, Opened("throw"))
  /\ UNCHANGED <<frames, state, result, thrown, raised>>

ThrowEnds(x) ==
  /\ In({"throw"}) /\ ~thrown
  /\ frames' = IF state = "NORMAL" THEN [frames EXCEPT ![Top.frame].result = x] ELSE frames
  /\ result' = frames'[Top.frame].result
  /\ raised' = IF state = "NORMAL" THEN x ELSE raised
  /\ state' = "EXCEPTION"
  /\ control' = Front(control)
  /\ UNCHANGED thrown

(* A block, an if, a loop, a switch or a try begins. *)
Open(kind) ==
  /\ Executes /\ Fits(2)
  /\ kind = "try" =>
       \/ \A i \in Destructors: control[i].state # "EXCEPTION"
       \/ "catch while throwing" \in IllUses
  /\ control' = control \o IF kind = "try" THEN <<Opened("try"), Opened("scope")>> ELSE <<Opened(kind)>>
  /\ UNCHANGED <<frames, state, result, thrown, raised>>

(* The body of a loop, or that of a case: cases fall through. *)
Iterate ==
  /\ In({"loop", "switch"}) /\ Goes /\ Fits(1)
  /\ control' = Append(control, Opened("scope"))
  /\ UNCHANGED <<frames, state, result, thrown, raised>>

Continue ==
  /\ In({"loop"}) /\ ~Top.leaves /\ ~thrown /\ state = "CONTINUE"
  /\ state' = "NORMAL"
  /\ UNCHANGED <<frames, control, result, thrown, raised>>

(* HCatch: the exception becomes a variable. *)
Catch ==
  /\ In({"try"}) /\ ~Top.leaves /\ ~thrown /\ state = "EXCEPTION"
  /\ state' = "NORMAL" /\ result' = "none" /\ raised' = "none"
  /\ LET f == Top.frame
         base == Len(Variables(f))
     IN /\ frames' = [frames EXCEPT ![f].variables = Append(@, 0)]
        /\ control' = [control EXCEPT ![Len(control)].leaves = TRUE]
                      \o <<[Scope("catch", f, base) EXCEPT !.declared = 1],
                           Scope("scope", f, base + 1)>>
  /\ UNCHANGED thrown

(* Mutated form: a switch does not take the break that ends it. *)
FinishLoopsOnly ==
  /\ In(VirtualScopes) /\ ~Top.leaves /\ ~thrown
  /\ Top.kind = "loop" => state # "CONTINUE"
  /\ state' = IF Top.kind = "loop" /\ state = "BREAK" THEN "NORMAL" ELSE state
  /\ control' = [control EXCEPT ![Len(control)].leaves = TRUE]
  /\ UNCHANGED <<frames, result, thrown, raised>>

(* Nothing is left to do, or something keeps the thread from going on. *)
Finish ==
  /\ In(VirtualScopes) /\ ~Top.leaves /\ ~thrown
  /\ Top.kind = "loop" => state # "CONTINUE"
  /\ state' = IF Top.kind \in {"loop", "switch"} /\ state = "BREAK" THEN "NORMAL" ELSE state
  /\ control' = [control EXCEPT ![Len(control)].leaves = TRUE]
  /\ UNCHANGED <<frames, result, thrown, raised>>

-----------------------------------------------------------------------------
(* execute_destructor(): the state is put aside, and create_frame() may    *)
(* throw, which do_destroy() catches.  rest are the destructors that       *)
(* follow, old what was put aside before.                                  *)
Destroy(old, rest, calls) ==
  IF Len(frames) = MaxFrames
  THEN /\ state' = "RUNTIME_EXCEPTION"
       /\ control' = calls
       /\ thrown' = old.thrown /\ raised' = old.raised
       /\ UNCHANGED result
  ELSE /\ state' = "NORMAL" /\ thrown' = FALSE /\ raised' = "none"
       /\ control' = calls \o <<[old EXCEPT !.rest = rest]>> \o Body(Len(frames) + 1)
       /\ UNCHANGED result

(* pop_local_variables(), also while a C++ exception passes. *)
Pop ==
  /\ In(VirtualScopes) /\ (Top.leaves \/ thrown)
  /\ Len(Variables(Top.frame)) > Top.base
  /\ LET variables == Variables(Top.frame)
         popped == [frames EXCEPT ![Top.frame].variables = Front(@)]
         chain == Last(variables)
     IN IF chain = 0 \/ state = "RUNTIME_EXCEPTION"
        THEN /\ frames' = popped
             /\ UNCHANGED <<control, state, result, thrown, raised>>
        ELSE /\ frames' = IF Len(frames) = MaxFrames THEN popped ELSE Append(popped, NewFrame)
             /\ Destroy([kind |-> "destructor", state |-> state, thrown |-> thrown,
                         raised |-> raised, rest |-> 0], chain - 1, control)

Leave ==
  /\ In(VirtualScopes) /\ (Top.leaves \/ thrown)
  /\ Len(Variables(Top.frame)) <= Top.base
  /\ control' = Front(control)
  /\ UNCHANGED <<frames, state, result, thrown, raised>>

(* The end of a throw statement, or of a function, that C++ unwinds: the    *)
(* frame of the function stays where it is.                                 *)
Unwind ==
  /\ In({"function", "throw"}) /\ thrown
  /\ control' = Front(control)
  /\ UNCHANGED <<frames, state, result, thrown, raised>>

(* HFunction::execute() ends, with pop_frame(). *)
Return ==
  /\ In({"function"}) /\ ~thrown
  /\ state' = IF state = "RETURN" THEN "NORMAL" ELSE state
  /\ frames' = Front(frames)
  /\ control' = Front(control)
  /\ UNCHANGED <<result, thrown, raised>>

(* Mutated form: the state put aside comes back whatever the destructor met. *)
AfterRestoring(old) == IF state = "EXCEPTION" THEN "RUNTIME_EXCEPTION" ELSE old

(* execute_destructor() ends, then do_destroy() goes on to the base class. *)
After(old) ==
  IF state \in {"EXCEPTION", "RUNTIME_EXCEPTION"} THEN "RUNTIME_EXCEPTION" ELSE old

DestructorReturns ==
  /\ In({"destructor"}) /\ ~thrown
  /\ IF Top.rest > 0
     THEN /\ frames' = IF Len(frames) = MaxFrames THEN frames ELSE Append(frames, NewFrame)
          /\ Destroy([Top EXCEPT !.state = After(Top.state)], Top.rest - 1, Front(control))
     ELSE /\ state' = After(Top.state)
          /\ thrown' = Top.thrown /\ raised' = Top.raised
          /\ control' = Front(control)
          /\ UNCHANGED <<frames, result>>

(* It ends with a C++ exception, which do_destroy() catches. *)
DestructorFails ==
  /\ In({"destructor"}) /\ thrown
  /\ state' = "RUNTIME_EXCEPTION"
  /\ thrown' = Top.thrown /\ raised' = Top.raised
  /\ control' = Front(control)
  /\ UNCHANGED <<frames, result>>

(* HRuntime::execute(): flush_uncaught_exception() and ~HThread(). *)
End ==
  /\ control = <<>> /\ (frames # <<>> \/ state = "EXCEPTION")
  /\ state' = IF state = "EXCEPTION" THEN "RUNTIME_EXCEPTION" ELSE state
  /\ frames' = <<>>
  /\ UNCHANGED <<control, result, thrown, raised>>

Next ==
  \/ \E n \in Chains: Declare(n)
  \/ Call \/ Fail \/ Exit \/ Throw
  \/ \E x \in Exceptions: Raise(x) \/ ThrowEnds(x)
  \/ \E s \in {"RETURN", "BREAK", "CONTINUE"}: Jump(s)
  \/ \E kind \in VirtualScopes \ {"catch"}: Open(kind)
  \/ Iterate \/ Continue \/ Catch \/ Finish
  \/ Pop \/ Leave \/ Unwind \/ Return \/ DestructorReturns \/ DestructorFails
  \/ End

Spec == Init /\ [][Next]_huginnVars

-----------------------------------------------------------------------------
Results == Exceptions \cup {"none", "exit code"}

Frames == [variables: Seq(Chains \cup {0}), result: Results]
Levels ==
  [kind: VirtualScopes \cup {"function", "throw"}, frame: Nat, base: Nat, declared: Nat,
   leaves: BOOLEAN]
  \cup [kind: {"destructor"}, state: States, thrown: BOOLEAN, raised: Results, rest: Nat]

TypeOK ==
  /\ frames \in Seq(Frames) /\ control \in Seq(Levels)
  /\ state \in States /\ result \in Results /\ raised \in Results /\ thrown \in BOOLEAN

(* Nothing the program does can undo that it failed. *)
Failed ==
  \/ thrown \/ state = "RUNTIME_EXCEPTION"
  \/ \E i \in Destructors: control[i].thrown \/ control[i].state = "RUNTIME_EXCEPTION"

(* The program has asked for its end, whatever destructors do meanwhile. *)
Exiting ==
  \/ Destructors = {} /\ state = "EXIT"
  \/ \E i \in Destructors: control[i].state = "EXIT" /\ \A j \in Destructors: i <= j

(* An exception that looks for its handler is the one that was thrown last *)
(* and not caught, although destructors on its way throw others.           *)
ExceptionIsKept == state = "EXCEPTION" => raised # "none" /\ result = raised

(* break and continue stay within the loop that is to obey them.           *)
JumpsAreObeyed ==
  /\ state = "BREAK" => Within({"loop", "switch"})
  /\ state = "CONTINUE" => Within({"loop"})

(* Where a statement is executed, the frame of its function is the current *)
(* one and has the variables declared so far in the scopes around it, each *)
(* of which begins after those of the one around it, so that the places    *)
(* the compiler gave them are right.                                       *)
VariablesAreInPlace ==
  Executes =>
    /\ Top.frame = Len(frames)
    /\ Len(Variables(Top.frame)) = Top.base + Top.declared
    /\ \A i \in DOMAIN control:
         /\ control[i].kind \in VirtualScopes =>
              /\ i > 1 /\ control[i - 1].frame = control[i].frame
              /\ control[i].base = control[i - 1].base + control[i - 1].declared
         /\ control[i].kind = "function" => control[i].base = 0 /\ control[i].declared = 0

(* There is one frame for each function that is executed.                  *)
FramesAreCalls ==
  ~Failed =>
    /\ \A n \in DOMAIN frames: \E i \in Functions: control[i].frame = n
    /\ \A i \in Functions: control[i].frame \in DOMAIN frames
    /\ \A i, j \in Functions: control[i].frame = control[j].frame => i = j

(* A runtime error is final, and so is the exit of the program but for one. *)
FailuresAreFinal ==
  [][/\ Failed => Failed'
     /\ Exiting => Exiting' \/ Failed']_huginnVars
=============================================================================
