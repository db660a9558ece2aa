---------------------------- MODULE HuginnProofs ----------------------------
(***************************************************************************)
(* What the properties of Huginn rest on, for every number of frames, of   *)
(* nested statements, of variables and of destructors: Inv says how the    *)
(* nested calls, the frames and what destructors put aside fit together.   *)
(* There is a lemma for each action of Next; the actions that end a call   *)
(* share PoppedKeeps, those that begin a destructor DestroyingKeeps.       *)
(***************************************************************************)
EXTENDS Huginn, SequenceTheorems, TLAPS

Statements == VirtualScopes \cup {"throw"}
Codes      == VirtualScopes \cup {"function", "throw"}

(* Which call may be within which.  A scope that leaves has nothing in it   *)
(* but a destructor, or the catch of a try.                                 *)
KindInv(i) ==
  LET kind == control[i].kind IN
    /\ kind = "throw" => i = Len(control) /\ state = "NORMAL" /\ ~thrown /\ ~control[i].leaves
    /\ kind = "destructor" =>
         /\ i > 1 /\ control[i - 1].kind \in VirtualScopes
         /\ i < Len(control) => control[i + 1].kind = "function"
    /\ kind \in Statements => i > 1 /\ control[i - 1].kind # "destructor"
    /\ kind = "function" => ~control[i].leaves
    /\ kind \in VirtualScopes /\ control[i].leaves /\ i < Len(control) =>
         \/ control[i + 1].kind = "destructor"
         \/ kind = "try" /\ control[i + 1].kind = "catch"
KindsInv == \A i \in DOMAIN control: KindInv(i)

(* A scope begins after the variables of the one around it.                 *)
PlaceInv(i) ==
  /\ control[i].kind \in Statements =>
       /\ control[i].frame = control[i - 1].frame
       /\ control[i].base = control[i - 1].base + control[i - 1].declared
  /\ control[i].kind = "function" => control[i].base = 0 /\ control[i].declared = 0
  /\ control[i].kind \in {"try", "throw"} => control[i].declared = 0
PlacesInv == \A i \in DOMAIN control: PlaceInv(i)

(* A state that the interpreter cannot get out of.                          *)
Broken(s, t) == t \/ s = "RUNTIME_EXCEPTION"

(* Calls within a function have later frames than those around it.          *)
OrderInv ==
  /\ \A i \in DOMAIN control: control[i].kind \in Codes => control[i].frame \in DOMAIN frames
  /\ \A i, j, k \in DOMAIN control:
       /\ i < j /\ j <= k /\ control[j].kind = "function"
       /\ control[i].kind \in Codes /\ control[k].kind \in Codes
       => control[i].frame < control[k].frame

(* Unless something failed, the innermost call belongs to the last frame,   *)
(* and a function called has the frame after that of its caller.            *)
AtTop ==
  ~Broken(state, thrown) /\ control # <<>> =>
    IF Top.kind = "destructor"
    THEN ~Broken(Top.state, Top.thrown) => control[Len(control) - 1].frame = Len(frames)
    ELSE Top.frame = Len(frames)
CurrentInv ==
  /\ \A i \in DOMAIN control:
       /\ control[i].kind \in Codes /\ i < Len(control) /\ control[i + 1].kind = "function"
       => control[i].frame = control[i + 1].frame - 1
  /\ \A i \in DOMAIN control:
       /\ control[i].kind = "destructor" /\ ~Broken(control[i].state, control[i].thrown)
       /\ i < Len(control)
       => control[i - 1].frame = control[i + 1].frame - 1
  /\ AtTop

(* The variables of a frame against the places of its scopes: a scope that  *)
(* leaves, or is left by C++, may have destroyed some of its own.           *)
Size(f)   == Len(Variables(f))
Whole(c)  == Size(c.frame) = c.base + c.declared
Partly(c) == c.base <= Size(c.frame) /\ Size(c.frame) <= c.base + c.declared

RoomInv(i) ==
  control[i].kind \in Statements =>
    /\ i = Len(control) => IF control[i].leaves \/ thrown THEN Partly(control[i]) ELSE Whole(control[i])
    /\ i < Len(control) /\ control[i + 1].kind = "function" =>
         Whole(control[i]) /\ ~control[i].leaves
    /\ i < Len(control) /\ control[i + 1].kind = "destructor" =>
         Partly(control[i]) /\ (control[i].leaves \/ control[i + 1].thrown)
VariablesInv == \A i \in DOMAIN control: RoomInv(i)

(* A jump has its loop below the i-th call, in the same function.           *)
LoopUnder(i, kinds) ==
  \E j \in DOMAIN control:
    /\ j < i /\ control[j].kind \in kinds /\ ~control[j].leaves
    /\ \A k \in DOMAIN control: j <= k /\ k < i => control[k].kind \notin {"function", "destructor"}
Obeys(s, i) ==
  /\ s = "BREAK" => LoopUnder(i, {"loop", "switch"})
  /\ s = "CONTINUE" => LoopUnder(i, {"loop"})
JumpsInv ==
  /\ Obeys(state, Len(control) + 1)
  /\ thrown => state \in {"NORMAL", "RUNTIME_EXCEPTION"}
  /\ \A i \in Destructors:
       /\ Obeys(control[i].state, i)
       /\ control[i].thrown => control[i].state \in {"NORMAL", "RUNTIME_EXCEPTION"}

(* An exception put aside by a destructor is what HThread still has, unless *)
(* the destructor, or one within it, met another: then it is lost, and the  *)
(* state to come is RUNTIME_EXCEPTION.                                      *)
Upset(s, t) == t \/ s \in {"EXCEPTION", "RUNTIME_EXCEPTION"}
Doomed(i) ==
  \/ Upset(state, thrown)
  \/ \E j \in Destructors: i < j /\ Upset(control[j].state, control[j].thrown)
ExceptionsInv ==
  /\ state = "EXCEPTION" => raised # "none" /\ result = raised
  /\ \A i \in Destructors: control[i].state = "EXCEPTION" =>
       /\ control[i].raised # "none"
       /\ result = control[i].raised \/ Doomed(i)
       /\ \A k \in DOMAIN control: control[k].kind = "try" => k < i

(* Unless something failed, every frame is that of a function.              *)
CallsInv ==
  ~Failed => \A n \in DOMAIN frames: \E i \in Functions: control[i].frame = n

(* None but the outermost destructor puts the exit of the program aside.    *)
ExitInv ==
  /\ state = "EXIT" => Destructors = {}
  /\ \A i \in Destructors: control[i].state = "EXIT" => \A j \in Destructors: i <= j

(* Programs without the statements of IllUses.                              *)
Legal == IllUses = {} /\ "none" \notin Exceptions /\ Chains \subseteq Nat

(* The inductive invariant.                                                 *)
Inv ==
  /\ TypeOK /\ KindsInv /\ PlacesInv /\ OrderInv /\ CurrentInv /\ VariablesInv
  /\ JumpsInv /\ ExceptionsInv /\ CallsInv /\ ExitInv

(* The step that FailuresAreFinal is about.                                 *)
Final == (Failed => Failed') /\ (Exiting => Exiting' \/ Failed')

-----------------------------------------------------------------------------

(* Sequences that grow, lose their last element or change it.               *)
LEMMA Grown ==
  ASSUME NEW S, NEW q \in Seq(S), NEW e \in S
  PROVE  /\ Append(q, e) \in Seq(S)
         /\ Len(Append(q, e)) = Len(q) + 1 /\ Len(q) \in Nat
         /\ DOMAIN q = 1 .. Len(q) /\ DOMAIN Append(q, e) = 1 .. Len(q) + 1
         /\ \A i \in 1 .. Len(q): Append(q, e)[i] = q[i]
         /\ Append(q, e)[Len(q) + 1] = e
OBVIOUS

LEMMA GrownTwice ==
  ASSUME NEW S, NEW q \in Seq(S), NEW d \in S, NEW e \in S
  PROVE  /\ q \o <<d, e>> \in Seq(S)
         /\ Len(q \o <<d, e>>) = Len(q) + 2 /\ Len(q) \in Nat
         /\ DOMAIN q = 1 .. Len(q) /\ DOMAIN (q \o <<d, e>>) = 1 .. Len(q) + 2
         /\ \A i \in 1 .. Len(q): (q \o <<d, e>>)[i] = q[i]
         /\ (q \o <<d, e>>)[Len(q) + 1] = d
         /\ (q \o <<d, e>>)[Len(q) + 2] = e
OBVIOUS

LEMMA Shortened ==
  ASSUME NEW S, NEW q \in Seq(S), q # <<>>
  PROVE  /\ Front(q) \in Seq(S)
         /\ Len(q) \in Nat \ {0} /\ Len(Front(q)) = Len(q) - 1
         /\ DOMAIN q = 1 .. Len(q) /\ DOMAIN Front(q) = 1 .. Len(q) - 1
         /\ \A i \in 1 .. Len(q) - 1: Front(q)[i] = q[i]
         /\ Last(q) = q[Len(q)] /\ q[Len(q)] \in S
<1>1. Len(q) \in Nat \ {0} /\ DOMAIN q = 1 .. Len(q)
  OBVIOUS
<1>2. Last(q) = q[Len(q)] /\ q[Len(q)] \in S
  BY <1>1 DEF Last
<1>3. Front(q) = [i \in 1 .. Len(q) - 1 |-> q[i]]
  BY <1>1 DEF Front
<1>4. Front(q) \in Seq(S) /\ Len(Front(q)) = Len(q) - 1
  BY <1>1, <1>3
<1>. QED BY <1>1, <1>2, <1>3, <1>4

LEMMA Replaced ==
  ASSUME NEW S, NEW q \in Seq(S), q # <<>>, NEW e \in S
  PROVE  /\ [q EXCEPT ![Len(q)] = e] \in Seq(S)
         /\ Len(q) \in Nat \ {0} /\ Len([q EXCEPT ![Len(q)] = e]) = Len(q)
         /\ DOMAIN q = 1 .. Len(q) /\ DOMAIN [q EXCEPT ![Len(q)] = e] = 1 .. Len(q)
         /\ \A i \in 1 .. Len(q) - 1: [q EXCEPT ![Len(q)] = e][i] = q[i]
         /\ [q EXCEPT ![Len(q)] = e][Len(q)] = e
         /\ Last(q) = q[Len(q)] /\ q[Len(q)] \in S
BY DEF Last

(* The fields of calls and of frames, and what changes in them.             *)
LEMMA LevelTypes ==
  ASSUME NEW c \in Levels
  PROVE  /\ c.kind \in Codes \cup {"destructor"}
         /\ c.kind \in Codes =>
              c.frame \in Nat /\ c.base \in Nat /\ c.declared \in Nat /\ c.leaves \in BOOLEAN
         /\ c.kind = "destructor" =>
              c.state \in States /\ c.thrown \in BOOLEAN /\ c.raised \in Results /\ c.rest \in Nat
BY DEF Levels, Codes, VirtualScopes

LEMMA Left ==
  ASSUME NEW c \in Levels, c.kind \in Codes, NEW d, d = [c EXCEPT !.leaves = TRUE]
  PROVE  /\ d \in Levels
         /\ d.kind = c.kind /\ d.frame = c.frame /\ d.base = c.base /\ d.declared = c.declared
         /\ d.leaves
BY DEF Levels, Codes, VirtualScopes

LEMMA Declared ==
  ASSUME NEW c \in Levels, c.kind \in Codes, NEW d, NEW n \in Nat, d = [c EXCEPT !.declared = n]
  PROVE  /\ d \in Levels
         /\ d.kind = c.kind /\ d.frame = c.frame /\ d.base = c.base /\ d.declared = n
         /\ d.leaves = c.leaves
BY DEF Levels, Codes, VirtualScopes

LEMMA Rested ==
  ASSUME NEW c \in Levels, c.kind = "destructor", NEW d, NEW n \in Nat, d = [c EXCEPT !.rest = n]
  PROVE  /\ d \in Levels
         /\ d.kind = "destructor" /\ d.state = c.state /\ d.thrown = c.thrown /\ d.raised = c.raised
         /\ d.rest = n
BY DEF Levels, Codes, VirtualScopes

LEMMA Stated ==
  ASSUME NEW c \in Levels, c.kind = "destructor", NEW d, NEW s \in States, d = [c EXCEPT !.state = s]
  PROVE  /\ d \in Levels
         /\ d.kind = "destructor" /\ d.state = s /\ d.thrown = c.thrown /\ d.raised = c.raised
         /\ d.rest = c.rest
BY DEF Levels, Codes, VirtualScopes

LEMMA ScopeTypes ==
  ASSUME NEW kind \in Codes, NEW f \in Nat, NEW b \in Nat
  PROVE  /\ Scope(kind, f, b) \in Levels
         /\ Scope(kind, f, b).kind = kind /\ Scope(kind, f, b).frame = f
         /\ Scope(kind, f, b).base = b /\ Scope(kind, f, b).declared = 0
         /\ ~Scope(kind, f, b).leaves
BY DEF Levels, Codes, VirtualScopes, Scope

LEMMA TopFacts ==
  ASSUME TypeOK
  PROVE  /\ Len(control) \in Nat /\ DOMAIN control = 1 .. Len(control)
         /\ Len(frames) \in Nat /\ DOMAIN frames = 1 .. Len(frames)
         /\ \A i \in DOMAIN control: control[i] \in Levels
         /\ \A f \in DOMAIN frames:
              frames[f] \in Frames /\ Variables(f) \in Seq(Chains \cup {0}) /\ Len(Variables(f)) \in Nat
         /\ control # <<>> =>
              Len(control) \in DOMAIN control /\ Top = control[Len(control)] /\ Top \in Levels
<1>1. control \in Seq(Levels) /\ frames \in Seq(Frames)
  BY DEF TypeOK
<1>2. control # <<>> => Len(control) \in DOMAIN control /\ Top = control[Len(control)] /\ Top \in Levels
  BY <1>1 DEF Top, Last
<1>3. \A f \in DOMAIN frames:
        frames[f] \in Frames /\ Variables(f) \in Seq(Chains \cup {0}) /\ Len(Variables(f)) \in Nat
  <2>1. \A f \in DOMAIN frames: frames[f] \in Frames
    BY <1>1
  <2>2. \A e \in Frames: e.variables \in Seq(Chains \cup {0}) /\ Len(e.variables) \in Nat
    BY DEF Frames
  <2>. QED BY <2>1, <2>2 DEF Variables
<1>. QED BY <1>1, <1>2, <1>3

LEMMA NewFrameFacts == NewFrame \in Frames /\ NewFrame.variables = <<>> /\ Len(NewFrame.variables) = 0
<1>1. <<>> \in Seq(Chains \cup {0}) /\ Len(<<>>) = 0
  OBVIOUS
<1>. QED BY <1>1 DEF NewFrame, Frames, Results

LEMMA Changed ==
  ASSUME NEW S, NEW F \in Seq(S), NEW f \in DOMAIN F, NEW e \in S, NEW G, G = [F EXCEPT ![f] = e]
  PROVE  /\ G \in Seq(S) /\ Len(G) = Len(F) /\ DOMAIN G = DOMAIN F
         /\ G[f] = e
         /\ \A g \in DOMAIN F: g # f => G[g] = F[g]
OBVIOUS

LEMMA Varied ==
  ASSUME NEW e \in Frames, NEW v \in Seq(Chains \cup {0}), NEW d, d = [e EXCEPT !.variables = v]
  PROVE  d \in Frames /\ d.variables = v
BY DEF Frames

LEMMA Concluded ==
  ASSUME NEW e \in Frames, NEW r \in Results, NEW d, d = [e EXCEPT !.result = r]
  PROVE  d \in Frames /\ d.variables = e.variables /\ d.result = r
BY DEF Frames

-----------------------------------------------------------------------------

LEMMA WholeIsPart ==
  ASSUME TypeOK, NEW c \in Levels, c.kind \in Codes, Whole(c)
  PROVE  Partly(c)
BY LevelTypes DEF Whole, Partly

LEMMA TopIsLast ==
  ASSUME TypeOK, control # <<>>
  PROVE  Len(control) \in DOMAIN control /\ Top = control[Len(control)] /\ Top \in Levels
BY TopFacts

(* Steps of the state alone.                                                *)
LEMMA Unmoved ==
  ASSUME Inv, UNCHANGED <<frames, control>>, control # <<>>, Top.kind \in VirtualScopes,
         ~thrown, state # "RUNTIME_EXCEPTION"
  PROVE  KindsInv' /\ PlacesInv' /\ OrderInv' /\ CurrentInv' /\ VariablesInv'
<1>1. Top = control[Len(control)] /\ Len(control) \in DOMAIN control
  BY TopIsLast DEF Inv
<1>2. Top.kind # "throw"
  BY DEF VirtualScopes
<1>3. KindsInv'
  BY <1>1, <1>2 DEF Inv, KindsInv, KindInv
<1>4. PlacesInv' /\ OrderInv'
  BY DEF Inv, PlacesInv, PlaceInv, OrderInv
<1>5. CurrentInv'
  BY DEF Inv, CurrentInv, AtTop, Broken, Top
<1>6. \A i \in DOMAIN control: control[i].kind \in Statements /\ Whole(control[i]) => Partly(control[i])
  BY WholeIsPart, TopFacts DEF Inv, Statements, Codes
<1>7. VariablesInv'
  BY <1>1, <1>6 DEF Inv, VariablesInv, RoomInv, Whole, Partly, Size, Variables
<1>. QED BY <1>3, <1>4, <1>5, <1>7

LEMMA RaiseKeeps == ASSUME Legal, Inv, NEW x \in Exceptions, Raise(x) PROVE Inv' /\ Final
<1>1. /\ control # <<>> /\ Top.kind \in VirtualScopes /\ ~thrown /\ state = "NORMAL"
      /\ state' = "EXCEPTION" /\ result' = x /\ raised' = x
      /\ frames' = frames /\ control' = control /\ thrown' = thrown
      /\ x \in Results /\ x # "none"
  BY DEF Raise, Evaluates, In, Goes, Legal, Results, VirtualScopes
<1>2. TypeOK'
  BY <1>1 DEF Inv, States, TypeOK
<1>3. KindsInv' /\ PlacesInv' /\ OrderInv' /\ CurrentInv' /\ VariablesInv'
  BY <1>1, Unmoved
<1>4. JumpsInv'
  BY <1>1 DEF Inv, JumpsInv, Obeys, LoopUnder, Destructors
<1>5. ExceptionsInv'
  BY <1>1 DEF Inv, ExceptionsInv, Doomed, Upset, Destructors
<1>6. CallsInv'
  BY <1>1 DEF Inv, CallsInv, Failed, Functions, Destructors
<1>7. ExitInv'
  BY <1>1 DEF Inv, ExitInv, Destructors
<1>8. Final
  BY <1>1 DEF Final, Failed, Exiting, Destructors
<1>. QED BY <1>2, <1>3, <1>4, <1>5, <1>6, <1>7, <1>8 DEF Inv

LEMMA FailureKeeps ==
  ASSUME Inv, Evaluates, Top.kind \in VirtualScopes,
         thrown' = TRUE, UNCHANGED <<frames, control, state, result, raised>>
  PROVE  Inv' /\ Final
<1>1. /\ control # <<>> /\ ~thrown /\ state = "NORMAL"
  BY DEF Evaluates, In, Goes
<1>2. TypeOK'
  BY <1>1 DEF Inv, TypeOK
<1>3. KindsInv' /\ PlacesInv' /\ OrderInv' /\ CurrentInv' /\ VariablesInv'
  BY <1>1, Unmoved
<1>4. JumpsInv'
  BY <1>1 DEF Inv, JumpsInv, Obeys, LoopUnder, Destructors
<1>5. ExceptionsInv'
  BY <1>1 DEF Inv, ExceptionsInv, Doomed, Upset, Destructors
<1>6. CallsInv'
  BY <1>1 DEF Inv, CallsInv, Failed, Functions, Destructors
<1>7. ExitInv'
  BY <1>1 DEF Inv, ExitInv, Destructors
<1>8. Final
  BY <1>1 DEF Final, Failed, Exiting, Destructors
<1>. QED BY <1>2, <1>3, <1>4, <1>5, <1>6, <1>7, <1>8 DEF Inv

LEMMA FailKeeps == ASSUME Legal, Inv, Fail PROVE Inv' /\ Final
<1>1. Evaluates /\ Top.kind \in VirtualScopes
  BY DEF Fail, Evaluates, In, Goes, Legal, VirtualScopes
<1>. QED BY <1>1, FailureKeeps DEF Fail

LEMMA ExitKeeps == ASSUME Legal, Inv, Exit PROVE Inv' /\ Final
<1>1. /\ control # <<>> /\ Top.kind \in VirtualScopes /\ ~thrown /\ state = "NORMAL"
      /\ state' = "EXIT" /\ result' = "exit code" /\ "exit code" \in Results
      /\ frames' = frames /\ control' = control /\ thrown' = thrown /\ raised' = raised
      /\ Destructors = {}
  BY DEF Exit, Evaluates, In, Goes, Legal, Results, VirtualScopes
<1>2. TypeOK'
  BY <1>1 DEF Inv, States, TypeOK
<1>3. KindsInv' /\ PlacesInv' /\ OrderInv' /\ CurrentInv' /\ VariablesInv'
  BY <1>1, Unmoved
<1>4. JumpsInv'
  BY ZenonT(60), <1>1 DEF Inv, JumpsInv, Obeys, LoopUnder, Destructors
<1>5. ExceptionsInv'
  BY <1>1 DEF Inv, ExceptionsInv, Doomed, Upset, Destructors
<1>6. CallsInv'
  BY <1>1 DEF Inv, CallsInv, Failed, Functions, Destructors
<1>7. ExitInv'
  BY <1>1 DEF Inv, ExitInv, Destructors
<1>8. Final
  BY <1>1 DEF Final, Failed, Exiting, Destructors
<1>. QED BY <1>2, <1>3, <1>4, <1>5, <1>6, <1>7, <1>8 DEF Inv

LEMMA LoopsGoOn ==
  ASSUME Inv, control # <<>>, ~thrown, Top.kind \in VirtualScopes, ~Top.leaves,
         NEW kinds \in SUBSET {"loop", "switch"}, Within(kinds)
  PROVE  LoopUnder(Len(control) + 1, kinds)
<1>1. Top = control[Len(control)] /\ Len(control) \in DOMAIN control /\ Top \in Levels
      /\ DOMAIN control = 1 .. Len(control) /\ Len(control) \in Nat
  BY TopFacts DEF Inv
<1>2. PICK j \in DOMAIN control: control[j].kind \in kinds /\ \A k \in Functions: k < j
  BY DEF Within
<1>3. \A k \in DOMAIN control: j <= k => control[k].kind # "function"
  BY <1>1, <1>2 DEF Functions
<1>4. \A k \in DOMAIN control: j <= k => control[k].kind # "destructor"
  <2> SUFFICES ASSUME NEW k \in DOMAIN control, j <= k, control[k].kind = "destructor" PROVE FALSE
    OBVIOUS
  <2>1. k # Len(control)
    BY <1>1 DEF VirtualScopes
  <2>2. k < Len(control)
    BY <1>1, <2>1
  <2>3. control[k + 1].kind = "function"
    BY <2>2 DEF Inv, KindsInv, KindInv
  <2>. QED BY <1>1, <1>3, <2>2, <2>3
<1>5. ~control[j].leaves
  <2>1. CASE j = Len(control)
    BY <1>1, <2>1
  <2>2. CASE j < Len(control)
    <3>1. j + 1 \in DOMAIN control /\ control[j + 1].kind # "destructor"
      BY <1>1, <1>4, <2>2
    <3>2. control[j].kind \in VirtualScopes /\ control[j].kind # "try"
      BY <1>2 DEF VirtualScopes
    <3>3. control[j].leaves \in BOOLEAN
      BY TopFacts, LevelTypes, <3>2 DEF Inv, Codes
    <3>. QED BY <2>2, <3>1, <3>2, <3>3 DEF Inv, KindsInv, KindInv
  <2>. QED BY <1>1, <2>1, <2>2
<1>. QED BY <1>1, <1>2, <1>3, <1>4, <1>5 DEF LoopUnder

LEMMA JumpKeeps ==
  ASSUME Legal, Inv, NEW new \in {"RETURN", "BREAK", "CONTINUE"}, Jump(new)
  PROVE  Inv' /\ Final
<1>1. /\ control # <<>> /\ Top.kind \in VirtualScopes /\ ~Top.leaves /\ ~thrown /\ state = "NORMAL"
      /\ state' = new /\ result' = result /\ raised' = raised
      /\ frames' = frames /\ control' = control /\ thrown' = thrown
      /\ new = "BREAK" => Within({"loop", "switch"})
      /\ new = "CONTINUE" => Within({"loop"})
  BY DEF Jump, Executes, In, Goes, Legal, VirtualScopes
<1>2. TypeOK'
  BY <1>1 DEF Inv, States, TypeOK
<1>3. KindsInv' /\ PlacesInv' /\ OrderInv' /\ CurrentInv' /\ VariablesInv'
  BY <1>1, Unmoved
<1>4. JumpsInv'
  <2>1. Obeys(new, Len(control) + 1)
    BY <1>1, LoopsGoOn DEF Obeys
  <2>. QED BY <1>1, <2>1 DEF Inv, JumpsInv, Obeys, LoopUnder, Destructors
<1>5. ExceptionsInv'
  BY <1>1 DEF Inv, ExceptionsInv, Doomed, Upset, Destructors
<1>6. CallsInv'
  BY <1>1 DEF Inv, CallsInv, Failed, Functions, Destructors
<1>7. ExitInv'
  BY <1>1 DEF Inv, ExitInv, Destructors
<1>8. Final
  BY <1>1 DEF Final, Failed, Exiting, Destructors
<1>. QED BY <1>2, <1>3, <1>4, <1>5, <1>6, <1>7, <1>8 DEF Inv

LEMMA ContinueKeeps == ASSUME Legal, Inv, Continue PROVE Inv' /\ Final
<1>1. /\ control # <<>> /\ Top.kind \in VirtualScopes /\ ~Top.leaves /\ ~thrown /\ state = "CONTINUE"
      /\ state' = "NORMAL" /\ result' = result /\ raised' = raised
      /\ frames' = frames /\ control' = control /\ thrown' = thrown
  BY DEF Continue, In, VirtualScopes
<1>2. TypeOK'
  BY <1>1 DEF Inv, States, TypeOK
<1>3. KindsInv' /\ PlacesInv' /\ OrderInv' /\ CurrentInv' /\ VariablesInv'
  BY <1>1, Unmoved
<1>4. JumpsInv'
  BY <1>1 DEF Inv, JumpsInv, Obeys, LoopUnder, Destructors
<1>5. ExceptionsInv'
  BY <1>1 DEF Inv, ExceptionsInv, Doomed, Upset, Destructors
<1>6. CallsInv'
  BY <1>1 DEF Inv, CallsInv, Failed, Functions, Destructors
<1>7. ExitInv'
  BY <1>1 DEF Inv, ExitInv, Destructors
<1>8. Final
  BY <1>1 DEF Final, Failed, Exiting, Destructors
<1>. QED BY <1>2, <1>3, <1>4, <1>5, <1>6, <1>7, <1>8 DEF Inv

(* Where a statement goes on. *)
Going == control # <<>> /\ Top.kind \in VirtualScopes /\ Goes

LEMMA GoingFacts ==
  ASSUME Inv, Going
  PROVE  /\ Len(control) \in Nat \ {0} /\ DOMAIN control = 1 .. Len(control)
         /\ Top = control[Len(control)] /\ Top \in Levels /\ Top.frame = Len(frames)
         /\ Len(frames) \in DOMAIN frames /\ Len(frames) \in Nat /\ Top.base \in Nat /\ Top.declared \in Nat
         /\ Size(Len(frames)) = Top.base + Top.declared
<1>1. /\ Len(control) \in Nat \ {0} /\ DOMAIN control = 1 .. Len(control)
      /\ Top = control[Len(control)] /\ Top \in Levels /\ Len(control) \in DOMAIN control
  BY TopFacts DEF Inv, Going
<1>2. Top.kind \in Codes /\ Top.kind \in Statements
  BY DEF Going, Codes, Statements
<1>3. Top.frame = Len(frames)
  BY <1>2 DEF Inv, CurrentInv, AtTop, Broken, Going, Goes, Codes, VirtualScopes
<1>4. Len(frames) \in DOMAIN frames /\ Len(frames) \in Nat
  BY <1>1, <1>2, <1>3, TopFacts DEF Inv, OrderInv
<1>5. Whole(Top)
  BY <1>1, <1>2 DEF Inv, VariablesInv, RoomInv, Going, Goes
<1>. QED BY <1>1, <1>2, <1>3, <1>4, <1>5, LevelTypes DEF Whole

LEMMA OpenedTypes ==
  ASSUME Inv, Going, NEW kind \in Codes
  PROVE  /\ Opened(kind) \in Levels
         /\ Opened(kind).kind = kind /\ Opened(kind).frame = Top.frame
         /\ Opened(kind).base = Top.base + Top.declared /\ Opened(kind).declared = 0
         /\ ~Opened(kind).leaves
<1>1. /\ Top.frame = Len(frames) /\ Len(frames) \in Nat /\ Top.base \in Nat /\ Top.declared \in Nat
      /\ Len(Variables(Len(frames))) = Top.base + Top.declared
  BY GoingFacts DEF Size
<1>2. PICK f \in Nat, b \in Nat: f = Top.frame /\ b = Top.base + Top.declared
  BY <1>1
<1>3. Opened(kind) = Scope(kind, f, b)
  BY <1>1, <1>2 DEF Opened
<1>4. LET c == Scope(kind, f, b)
      IN  /\ c \in Levels /\ c.kind = kind /\ c.frame = f /\ c.base = b /\ c.declared = 0
          /\ ~c.leaves
  BY <1>2, ScopeTypes
<1>. QED BY <1>2, <1>3, <1>4

(* A jump keeps its loop while the calls below it stay.                      *)
LEMMA LoopsStay ==
  ASSUME TypeOK, TypeOK', NEW m \in Nat, m <= Len(control), m <= Len(control'),
         \A i \in 1 .. m: control'[i] = control[i],
         NEW i \in 1 .. m + 1, NEW s, Obeys(s, i)
  PROVE  Obeys(s, i)'
<1>1. DOMAIN control = 1 .. Len(control) /\ Len(control) \in Nat
      /\ DOMAIN control' = 1 .. Len(control') /\ Len(control') \in Nat
  BY DEF TypeOK
<1>2. ASSUME NEW kinds, LoopUnder(i, kinds) PROVE LoopUnder(i, kinds)'
  <2>1. PICK j \in DOMAIN control:
          /\ j < i /\ control[j].kind \in kinds /\ ~control[j].leaves
          /\ \A k \in DOMAIN control: j <= k /\ k < i => control[k].kind \notin {"function", "destructor"}
    BY <1>2 DEF LoopUnder
  <2>2. j \in 1 .. m /\ j \in DOMAIN control'
    BY <1>1, <2>1
  <2>3. \A k \in DOMAIN control': k < i => k \in 1 .. m /\ k \in DOMAIN control
    BY <1>1
  <2>. QED BY <2>1, <2>2, <2>3 DEF LoopUnder
<1>. QED BY <1>2 DEF Obeys

(* A statement begins.                                                      *)
LEMMA OpeningKeeps ==
  ASSUME Inv, Going, NEW kind \in {"scope", "loop", "switch", "throw"},
         control' = Append(control, Opened(kind)),
         UNCHANGED <<frames, state, result, thrown, raised>>
  PROVE  Inv' /\ Final
<1> DEFINE n == Len(control)
           new == Opened(kind)
<1>1. /\ n \in Nat \ {0} /\ DOMAIN control = 1 .. n
      /\ Top = control[n] /\ Top \in Levels /\ Top.frame = Len(frames)
      /\ Len(frames) \in DOMAIN frames /\ Len(frames) \in Nat /\ Top.base \in Nat /\ Top.declared \in Nat
      /\ Size(Len(frames)) = Top.base + Top.declared
  BY GoingFacts
<1>2. /\ new \in Levels /\ new.kind = kind /\ new.frame = Top.frame
      /\ new.base = Top.base + Top.declared /\ new.declared = 0 /\ ~new.leaves
  <2>1. kind \in Codes
    BY DEF Codes, VirtualScopes
  <2>. QED BY <2>1, OpenedTypes
<1>3. /\ control' \in Seq(Levels)
      /\ Len(control') = n + 1 /\ DOMAIN control' = 1 .. n + 1
      /\ \A i \in 1 .. n: control'[i] = control[i]
      /\ control'[n + 1] = new
  BY <1>2, Grown DEF Inv, TypeOK
<1>4. /\ kind \in Statements /\ kind \in Codes /\ kind # "function" /\ kind # "destructor" /\ kind # "try"
      /\ Top.kind \in VirtualScopes /\ ~Top.leaves /\ state = "NORMAL" /\ ~thrown
      /\ Top.kind # "destructor" /\ Top.kind # "function" /\ Top.kind # "throw"
  BY DEF Going, Goes, Statements, Codes, VirtualScopes
<1>. HIDE DEF n, new
<1>5. TypeOK'
  BY <1>3 DEF Inv, TypeOK
<1>6. KindsInv'
  BY <1>1, <1>2, <1>3, <1>4 DEF Inv, KindsInv, KindInv, n
<1>7. PlacesInv'
  <2> SUFFICES ASSUME NEW i \in DOMAIN control'
               PROVE  PlaceInv(i)'
    BY DEF PlacesInv
  <2>1. CASE i <= n
    BY <1>1, <1>3, <2>1 DEF Inv, PlacesInv, PlaceInv, KindsInv, KindInv
  <2>2. CASE i = n + 1
    BY <1>1, <1>2, <1>3, <1>4, <2>2 DEF PlaceInv
  <2>. QED BY <1>1, <1>3, <2>1, <2>2
<1>8. OrderInv'
  <2>1. \A i \in DOMAIN control': control'[i].kind \in Codes => control'[i].frame \in DOMAIN frames
    BY <1>1, <1>2, <1>3, <1>4 DEF Inv, OrderInv
  <2>2. ASSUME NEW i \in DOMAIN control', NEW j \in DOMAIN control', NEW k \in DOMAIN control',
               i < j, j <= k, control'[j].kind = "function",
               control'[i].kind \in Codes, control'[k].kind \in Codes
        PROVE  control'[i].frame < control'[k].frame
    <3>1. CASE k <= n
      BY <1>1, <1>3, <2>2, <3>1 DEF Inv, OrderInv
    <3>2. CASE k = n + 1
      <4>1. j <= n
        BY <1>1, <1>2, <1>3, <1>4, <2>2, <3>2
      <4>2. control[i].frame < control[n].frame
        BY SMTT(40), <1>1, <1>3, <1>4, <2>2, <4>1 DEF Inv, OrderInv, Codes
      <4>. QED BY <1>1, <1>2, <1>3, <3>2, <4>1, <4>2, <2>2
    <3>. QED BY <1>1, <1>3, <3>1, <3>2
  <2>. QED BY <2>1, <2>2 DEF OrderInv
<1>9. CurrentInv'
  <2>1. \A i \in DOMAIN control':
          /\ control'[i].kind \in Codes /\ i < Len(control') /\ control'[i + 1].kind = "function"
          => control'[i].frame = control'[i + 1].frame - 1
    BY <1>1, <1>2, <1>3, <1>4 DEF Inv, CurrentInv, AtTop, n
  <2>2. ASSUME NEW i \in DOMAIN control', i < Len(control'),
               control'[i].kind = "destructor", ~Broken(control'[i].state, control'[i].thrown)
        PROVE  control'[i - 1].frame = control'[i + 1].frame - 1
    <3>1. i < n /\ control'[i] = control[i] /\ control'[i + 1] = control[i + 1] /\ i \in DOMAIN control
      BY <1>1, <1>3, <1>4, <2>2
    <3>2. i > 1 /\ control'[i - 1] = control[i - 1]
      BY <1>1, <1>3, <2>2, <3>1 DEF Inv, KindsInv, KindInv
    <3>. QED BY <2>2, <3>1, <3>2 DEF Inv, CurrentInv, AtTop, n
  <2>3. Top' = new /\ new.kind # "destructor" /\ new.frame = Len(frames)
    BY <1>1, <1>2, <1>3, <1>4 DEF Top, Last
  <2>. QED BY <2>1, <2>2, <2>3 DEF CurrentInv, AtTop
<1>10. VariablesInv'
  <2> SUFFICES ASSUME NEW i \in DOMAIN control' PROVE RoomInv(i)'
    BY DEF VariablesInv
  <2>1. CASE i < n
    BY <1>1, <1>3, <2>1 DEF Inv, VariablesInv, RoomInv, Whole, Partly, Size, Variables, n
  <2>2. CASE i = n
    BY <1>1, <1>2, <1>3, <1>4, <2>2 DEF RoomInv
  <2>3. CASE i = n + 1
    <3>1. Whole(new) /\ frames' = frames
      BY <1>1, <1>2 DEF Whole
    <3>2. control'[i] = new /\ i = Len(control')
      BY <1>3, <2>3
    <3>3. Whole(control[i])' /\ ~control'[i].leaves
      BY <1>2, <3>1, <3>2 DEF Whole, Size, Variables
    <3>. QED BY <1>4, <3>2, <3>3 DEF RoomInv
  <2>. QED BY <1>1, <1>3, <2>1, <2>2, <2>3
<1>11. JumpsInv'
  BY SMTT(40), <1>1, <1>2, <1>3, <1>4 DEF Inv, JumpsInv, Obeys, LoopUnder, Destructors, n
<1>12. ExceptionsInv'
  BY <1>1, <1>2, <1>3, <1>4 DEF Inv, ExceptionsInv, Doomed, Upset, Destructors, n
<1>13. CallsInv'
  BY <1>1, <1>2, <1>3, <1>4 DEF Inv, CallsInv, Failed, Functions, Destructors, n
<1>14. ExitInv'
  BY <1>1, <1>2, <1>3, <1>4 DEF Inv, ExitInv, Destructors, n
<1>15. Final
  BY SMTT(40), <1>1, <1>2, <1>3, <1>4 DEF Final, Failed, Exiting, Destructors
<1>. QED BY <1>5, <1>6, <1>7, <1>8, <1>9, <1>10, <1>11, <1>12, <1>13, <1>14, <1>15 DEF Inv

(* A try begins, with the block in it.                                      *)
LEMMA TryingKeeps ==
  ASSUME Inv, Going, \A i \in Destructors: control[i].state # "EXCEPTION",
         control' = control \o <<Opened("try"), Opened("scope")>>,
         UNCHANGED <<frames, state, result, thrown, raised>>
  PROVE  Inv' /\ Final
<1> DEFINE n == Len(control)
           first == Opened("try")
           second == Opened("scope")
<1>1. /\ n \in Nat \ {0} /\ DOMAIN control = 1 .. n
      /\ Top = control[n] /\ Top \in Levels /\ Top.frame = Len(frames)
      /\ Len(frames) \in DOMAIN frames /\ Len(frames) \in Nat /\ Top.base \in Nat /\ Top.declared \in Nat
      /\ Size(Len(frames)) = Top.base + Top.declared
  BY GoingFacts
<1>2. "try" \in Codes /\ "scope" \in Codes
  BY DEF Codes, VirtualScopes
<1>5. /\ first \in Levels /\ second \in Levels
      /\ first.kind = "try" /\ first.frame = Top.frame /\ first.base = Top.base + Top.declared
      /\ first.declared = 0 /\ ~first.leaves
      /\ second.kind = "scope" /\ second.frame = Top.frame /\ second.base = Top.base + Top.declared
      /\ second.declared = 0 /\ ~second.leaves
  BY <1>2, OpenedTypes
<1>3. /\ control' \in Seq(Levels)
      /\ Len(control') = n + 2 /\ DOMAIN control' = 1 .. n + 2
      /\ \A i \in 1 .. n: control'[i] = control[i]
      /\ control'[n + 1] = first /\ control'[n + 2] = second
      /\ \A i \in DOMAIN control': i <= n \/ i = n + 1 \/ i = n + 2
  BY <1>1, <1>5, GrownTwice DEF Inv, TypeOK
<1>4. /\ Top.kind \in VirtualScopes /\ ~Top.leaves /\ state = "NORMAL" /\ ~thrown
      /\ Top.kind # "destructor" /\ Top.kind # "function" /\ Top.kind # "throw"
      /\ Top.kind \in Codes
      /\ "try" \in VirtualScopes /\ "scope" \in VirtualScopes
      /\ "try" \in Statements /\ "scope" \in Statements /\ "try" \in Codes /\ "scope" \in Codes
      /\ "function" \notin Statements /\ "destructor" \notin Codes
  BY DEF Going, Goes, Statements, Codes, VirtualScopes
<1>. HIDE DEF n, first, second
<1>6. TypeOK'
  BY <1>3 DEF Inv, TypeOK
<1>7. KindsInv'
  <2> SUFFICES ASSUME NEW i \in DOMAIN control' PROVE KindInv(i)'
    BY DEF KindsInv
  <2>1. CASE i <= n
    BY <1>1, <1>3, <1>4, <1>5, <2>1 DEF Inv, KindsInv, KindInv, n
  <2>2. CASE i > n
    <3>1. CASE i = n + 1
      BY <1>1, <1>3, <1>4, <1>5, <3>1 DEF KindInv
    <3>2. CASE i = n + 2
      BY <1>1, <1>3, <1>4, <1>5, <3>2 DEF KindInv
    <3>. QED BY <1>1, <1>3, <2>2, <3>1, <3>2
  <2>. QED BY <1>1, <1>3, <2>1, <2>2
<1>8. PlacesInv'
  <2> SUFFICES ASSUME NEW i \in DOMAIN control' PROVE PlaceInv(i)'
    BY DEF PlacesInv
  <2>1. CASE i <= n
    BY <1>1, <1>3, <2>1 DEF Inv, PlacesInv, PlaceInv, KindsInv, KindInv
  <2>2. CASE i > n
    <3>1. CASE i = n + 1
      BY <1>1, <1>3, <1>4, <1>5, <3>1 DEF PlaceInv
    <3>2. CASE i = n + 2
      BY <1>1, <1>3, <1>4, <1>5, <3>2 DEF PlaceInv
    <3>. QED BY <1>1, <1>3, <2>2, <3>1, <3>2
  <2>. QED BY <1>1, <1>3, <2>1, <2>2
<1>9. OrderInv'
  <2>1. \A i \in DOMAIN control': control'[i].kind \in Codes => control'[i].frame \in DOMAIN frames
    BY <1>1, <1>3, <1>4, <1>5 DEF Inv, OrderInv
  <2>2. ASSUME NEW i \in DOMAIN control', NEW j \in DOMAIN control', NEW k \in DOMAIN control',
               i < j, j <= k, control'[j].kind = "function",
               control'[i].kind \in Codes, control'[k].kind \in Codes
        PROVE  control'[i].frame < control'[k].frame
    <3>1. CASE k <= n
      BY <1>1, <1>3, <2>2, <3>1 DEF Inv, OrderInv
    <3>2. CASE k > n
      <4>1. j <= n
        BY <1>3, <1>5, <2>2
      <4>2. control[i].frame < control[n].frame
        <5>1. i \in DOMAIN control /\ j \in DOMAIN control /\ n \in DOMAIN control /\ j <= n
          BY <1>1, <1>3, <2>2, <4>1
        <5>2. control[j].kind = "function" /\ control[i].kind \in Codes /\ control[n].kind \in Codes
          BY <1>1, <1>3, <1>4, <2>2, <5>1
        <5>. QED BY <2>2, <5>1, <5>2 DEF Inv, OrderInv
      <4>. QED BY <1>1, <1>3, <1>5, <3>2, <4>1, <4>2, <2>2
    <3>. QED BY <1>1, <1>3, <3>1, <3>2
  <2>. QED BY <2>1, <2>2 DEF OrderInv
<1>10. CurrentInv'
  <2>1. \A i \in DOMAIN control':
          /\ control'[i].kind \in Codes /\ i < Len(control') /\ control'[i + 1].kind = "function"
          => control'[i].frame = control'[i + 1].frame - 1
    <3> SUFFICES ASSUME NEW i \in DOMAIN control', control'[i].kind \in Codes, i < Len(control'),
                        control'[i + 1].kind = "function"
                 PROVE  control'[i].frame = control'[i + 1].frame - 1
      OBVIOUS
    <3>1. i + 1 \in DOMAIN control'
      BY <1>1, <1>3
    <3>2. i + 1 <= n
      BY <1>3, <1>5, <3>1
    <3>3. control'[i] = control[i] /\ control'[i + 1] = control[i + 1] /\ i < n /\ i \in DOMAIN control
      BY <1>1, <1>3, <3>2
    <3>. QED BY <3>3 DEF Inv, CurrentInv, AtTop, n
  <2>2. ASSUME NEW i \in DOMAIN control', i < Len(control'),
               control'[i].kind = "destructor", ~Broken(control'[i].state, control'[i].thrown)
        PROVE  control'[i - 1].frame = control'[i + 1].frame - 1
    <3>1. i < n /\ control'[i] = control[i] /\ control'[i + 1] = control[i + 1] /\ i \in DOMAIN control
      <4>1. i <= n /\ i # n
        BY <1>1, <1>3, <1>4, <1>5, <2>2
      <4>. QED BY <1>1, <1>3, <4>1
    <3>2. i > 1 /\ control'[i - 1] = control[i - 1]
      BY <1>1, <1>3, <2>2, <3>1 DEF Inv, KindsInv, KindInv
    <3>. QED BY <2>2, <3>1, <3>2 DEF Inv, CurrentInv, AtTop, n
  <2>3. Top' = second /\ second.kind # "destructor" /\ second.frame = Len(frames)
    BY <1>1, <1>3, <1>5 DEF Top, Last
  <2>. QED BY <2>1, <2>2, <2>3 DEF CurrentInv, AtTop
<1>11. VariablesInv'
  <2> SUFFICES ASSUME NEW i \in DOMAIN control' PROVE RoomInv(i)'
    BY DEF VariablesInv
  <2>1. CASE i < n
    BY <1>1, <1>3, <2>1 DEF Inv, VariablesInv, RoomInv, Whole, Partly, Size, Variables, n
  <2>2. CASE i >= n
    <3>1. CASE i = n
      BY <1>1, <1>3, <1>4, <1>5, <3>1 DEF RoomInv
    <3>2. CASE i = n + 1
      BY <1>1, <1>3, <1>4, <1>5, <3>2 DEF RoomInv
    <3>3. CASE i = n + 2
      <4>1. Whole(second) /\ frames' = frames
        BY <1>1, <1>5 DEF Whole
      <4>2. control'[i] = second /\ i = Len(control')
        BY <1>3, <3>3
      <4>3. Whole(control[i])' /\ ~control'[i].leaves
        BY <1>5, <4>1, <4>2 DEF Whole, Size, Variables
      <4>. QED BY <1>4, <4>2, <4>3 DEF RoomInv
    <3>. QED BY <1>1, <1>3, <2>2, <3>1, <3>2, <3>3
  <2>. QED BY <1>1, <1>3, <2>1, <2>2
<1>12. JumpsInv'
  <2>1. thrown' = thrown /\ state' = "NORMAL"
    BY <1>4
  <2>2. Destructors' = Destructors /\ \A i \in Destructors: i <= n /\ control'[i] = control[i]
    BY SMTT(40), <1>1, <1>3, <1>5 DEF Destructors
  <2>3. \A i \in Destructors: Obeys(control[i].state, i)'
    <3> TAKE i \in Destructors
    <3>1. PICK s: s = control[i].state
      OBVIOUS
    <3>4. Obeys(s, i) /\ i \in 1 .. n + 1
      BY <1>1, <2>2, <3>1 DEF Inv, JumpsInv, Destructors
    <3>2. n \in Nat /\ n <= Len(control) /\ n <= Len(control')
      BY <1>1, <1>3 DEF n
    <3>3. TypeOK
      BY DEF Inv
    <3>5. Obeys(s, i)'
      BY <1>3, <1>6, <3>4, <3>2, <3>3, LoopsStay
    <3>. QED BY <2>2, <3>1, <3>5 DEF Obeys
  <2>. QED BY <2>1, <2>2, <2>3, <1>4 DEF Inv, JumpsInv, Obeys
<1>13. ExceptionsInv'
  BY <1>1, <1>3, <1>4, <1>5 DEF Inv, ExceptionsInv, Doomed, Upset, Destructors, n
<1>14. CallsInv'
  <2>1. Destructors' = Destructors /\ \A i \in Destructors: control'[i] = control[i]
    BY <1>1, <1>3, <1>4, <1>5 DEF Destructors, n
  <2>2. Failed' = Failed
    BY <1>1, <2>1 DEF Failed
  <2>3. \A i \in Functions: i \in Functions' /\ control'[i] = control[i]
    BY <1>3, <1>5 DEF Functions, n
  <2>. QED BY <1>1, <2>2, <2>3 DEF Inv, CallsInv
<1>15. ExitInv'
  BY <1>1, <1>3, <1>4, <1>5 DEF Inv, ExitInv, Destructors, n
<1>16. Final
  BY <1>1, <1>3, <1>4, <1>5 DEF Final, Failed, Exiting, Destructors
<1>. QED BY <1>6, <1>7, <1>8, <1>9, <1>10, <1>11, <1>12, <1>13, <1>14, <1>15, <1>16 DEF Inv

(* Who called a function, or a destructor, has not the current frame.       *)
LEMMA FramesApart ==
  ASSUME Inv, control # <<>>, Top.kind \in Codes,
         NEW i \in DOMAIN control, control[i].kind \in Codes, i < Len(control),
         control[i + 1].kind = "function" \/ control[i + 1].kind = "destructor"
  PROVE  control[i].frame < Top.frame
<1>1. /\ Len(control) \in Nat \ {0} /\ DOMAIN control = 1 .. Len(control)
      /\ Top = control[Len(control)] /\ i \in Nat
  BY TopFacts DEF Inv
<1>2. PICK j \in DOMAIN control: i < j /\ j <= Len(control) /\ control[j].kind = "function"
  <2>1. CASE control[i + 1].kind = "function"
    BY <1>1, <2>1
  <2>2. CASE control[i + 1].kind = "destructor"
    <3>1. i + 1 \in DOMAIN control /\ i + 1 # Len(control)
      BY <1>1, <2>2 DEF Codes, VirtualScopes
    <3>2. control[i + 2].kind = "function"
      BY <1>1, <2>2, <3>1 DEF Inv, KindsInv, KindInv
    <3>. QED BY <1>1, <3>1, <3>2
  <2>. QED BY <2>1, <2>2
<1>3. Len(control) \in DOMAIN control
  BY <1>1
<1>. QED BY <1>1, <1>2, <1>3 DEF Inv, OrderInv

LEMMA FinishKeeps == ASSUME Legal, Inv, Finish PROVE Inv' /\ Final
<1> DEFINE n == Len(control)
           new == [Top EXCEPT !.leaves = TRUE]
<1>1. /\ n \in Nat \ {0} /\ DOMAIN control = 1 .. n /\ Top = control[n] /\ Top \in Levels
  BY TopFacts DEF Inv, Finish, In
<1>2. /\ control # <<>> /\ Top.kind \in VirtualScopes /\ Top.kind \in Codes /\ Top.kind \in Statements
      /\ Top.kind # "throw" /\ Top.kind # "function" /\ Top.kind # "destructor"
      /\ ~Top.leaves /\ ~thrown
      /\ Top.kind = "loop" => state # "CONTINUE"
      /\ state' = IF Top.kind \in {"loop", "switch"} /\ state = "BREAK" THEN "NORMAL" ELSE state
      /\ frames' = frames /\ result' = result /\ thrown' = thrown /\ raised' = raised
  BY DEF Finish, In, Codes, Statements, VirtualScopes
<1>3. /\ new \in Levels /\ new.kind = Top.kind /\ new.frame = Top.frame /\ new.base = Top.base
      /\ new.declared = Top.declared /\ new.leaves
  BY <1>1, <1>2, Left
<1>4. control' = [control EXCEPT ![n] = new]
  BY <1>1 DEF Finish
<1>5. /\ control' \in Seq(Levels) /\ Len(control') = n /\ DOMAIN control' = 1 .. n
      /\ \A i \in 1 .. n - 1: control'[i] = control[i]
      /\ control'[n] = new
  BY <1>2, <1>3, <1>4, Replaced DEF Inv, TypeOK
<1>6. /\ \A i \in DOMAIN control: control'[i].kind = control[i].kind
      /\ \A i \in DOMAIN control: control[i].kind \in Codes => control'[i].frame = control[i].frame
  <2>1. \A i \in DOMAIN control: i # n => control'[i] = control[i]
    BY <1>1, <1>5
  <2>. QED BY <1>1, <1>3, <1>5, <2>1
<1>. HIDE DEF n, new
<1>7. TypeOK'
  BY <1>2, <1>5 DEF Inv, TypeOK, States
<1>8. KindsInv'
  <2> SUFFICES ASSUME NEW i \in DOMAIN control' PROVE KindInv(i)'
    BY DEF KindsInv
  <2>1. CASE i < n
    <3>1. state' # state => state = "BREAK"
      BY <1>2
    <3>. QED BY <1>1, <1>2, <1>5, <1>6, <2>1, <3>1 DEF Inv, KindsInv, KindInv, n
  <2>2. CASE i = n
    BY <1>1, <1>2, <1>3, <1>5, <2>2 DEF Inv, KindsInv, KindInv
  <2>. QED BY <1>1, <1>5, <2>1, <2>2
<1>9. PlacesInv'
  <2> SUFFICES ASSUME NEW i \in DOMAIN control' PROVE PlaceInv(i)'
    BY DEF PlacesInv
  <2>1. CASE i < n
    BY <1>1, <1>5, <2>1 DEF Inv, PlacesInv, PlaceInv, KindsInv, KindInv
  <2>2. CASE i = n
    BY <1>1, <1>2, <1>3, <1>5, <2>2 DEF Inv, PlacesInv, PlaceInv, KindsInv, KindInv
  <2>. QED BY <1>1, <1>5, <2>1, <2>2
<1>10. OrderInv'
  BY <1>1, <1>2, <1>5, <1>6 DEF Inv, OrderInv
<1>11. CurrentInv'
  <2>1. ASSUME NEW i \in DOMAIN control', control'[i].kind \in Codes, i < Len(control'),
               control'[i + 1].kind = "function"
        PROVE  control'[i].frame = control'[i + 1].frame - 1
    <3>1. i \in DOMAIN control /\ i + 1 \in DOMAIN control /\ i < Len(control)
      BY <1>1, <1>5, <2>1 DEF n
    <3>2. control[i + 1].kind \in Codes /\ control[i].kind \in Codes /\ control[i + 1].kind = "function"
      BY <1>6, <2>1, <3>1 DEF Codes
    <3>. QED BY <1>6, <3>1, <3>2 DEF Inv, CurrentInv, AtTop
  <2>2. ASSUME NEW i \in DOMAIN control', i < Len(control'),
               control'[i].kind = "destructor", ~Broken(control'[i].state, control'[i].thrown)
        PROVE  control'[i - 1].frame = control'[i + 1].frame - 1
    <3>1. i < n /\ control'[i] = control[i] /\ i \in DOMAIN control /\ i + 1 \in DOMAIN control
      BY <1>1, <1>5, <2>2
    <3>2. i > 1 /\ i - 1 \in DOMAIN control /\ control[i - 1].kind \in Codes /\ control[i + 1].kind \in Codes
      BY <1>1, <2>2, <3>1 DEF Inv, KindsInv, KindInv, Codes, n
    <3>. QED BY <1>6, <2>2, <3>1, <3>2 DEF Inv, CurrentInv, AtTop, n
  <2>3. Top' = new /\ new.kind # "destructor" /\ new.frame = Top.frame
    BY <1>2, <1>3, <1>5 DEF Top, Last
  <2>4. ~Broken(state', thrown') => Top.frame = Len(frames)
    BY <1>2 DEF Inv, CurrentInv, AtTop, Broken
  <2>. QED BY <1>2, <2>1, <2>2, <2>3, <2>4 DEF CurrentInv, AtTop, Broken
<1>12. VariablesInv'
  <2> SUFFICES ASSUME NEW i \in DOMAIN control' PROVE RoomInv(i)'
    BY DEF VariablesInv
  <2>1. CASE i < n
    BY <1>1, <1>2, <1>5, <1>6, <2>1 DEF Inv, VariablesInv, RoomInv, Whole, Partly, Size, Variables, n
  <2>2. CASE i = n
    <3>1. Whole(Top)
      BY <1>1, <1>2 DEF Inv, VariablesInv, RoomInv, n
    <3>2. Partly(Top)
      BY <1>1, <1>2, <3>1, WholeIsPart DEF Inv
    <3>3. Partly(new)
      BY <1>3, <3>2 DEF Partly
    <3>4. Partly(control[i])'
      BY <1>2, <1>5, <2>2, <3>3 DEF Partly, Size, Variables
    <3>. QED BY <1>1, <1>3, <1>5, <2>2, <3>4 DEF RoomInv
  <2>. QED BY <1>1, <1>5, <2>1, <2>2
<1>13. JumpsInv'
  <2>1. Destructors' = Destructors /\ \A i \in Destructors: i < n /\ control'[i] = control[i]
    BY <1>1, <1>2, <1>5, <1>6 DEF Destructors
  <2>2. ASSUME NEW s, NEW i \in 1 .. n, Obeys(s, i) PROVE Obeys(s, i)'
    <3>1. TypeOK /\ n - 1 \in Nat /\ n - 1 <= Len(control) /\ n - 1 <= Len(control') /\ i \in 1 .. (n - 1) + 1
      BY <1>1, <1>5 DEF Inv, n
    <3>. QED BY <1>5, <1>7, <2>2, <3>1, LoopsStay
  <2>3. \A i \in Destructors: Obeys(control[i].state, i)'
    <3> TAKE i \in Destructors
    <3>1. PICK s: s = control[i].state
      OBVIOUS
    <3>2. Obeys(s, i) /\ i \in 1 .. n
      BY <1>1, <2>1, <3>1 DEF Inv, JumpsInv, Destructors
    <3>3. Obeys(s, i)'
      BY <2>2, <3>2
    <3>. QED BY <2>1, <3>1, <3>3 DEF Obeys
  <2>4. PICK m \in Nat: m = n + 1
    BY <1>1
  <2>5. ASSUME NEW kinds \in SUBSET {"loop", "switch"}, Top.kind \notin kinds, LoopUnder(m, kinds)
        PROVE  LoopUnder(m, kinds)'
    <3>1. PICK j \in DOMAIN control:
            /\ j < m /\ control[j].kind \in kinds /\ ~control[j].leaves
            /\ \A k \in DOMAIN control: j <= k /\ k < m => control[k].kind \notin {"function", "destructor"}
      BY <2>5 DEF LoopUnder
    <3>2. j # n /\ control'[j] = control[j] /\ j \in DOMAIN control' /\ DOMAIN control' = DOMAIN control
      BY <1>1, <1>5, <2>5, <3>1
    <3>3. \A k \in DOMAIN control': j <= k /\ k < m => control'[k].kind \notin {"function", "destructor"}
      BY <1>6, <3>1, <3>2
    <3>. QED BY <3>1, <3>2, <3>3 DEF LoopUnder
  <2>6. Obeys(state, m)'
    <3>1. Obeys(state, m)
      BY <2>4 DEF Inv, JumpsInv, n
    <3>2. CASE state' = "BREAK"
      <4>1. LoopUnder(m, {"loop", "switch"}) /\ Top.kind \notin {"loop", "switch"}
        BY <1>2, <3>1, <3>2 DEF Obeys
      <4>2. LoopUnder(m, {"loop", "switch"})'
        BY <2>5, <4>1
      <4>. QED BY <3>2, <4>2 DEF Obeys
    <3>3. CASE state' = "CONTINUE"
      <4>1. LoopUnder(m, {"loop"}) /\ Top.kind \notin {"loop"}
        BY <1>2, <3>1, <3>3 DEF Obeys
      <4>2. LoopUnder(m, {"loop"})'
        BY <2>5, <4>1
      <4>. QED BY <3>3, <4>2 DEF Obeys
    <3>. QED BY <3>2, <3>3 DEF Obeys
  <2>7. Obeys(state, Len(control) + 1)'
    BY <1>5, <2>4, <2>6 DEF Obeys, LoopUnder
  <2>. QED BY <1>1, <1>2, <1>5, <2>1, <2>3, <2>7 DEF Inv, JumpsInv
<1>14. ExceptionsInv'
  BY <1>1, <1>2, <1>5, <1>6 DEF Inv, ExceptionsInv, Doomed, Upset, Destructors
<1>15. CallsInv'
  BY <1>1, <1>2, <1>5, <1>6 DEF Inv, CallsInv, Failed, Functions, Destructors, Codes
<1>16. ExitInv'
  BY <1>1, <1>2, <1>5, <1>6 DEF Inv, ExitInv, Destructors
<1>17. Final
  BY <1>1, <1>2, <1>5, <1>6 DEF Final, Failed, Exiting, Destructors
<1>. QED BY <1>7, <1>8, <1>9, <1>10, <1>11, <1>12, <1>13, <1>14, <1>15, <1>16, <1>17 DEF Inv

LEMMA JumpsStay ==
  ASSUME Inv, TypeOK', NEW m \in Nat, m <= Len(control), m <= Len(control'),
         \A i \in 1 .. m: control'[i] = control[i]
  PROVE  \A i \in Destructors': i <= m =>
           /\ Obeys(control[i].state, i)'
           /\ control'[i].thrown => control'[i].state \in {"NORMAL", "RUNTIME_EXCEPTION"}
<1> SUFFICES ASSUME NEW i \in Destructors', i <= m
             PROVE  /\ Obeys(control[i].state, i)'
                    /\ control'[i].thrown => control'[i].state \in {"NORMAL", "RUNTIME_EXCEPTION"}
  OBVIOUS
<1>1. PICK s: s = control[i].state
  OBVIOUS
<1>2. i \in 1 .. m /\ i \in Destructors /\ control'[i] = control[i]
  BY DEF Destructors, TypeOK, Inv
<1>3. Obeys(s, i) /\ i \in 1 .. m + 1 /\ TypeOK
  BY <1>1, <1>2 DEF Inv, JumpsInv
<1>4. Obeys(s, i)'
  BY <1>3, LoopsStay
<1>. QED BY <1>1, <1>2, <1>4 DEF Inv, JumpsInv, Obeys

LEMMA DeclareKeeps == ASSUME Legal, Inv, NEW chain \in Chains, Declare(chain) PROVE Inv' /\ Final
<1> DEFINE n == Len(control)
           new == [Top EXCEPT !.declared = @ + 1]
<1>1. /\ control # <<>> /\ Top.kind = "scope" /\ Going
      /\ Top.kind \in VirtualScopes /\ Top.kind \in Codes /\ Top.kind \in Statements
      /\ Top.kind # "function" /\ Top.kind # "destructor" /\ Top.kind # "try"
      /\ state = "NORMAL" /\ ~thrown /\ ~Top.leaves
      /\ state' = state /\ result' = result /\ thrown' = thrown /\ raised' = raised
  BY DEF Declare, Executes, Going, Goes, In, Codes, Statements, VirtualScopes
<1>2. /\ n \in Nat \ {0} /\ DOMAIN control = 1 .. n
      /\ Top = control[n] /\ Top \in Levels /\ Top.frame = Len(frames)
      /\ Len(frames) \in DOMAIN frames /\ Len(frames) \in Nat /\ Top.base \in Nat /\ Top.declared \in Nat
      /\ Size(Len(frames)) = Top.base + Top.declared
  BY <1>1, GoingFacts
<1>3. /\ new \in Levels /\ new.kind = Top.kind /\ new.frame = Top.frame /\ new.base = Top.base
      /\ new.declared = Top.declared + 1 /\ new.leaves = Top.leaves
  <2>1. PICK d \in Nat: d = Top.declared + 1
    BY <1>2
  <2>2. new = [Top EXCEPT !.declared = d]
    BY <2>1
  <2>. QED BY <1>1, <1>2, <2>1, <2>2, Declared
<1>4. control' = [control EXCEPT ![n] = new]
  BY <1>2 DEF Declare
<1>5. /\ control' \in Seq(Levels) /\ Len(control') = n /\ DOMAIN control' = 1 .. n
      /\ \A i \in 1 .. n - 1: control'[i] = control[i]
      /\ control'[n] = new
  BY <1>1, <1>3, <1>4, Replaced DEF Inv, TypeOK
<1>6. /\ \A i \in DOMAIN control: control'[i].kind = control[i].kind
      /\ \A i \in DOMAIN control: control[i].kind \in Codes =>
           control'[i].frame = control[i].frame /\ control'[i].leaves = control[i].leaves
  <2>1. \A i \in DOMAIN control: i # n => control'[i] = control[i]
    BY <1>2, <1>5
  <2>. QED BY <1>2, <1>3, <1>5, <2>1
<1>7. PICK v \in Seq(Chains \cup {0}): v = Append(Variables(Top.frame), chain) /\ Len(v) = Size(Top.frame) + 1
  <2>1. Variables(Top.frame) \in Seq(Chains \cup {0})
    BY <1>2, TopFacts DEF Inv
  <2>2. chain \in Chains \cup {0}
    OBVIOUS
  <2>3. Append(Variables(Top.frame), chain) \in Seq(Chains \cup {0})
        /\ Len(Append(Variables(Top.frame), chain)) = Len(Variables(Top.frame)) + 1
    BY <2>1, <2>2, Grown
  <2>. QED BY <2>3 DEF Size
<1>8. frames' = [frames EXCEPT ![Top.frame].variables = v]
  BY <1>7 DEF Declare, Variables
<1>9. /\ frames' \in Seq(Frames) /\ Len(frames') = Len(frames) /\ DOMAIN frames' = DOMAIN frames
      /\ Len(frames'[Top.frame].variables) = Size(Top.frame) + 1
      /\ \A f \in DOMAIN frames: f # Top.frame => frames'[f] = frames[f]
  <2>1. frames \in Seq(Frames)
    BY DEF Inv, TypeOK
  <2>3. PICK g \in DOMAIN frames: g = Top.frame
    BY <1>2
  <2>4. frames' = [frames EXCEPT ![g].variables = v]
    BY <1>8, <2>3
  <2>5. PICK d: d = [frames[g] EXCEPT !.variables = v]
    OBVIOUS
  <2>6. d \in Frames /\ d.variables = v
    <3>1. frames[g] \in Frames
      BY <2>1, <2>3
    <3>2. v \in Seq(Chains \cup {0})
      BY <1>7
    <3>. QED BY ONLY <2>5, <3>1, <3>2, Varied
  <2>7. frames' = [frames EXCEPT ![g] = d]
    BY <2>4, <2>5
  <2>2. /\ frames' \in Seq(Frames) /\ Len(frames') = Len(frames) /\ DOMAIN frames' = DOMAIN frames
        /\ frames'[g] = d
        /\ \A f \in DOMAIN frames: f # g => frames'[f] = frames[f]
    BY <2>1, <2>3, <2>6, <2>7, Changed
  <2>. QED BY <1>7, <2>2, <2>3, <2>6
<1>. HIDE DEF n, new
<1>10. TypeOK'
  BY <1>1, <1>5, <1>9 DEF Inv, TypeOK
<1>11. KindsInv'
  <2> SUFFICES ASSUME NEW i \in DOMAIN control' PROVE KindInv(i)'
    BY DEF KindsInv
  <2>1. CASE i < n
    BY <1>1, <1>2, <1>5, <1>6, <2>1 DEF Inv, KindsInv, KindInv, n
  <2>2. CASE i = n
    BY SMTT(40), <1>1, <1>2, <1>3, <1>5, <2>2 DEF Inv, KindsInv, KindInv
  <2>. QED BY <1>2, <1>5, <2>1, <2>2
<1>12. PlacesInv'
  <2> SUFFICES ASSUME NEW i \in DOMAIN control' PROVE PlaceInv(i)'
    BY DEF PlacesInv
  <2>1. CASE i < n
    BY <1>2, <1>5, <2>1 DEF Inv, PlacesInv, PlaceInv, KindsInv, KindInv
  <2>2. CASE i = n
    <3>1. i > 1 /\ control'[i - 1] = control[i - 1] /\ i \in DOMAIN control
      BY <1>1, <1>2, <1>5, <2>2 DEF Inv, KindsInv, KindInv
    <3>2. Top.frame = control[i - 1].frame /\ Top.base = control[i - 1].base + control[i - 1].declared
      BY <1>1, <1>2, <2>2, <3>1 DEF Inv, PlacesInv, PlaceInv
    <3>. QED BY <1>1, <1>3, <1>5, <2>2, <3>1, <3>2 DEF PlaceInv
  <2>. QED BY <1>2, <1>5, <2>1, <2>2
<1>13. OrderInv'
  BY ZenonT(60), <1>2, <1>5, <1>6, <1>9 DEF Inv, OrderInv
<1>14. CurrentInv'
  <2>1. ASSUME NEW i \in DOMAIN control', control'[i].kind \in Codes, i < Len(control'),
               control'[i + 1].kind = "function"
        PROVE  control'[i].frame = control'[i + 1].frame - 1
    <3>1. i \in DOMAIN control /\ i + 1 \in DOMAIN control /\ i < Len(control)
      BY <1>2, <1>5, <2>1 DEF n
    <3>2. control[i + 1].kind \in Codes /\ control[i].kind \in Codes /\ control[i + 1].kind = "function"
      BY <1>6, <2>1, <3>1 DEF Codes
    <3>. QED BY <1>6, <3>1, <3>2 DEF Inv, CurrentInv, AtTop
  <2>2. ASSUME NEW i \in DOMAIN control', i < Len(control'),
               control'[i].kind = "destructor", ~Broken(control'[i].state, control'[i].thrown)
        PROVE  control'[i - 1].frame = control'[i + 1].frame - 1
    <3>1. i < n /\ control'[i] = control[i] /\ i \in DOMAIN control /\ i + 1 \in DOMAIN control
      BY <1>2, <1>5, <2>2
    <3>2. i > 1 /\ i - 1 \in DOMAIN control /\ control[i - 1].kind \in Codes /\ control[i + 1].kind \in Codes
      BY <1>2, <2>2, <3>1 DEF Inv, KindsInv, KindInv, Codes, n
    <3>. QED BY <1>6, <2>2, <3>1, <3>2 DEF Inv, CurrentInv, AtTop, n
  <2>3. Top' = new /\ new.kind # "destructor" /\ new.frame = Len(frames')
    BY <1>1, <1>2, <1>3, <1>5, <1>9 DEF Top, Last
  <2>. QED BY <2>1, <2>2, <2>3 DEF CurrentInv, AtTop
<1>15. VariablesInv'
  <2> SUFFICES ASSUME NEW i \in DOMAIN control', control'[i].kind \in Statements PROVE RoomInv(i)'
    BY DEF VariablesInv, RoomInv
  <2>1. CASE i < n /\ control[i + 1].kind \in {"function", "destructor"}
    <3>1. i \in DOMAIN control /\ control'[i] = control[i] /\ control[i].kind \in Codes /\ i < Len(control)
      BY <1>2, <1>5, <2>1 DEF Statements, Codes, n
    <3>2. control[i].frame < Top.frame /\ control[i].frame \in DOMAIN frames
      BY <1>1, <2>1, <3>1, FramesApart DEF Inv, OrderInv
    <3>3. frames'[control'[i].frame] = frames[control[i].frame]
      BY <1>2, <1>9, <3>1, <3>2
    <3>4. i + 1 # n /\ control'[i + 1] = control[i + 1]
      <4>1. Top.kind \notin {"function", "destructor"}
        BY <1>1
      <4>2. CASE i + 1 = n /\ control[i + 1].kind = "function"
        BY <1>2, <4>1, <4>2
      <4>3. CASE i + 1 = n /\ control[i + 1].kind = "destructor"
        BY <1>2, <4>1, <4>3
      <4>. QED BY <1>2, <1>5, <2>1, <4>2, <4>3
    <3>. QED BY <1>2, <1>5, <2>1, <3>1, <3>3, <3>4 DEF Inv, VariablesInv, RoomInv, Whole, Partly, Size, Variables, n
  <2>2. CASE i < n /\ control[i + 1].kind \notin {"function", "destructor"}
    <3>1. control'[i + 1].kind \notin {"function", "destructor"} /\ i # Len(control')
      BY <1>2, <1>5, <1>6, <2>2
    <3>. QED BY <3>1 DEF RoomInv
  <2>3. CASE i = n
    <3>1. Whole(control[i])'
      <4>1. Len(frames'[new.frame].variables) = new.base + new.declared
        <5>1. Size(Top.frame) = Top.base + Top.declared
          BY <1>2
        <5>. QED BY <1>2, <1>3, <1>9, <5>1
      <4>. QED BY <1>5, <2>3, <4>1 DEF Whole, Size, Variables
    <3>2. ~control'[i].leaves /\ i = Len(control')
      BY <1>1, <1>3, <1>5, <2>3
    <3>. QED BY <1>1, <3>1, <3>2 DEF RoomInv
  <2>. QED BY <1>2, <1>5, <2>1, <2>2, <2>3
<1>16. JumpsInv'
  <2>1. \A i \in Destructors': i <= n - 1
    BY <1>1, <1>2, <1>3, <1>5 DEF Destructors
  <2>2. n - 1 \in Nat /\ n - 1 <= Len(control) /\ n - 1 <= Len(control')
    BY <1>2, <1>5 DEF n
  <2>3. \A i \in Destructors':
           /\ Obeys(control[i].state, i)'
           /\ control'[i].thrown => control'[i].state \in {"NORMAL", "RUNTIME_EXCEPTION"}
    BY <1>5, <1>10, <2>1, <2>2, JumpsStay
  <2>. QED BY <1>1, <2>3 DEF JumpsInv, Obeys
<1>20. /\ DOMAIN control' = DOMAIN control
       /\ Destructors' = Destructors /\ Functions' = Functions
       /\ \A i \in Destructors: control'[i] = control[i]
       /\ \A i \in Functions: control'[i] = control[i]
  BY SMTT(40), <1>1, <1>2, <1>3, <1>5 DEF Destructors, Functions
<1>17. ExceptionsInv'
  BY <1>1, <1>6, <1>20 DEF Inv, ExceptionsInv, Doomed, Upset
<1>18. CallsInv'
  BY <1>1, <1>9, <1>20 DEF Inv, CallsInv, Failed
<1>19. ExitInv'
  BY <1>1, <1>20 DEF Inv, ExitInv
<1>21. Final
  BY <1>1, <1>20 DEF Final, Failed, Exiting
<1>. QED BY <1>10, <1>11, <1>12, <1>13, <1>14, <1>15, <1>16, <1>17, <1>18, <1>19, <1>21 DEF Inv

LEMMA CatchKeeps == ASSUME Legal, Inv, Catch PROVE Inv' /\ Final
<1> DEFINE n == Len(control)
           left == [Top EXCEPT !.leaves = TRUE]
           base == Len(Variables(Top.frame))
           first == [Scope("catch", Top.frame, base) EXCEPT !.declared = 1]
           second == Scope("scope", Top.frame, base + 1)
<1>1. /\ control # <<>> /\ Top.kind = "try"
      /\ Top.kind \in VirtualScopes /\ Top.kind \in Codes /\ Top.kind \in Statements
      /\ Top.kind # "function" /\ Top.kind # "destructor" /\ Top.kind # "throw"
      /\ state = "EXCEPTION" /\ ~thrown /\ ~Top.leaves
      /\ state' = "NORMAL" /\ result' = "none" /\ raised' = "none" /\ thrown' = thrown
      /\ "none" \in Results
      /\ "catch" \in VirtualScopes /\ "scope" \in VirtualScopes
      /\ "catch" \in Statements /\ "scope" \in Statements /\ "catch" \in Codes /\ "scope" \in Codes
      /\ "function" \notin Statements /\ "destructor" \notin Codes
  BY DEF Catch, In, Codes, Statements, VirtualScopes, Results
<1>2. /\ n \in Nat \ {0} /\ DOMAIN control = 1 .. n /\ Top = control[n] /\ Top \in Levels
  BY <1>1, TopFacts DEF Inv
<1>3. Top.frame = Len(frames) /\ Len(frames) \in DOMAIN frames
  <2>1. Top.frame = Len(frames)
    BY <1>1 DEF Inv, CurrentInv, AtTop, Broken
  <2>. QED BY <1>1, <1>2, <2>1 DEF Inv, OrderInv
<1>4. /\ Len(frames) \in Nat /\ Top.frame \in Nat /\ base \in Nat /\ base = Top.base
      /\ Top.declared = 0 /\ Top.base \in Nat
  <2>1. Whole(Top) /\ Top.declared = 0
    BY <1>1, <1>2 DEF Inv, VariablesInv, RoomInv, PlacesInv, PlaceInv
  <2>2. base \in Nat /\ Len(frames) \in Nat /\ Top.frame \in Nat
    BY <1>3, TopFacts DEF Inv
  <2>3. base = Top.base + 0 /\ Top.base \in Nat
    BY <1>1, <1>2, <2>1, LevelTypes DEF Whole, Size
  <2>. QED BY <2>1, <2>2, <2>3
<1>5. /\ left \in Levels /\ left.kind = Top.kind /\ left.frame = Top.frame /\ left.base = Top.base
      /\ left.declared = Top.declared /\ left.leaves
  BY <1>1, <1>2, Left
<1>6. /\ first \in Levels /\ first.kind = "catch" /\ first.frame = Top.frame /\ first.base = base
      /\ first.declared = 1 /\ ~first.leaves
  <2>1. PICK f \in Nat, b \in Nat: f = Top.frame /\ b = base
    BY <1>4
  <2>2. PICK c: c = Scope("catch", f, b)
    OBVIOUS
  <2>3. /\ c \in Levels /\ c.kind = "catch" /\ c.frame = f /\ c.base = b /\ c.declared = 0 /\ ~c.leaves
    BY <1>1, <2>1, <2>2, ScopeTypes
  <2>4. first = [c EXCEPT !.declared = 1]
    BY <2>1, <2>2
  <2>5. c.kind \in Codes /\ 1 \in Nat
    BY <1>1, <2>3
  <2>6. PICK d: d = [c EXCEPT !.declared = 1]
    OBVIOUS
  <2>7. /\ d \in Levels
        /\ d.kind = c.kind /\ d.frame = c.frame /\ d.base = c.base /\ d.declared = 1
        /\ d.leaves = c.leaves
    BY <2>3, <2>5, <2>6, Declared
  <2>. QED BY <2>1, <2>3, <2>4, <2>6, <2>7
<1>7. /\ second \in Levels /\ second.kind = "scope" /\ second.frame = Top.frame
      /\ second.base = base + 1 /\ second.declared = 0 /\ ~second.leaves
  <2>1. PICK f \in Nat, b \in Nat: f = Top.frame /\ b = base + 1
    BY <1>4
  <2>2. PICK c: c = Scope("scope", f, b)
    OBVIOUS
  <2>3. /\ c \in Levels /\ c.kind = "scope" /\ c.frame = f /\ c.base = b /\ c.declared = 0 /\ ~c.leaves
    BY <1>1, <2>1, <2>2, ScopeTypes
  <2>. QED BY <2>1, <2>2, <2>3
<1>21. control' = [control EXCEPT ![n] = left] \o <<first, second>>
  BY <1>2 DEF Catch
<1>. HIDE DEF left, first, second
<1>8. /\ control' \in Seq(Levels)
      /\ Len(control') = n + 2 /\ DOMAIN control' = 1 .. n + 2
      /\ \A i \in 1 .. n - 1: control'[i] = control[i]
      /\ control'[n] = left /\ control'[n + 1] = first /\ control'[n + 2] = second
      /\ \A i \in DOMAIN control': i < n \/ i = n \/ i = n + 1 \/ i = n + 2
  <2>1. PICK q: q = [control EXCEPT ![n] = left]
    OBVIOUS
  <2>2. /\ q \in Seq(Levels) /\ Len(q) = n /\ q[n] = left
        /\ \A i \in 1 .. n - 1: q[i] = control[i]
    BY <1>1, <1>5, <2>1, Replaced DEF Inv, TypeOK
  <2>3. control' = q \o <<first, second>>
    BY <1>21, <2>1
  <2>4. /\ control' \in Seq(Levels)
        /\ Len(control') = Len(q) + 2 /\ DOMAIN control' = 1 .. Len(q) + 2
        /\ \A i \in 1 .. Len(q): control'[i] = q[i]
        /\ control'[Len(q) + 1] = first
        /\ control'[Len(q) + 2] = second
    <3>1. first \in Levels /\ second \in Levels
      BY <1>6, <1>7
    <3>. QED BY <2>2, <2>3, <3>1, GrownTwice
  <2>5. \A i \in DOMAIN control': i < n \/ i = n \/ i = n + 1 \/ i = n + 2
    BY <1>2, <2>2, <2>4
  <2>. QED BY <1>2, <2>2, <2>4, <2>5
<1>9. /\ frames' \in Seq(Frames) /\ Len(frames') = Len(frames) /\ DOMAIN frames' = DOMAIN frames
      /\ Len(frames'[Top.frame].variables) = base + 1
      /\ \A f \in DOMAIN frames: f # Top.frame => frames'[f] = frames[f]
  <2>1. PICK g \in DOMAIN frames: g = Top.frame
    BY <1>3
  <2>2. frames \in Seq(Frames) /\ frames[g] \in Frames /\ Variables(g) \in Seq(Chains \cup {0})
    BY <2>1, TopFacts DEF Inv, TypeOK
  <2>3. PICK v: v = Append(Variables(g), 0)
    OBVIOUS
  <2>4. v \in Seq(Chains \cup {0}) /\ Len(v) = base + 1
    <3>1. 0 \in Chains \cup {0}
      OBVIOUS
    <3>. QED BY <2>1, <2>2, <2>3, <3>1, Grown
  <2>5. PICK d: d = [frames[g] EXCEPT !.variables = v]
    OBVIOUS
  <2>6. d \in Frames /\ d.variables = v
    BY <2>2, <2>4, <2>5, Varied
  <2>7. frames' = [frames EXCEPT ![g].variables = Append(@, 0)]
    BY <2>1 DEF Catch
  <2>8. frames' = [frames EXCEPT ![g] = d]
    BY <2>3, <2>5, <2>7 DEF Variables
  <2>9. /\ frames' \in Seq(Frames) /\ Len(frames') = Len(frames) /\ DOMAIN frames' = DOMAIN frames
        /\ frames'[g] = d
        /\ \A f \in DOMAIN frames: f # g => frames'[f] = frames[f]
    BY <2>1, <2>2, <2>6, <2>8, Changed
  <2>. QED BY <2>1, <2>4, <2>6, <2>9
<1>. HIDE DEF n, base
<1>10. TypeOK'
  BY <1>1, <1>8, <1>9 DEF Inv, TypeOK, States
<1>11. /\ \A i \in DOMAIN control: i \in DOMAIN control' /\ control'[i].kind = control[i].kind
       /\ \A i \in DOMAIN control: control[i].kind \in Codes => control'[i].frame = control[i].frame
       /\ Destructors' = Destructors /\ Functions' = Functions
       /\ \A i \in Destructors: control'[i] = control[i]
       /\ \A i \in Functions: control'[i] = control[i]
  <2>1. \A i \in DOMAIN control: i # n => i \in DOMAIN control' /\ control'[i] = control[i]
    BY <1>2, <1>8
  <2>2. n \in DOMAIN control'
    BY <1>2, <1>8
  <2>3. \A i \in DOMAIN control': i \in DOMAIN control \/ i = n + 1 \/ i = n + 2
    BY <1>2, <1>8
  <2>. QED BY <1>1, <1>2, <1>5, <1>6, <1>7, <1>8, <2>1, <2>2, <2>3 DEF Destructors, Functions
<1>12. KindsInv'
  <2> SUFFICES ASSUME NEW i \in DOMAIN control' PROVE KindInv(i)'
    BY DEF KindsInv
  <2>1. CASE i < n
    BY <1>1, <1>2, <1>8, <1>11, <2>1 DEF Inv, KindsInv, KindInv, n
  <2>2. CASE i = n
    BY <1>1, <1>2, <1>5, <1>6, <1>8, <2>2 DEF Inv, KindsInv, KindInv
  <2>3. CASE i = n + 1
    BY <1>1, <1>2, <1>5, <1>6, <1>8, <2>3 DEF KindInv
  <2>4. CASE i = n + 2
    BY <1>1, <1>2, <1>6, <1>7, <1>8, <2>4 DEF KindInv
  <2>. QED BY <1>8, <2>1, <2>2, <2>3, <2>4
<1>13. PlacesInv'
  <2> SUFFICES ASSUME NEW i \in DOMAIN control' PROVE PlaceInv(i)'
    BY DEF PlacesInv
  <2>1. CASE i < n
    BY <1>2, <1>8, <2>1 DEF Inv, PlacesInv, PlaceInv, KindsInv, KindInv
  <2>2. CASE i = n
    <3>1. i > 1 /\ control'[i - 1] = control[i - 1] /\ i \in DOMAIN control
      BY <1>1, <1>2, <1>8, <2>2 DEF Inv, KindsInv, KindInv
    <3>2. Top.frame = control[i - 1].frame /\ Top.base = control[i - 1].base + control[i - 1].declared
      BY <1>1, <1>2, <2>2, <3>1 DEF Inv, PlacesInv, PlaceInv
    <3>. QED BY <1>1, <1>4, <1>5, <1>8, <2>2, <3>1, <3>2 DEF PlaceInv
  <2>3. CASE i = n + 1
    <3>1. control'[i - 1] = left /\ control'[i] = first
      BY <1>2, <1>8, <2>3
    <3>. QED BY <1>1, <1>4, <1>5, <1>6, <3>1 DEF PlaceInv
  <2>4. CASE i = n + 2
    <3>1. control'[i - 1] = first /\ control'[i] = second
      BY <1>2, <1>8, <2>4
    <3>. QED BY <1>1, <1>6, <1>7, <3>1 DEF PlaceInv
  <2>. QED BY <1>8, <2>1, <2>2, <2>3, <2>4
<1>14. OrderInv'
  <2>1. \A i \in DOMAIN control': control'[i].kind \in Codes => control'[i].frame \in DOMAIN frames'
    BY <1>1, <1>2, <1>3, <1>5, <1>6, <1>7, <1>8, <1>9 DEF Inv, OrderInv
  <2>2. ASSUME NEW i \in DOMAIN control', NEW j \in DOMAIN control', NEW k \in DOMAIN control',
               i < j, j <= k, control'[j].kind = "function",
               control'[i].kind \in Codes, control'[k].kind \in Codes
        PROVE  control'[i].frame < control'[k].frame
    <3>1. j < n
      BY <1>1, <1>5, <1>6, <1>7, <1>8, <2>2
    <3>2. i \in DOMAIN control /\ j \in DOMAIN control /\ n \in DOMAIN control
      BY <1>2, <1>8, <2>2, <3>1
    <3>3. control[j].kind = "function" /\ control[i].kind \in Codes /\ control'[i].frame = control[i].frame
      BY <1>11, <2>2, <3>2
    <3>4. CASE k <= n
      <4>1. k \in DOMAIN control /\ control[k].kind \in Codes /\ control'[k].frame = control[k].frame
        BY <1>2, <1>8, <1>11, <2>2, <3>4
      <4>. QED BY <2>2, <3>2, <3>3, <4>1 DEF Inv, OrderInv
    <3>5. CASE k > n
      <4>1. control[i].frame < control[n].frame
        BY <1>1, <1>2, <2>2, <3>1, <3>2, <3>3 DEF Inv, OrderInv
      <4>2. control'[k].frame = Top.frame
        BY <1>2, <1>6, <1>7, <1>8, <3>5
      <4>. QED BY <1>2, <3>3, <4>1, <4>2
    <3>. QED BY <1>2, <1>8, <3>4, <3>5
  <2>. QED BY <2>1, <2>2 DEF OrderInv
<1>15. CurrentInv'
  <2>1. ASSUME NEW i \in DOMAIN control', control'[i].kind \in Codes, i < Len(control'),
               control'[i + 1].kind = "function"
        PROVE  control'[i].frame = control'[i + 1].frame - 1
    <3>1. i + 1 \in DOMAIN control'
      BY <1>2, <1>8, <2>1
    <3>2. i + 1 < n
      BY <1>1, <1>5, <1>6, <1>7, <1>8, <2>1, <3>1
    <3>3. control'[i] = control[i] /\ control'[i + 1] = control[i + 1] /\ i < n /\ i \in DOMAIN control
      BY <1>2, <1>8, <3>2
    <3>. QED BY <2>1, <3>3 DEF Inv, CurrentInv, AtTop, n
  <2>2. ASSUME NEW i \in DOMAIN control', i < Len(control'),
               control'[i].kind = "destructor", ~Broken(control'[i].state, control'[i].thrown)
        PROVE  control'[i - 1].frame = control'[i + 1].frame - 1
    <3>1. i < n /\ control'[i] = control[i] /\ i \in DOMAIN control /\ i + 1 \in DOMAIN control
      <4>1. i < n
        BY <1>1, <1>5, <1>6, <1>7, <1>8, <2>2
      <4>. QED BY <1>2, <1>8, <4>1
    <3>2. i > 1 /\ i - 1 \in DOMAIN control /\ control[i - 1].kind \in Codes /\ control[i + 1].kind \in Codes
      BY <1>2, <2>2, <3>1 DEF Inv, KindsInv, KindInv, Codes, n
    <3>. QED BY <1>11, <2>2, <3>1, <3>2 DEF Inv, CurrentInv, AtTop, n
  <2>3. Top' = second /\ second.kind # "destructor" /\ second.frame = Len(frames')
    BY <1>2, <1>3, <1>7, <1>8, <1>9 DEF Top, Last
  <2>. QED BY <2>1, <2>2, <2>3 DEF CurrentInv, AtTop
<1>16. VariablesInv'
  <2> SUFFICES ASSUME NEW i \in DOMAIN control', control'[i].kind \in Statements PROVE RoomInv(i)'
    BY DEF VariablesInv, RoomInv
  <2>1. CASE i < n /\ control[i + 1].kind \in {"function", "destructor"}
    <3>1. i \in DOMAIN control /\ control'[i] = control[i] /\ control[i].kind \in Codes /\ i < Len(control)
      BY <1>2, <1>8, <2>1 DEF Statements, Codes, n
    <3>2. control[i].frame < Top.frame /\ control[i].frame \in DOMAIN frames
      BY <1>1, <2>1, <3>1, FramesApart DEF Inv, OrderInv
    <3>3. frames'[control'[i].frame] = frames[control[i].frame]
      BY <1>4, <1>9, <3>1, <3>2
    <3>4. i + 1 # n /\ control'[i + 1] = control[i + 1]
      <4>1. Top.kind \notin {"function", "destructor"}
        BY <1>1
      <4>2. CASE i + 1 = n /\ control[i + 1].kind = "function"
        BY <1>2, <4>1, <4>2
      <4>3. CASE i + 1 = n /\ control[i + 1].kind = "destructor"
        BY <1>2, <4>1, <4>3
      <4>. QED BY <1>2, <1>8, <2>1, <4>2, <4>3
    <3>. QED BY <1>2, <1>8, <2>1, <3>1, <3>3, <3>4 DEF Inv, VariablesInv, RoomInv, Whole, Partly, Size, Variables, n
  <2>2. CASE i < n /\ control[i + 1].kind \notin {"function", "destructor"}
    <3>1. i + 1 \in DOMAIN control
      BY <1>2, <1>8, <2>2
    <3>2. control'[i + 1].kind \notin {"function", "destructor"} /\ i # Len(control')
      BY <1>2, <1>8, <1>11, <2>2, <3>1
    <3>. QED BY <3>2 DEF RoomInv
  <2>3. CASE i = n \/ i = n + 1
    <3>1. control'[i + 1].kind \in {"catch", "scope"} /\ i # Len(control')
      BY <1>2, <1>6, <1>7, <1>8, <2>3
    <3>. QED BY <3>1 DEF RoomInv
  <2>4. CASE i = n + 2
    <3>1. Len(frames'[second.frame].variables) = second.base + second.declared
      BY <1>4, <1>7, <1>9
    <3>2. control'[i] = second /\ i = Len(control')
      BY <1>8, <2>4
    <3>3. Whole(control[i])' /\ ~control'[i].leaves
      BY <1>7, <3>1, <3>2 DEF Whole, Size, Variables
    <3>. QED BY <1>1, <3>2, <3>3 DEF RoomInv
  <2>. QED BY <1>8, <2>1, <2>2, <2>3, <2>4
<1>17. JumpsInv'
  <2>1. \A i \in Destructors': i <= n - 1
    BY <1>1, <1>2, <1>11 DEF Destructors
  <2>2. n - 1 \in Nat /\ n - 1 <= Len(control) /\ n - 1 <= Len(control')
    BY <1>2, <1>8 DEF n
  <2>3. \A i \in Destructors':
           /\ Obeys(control[i].state, i)'
           /\ control'[i].thrown => control'[i].state \in {"NORMAL", "RUNTIME_EXCEPTION"}
    BY <1>8, <1>10, <2>1, <2>2, JumpsStay
  <2>. QED BY <1>1, <2>3 DEF JumpsInv, Obeys
<1>18. ExceptionsInv'
  <2>1. \A i \in Destructors: control[i].state # "EXCEPTION"
    <3> SUFFICES ASSUME NEW i \in Destructors, control[i].state = "EXCEPTION" PROVE FALSE
      OBVIOUS
    <3>1. n < i /\ i \in DOMAIN control
      BY <1>1, <1>2 DEF Inv, ExceptionsInv, Destructors
    <3>. QED BY <1>2, <3>1
  <2>. QED BY <1>1, <1>11, <2>1 DEF ExceptionsInv
<1>19. CallsInv'
  BY <1>1, <1>9, <1>11 DEF Inv, CallsInv, Failed
<1>20. ExitInv'
  BY <1>1, <1>11 DEF Inv, ExitInv
<1>22. Final
  BY <1>1, <1>11 DEF Final, Failed, Exiting
<1>. QED BY <1>10, <1>12, <1>13, <1>14, <1>15, <1>16, <1>17, <1>18, <1>19, <1>20, <1>22 DEF Inv

LEMMA CallKeeps == ASSUME Legal, Inv, Call PROVE Inv' /\ Final
<1> DEFINE n == Len(control)
           first == Scope("function", Len(frames) + 1, 0)
           second == Scope("scope", Len(frames) + 1, 0)
<1>1. /\ Evaluates /\ Going /\ Top.kind \in VirtualScopes /\ Top.kind \in Codes /\ Top.kind \in Statements
      /\ Top.kind # "function" /\ Top.kind # "destructor" /\ Top.kind # "throw"
      /\ state = "NORMAL" /\ ~thrown /\ ~Top.leaves
      /\ state' = state /\ result' = result /\ raised' = raised
      /\ "scope" \in VirtualScopes /\ "scope" \in Statements /\ "scope" \in Codes
      /\ "function" \in Codes /\ "function" \notin Statements /\ "function" \notin VirtualScopes
      /\ "destructor" \notin Codes
  BY DEF Call, Evaluates, Going, Goes, In, Legal, Codes, Statements, VirtualScopes
<1>2. /\ n \in Nat \ {0} /\ DOMAIN control = 1 .. n
      /\ Top = control[n] /\ Top \in Levels /\ Top.frame = Len(frames)
      /\ Len(frames) \in DOMAIN frames /\ Len(frames) \in Nat /\ Top.base \in Nat /\ Top.declared \in Nat
      /\ Size(Len(frames)) = Top.base + Top.declared
  BY <1>1, GoingFacts
<1>3. CASE Len(frames) = MaxFrames
  <2>1. thrown' = TRUE /\ UNCHANGED <<frames, control, state, result, raised>>
    BY <1>3 DEF Call
  <2>. QED BY <1>1, <2>1, FailureKeeps
<1>4. CASE Len(frames) # MaxFrames
  <2>1. /\ first \in Levels /\ first.kind = "function" /\ first.frame = Len(frames) + 1
        /\ first.base = 0 /\ first.declared = 0 /\ ~first.leaves
        /\ second \in Levels /\ second.kind = "scope" /\ second.frame = Len(frames) + 1
        /\ second.base = 0 /\ second.declared = 0 /\ ~second.leaves
    <3>1. PICK f \in Nat: f = Len(frames) + 1
      BY <1>2
    <3>2. PICK c, d: c = Scope("function", f, 0) /\ d = Scope("scope", f, 0)
      OBVIOUS
    <3>3. /\ c \in Levels /\ c.kind = "function" /\ c.frame = f /\ c.base = 0 /\ c.declared = 0 /\ ~c.leaves
      BY <1>1, <3>1, <3>2, ScopeTypes
    <3>4. /\ d \in Levels /\ d.kind = "scope" /\ d.frame = f /\ d.base = 0 /\ d.declared = 0 /\ ~d.leaves
      BY <1>1, <3>1, <3>2, ScopeTypes
    <3>. QED BY <3>1, <3>2, <3>3, <3>4
  <2>2. control' = control \o <<first, second>> /\ frames' = Append(frames, NewFrame) /\ thrown' = thrown
    BY <1>4 DEF Call, Body
  <2>. HIDE DEF first, second
  <2>3. /\ control' \in Seq(Levels)
        /\ Len(control') = n + 2 /\ DOMAIN control' = 1 .. n + 2
        /\ \A i \in 1 .. n: control'[i] = control[i]
        /\ control'[n + 1] = first /\ control'[n + 2] = second
    BY <2>1, <2>2, GrownTwice DEF Inv, TypeOK
  <2>4. \A i \in DOMAIN control': i <= n \/ i = n + 1 \/ i = n + 2
    BY <1>2, <2>3
  <2>5. /\ frames' \in Seq(Frames) /\ Len(frames') = Len(frames) + 1
        /\ DOMAIN frames = 1 .. Len(frames) /\ DOMAIN frames' = 1 .. Len(frames) + 1
        /\ \A f \in DOMAIN frames: frames'[f] = frames[f]
        /\ Len(frames'[Len(frames) + 1].variables) = 0
    BY <2>2, NewFrameFacts, Grown DEF Inv, TypeOK
  <2>. HIDE DEF n
  <2>6. TypeOK'
    BY <1>1, <2>2, <2>3, <2>5 DEF Inv, TypeOK
  <2>7. /\ \A i \in DOMAIN control: i \in DOMAIN control' /\ control'[i] = control[i]
        /\ Destructors' = Destructors /\ Functions' = Functions \cup {n + 1}
    BY <1>2, <2>1, <2>3, <2>4 DEF Destructors, Functions
  <2>8. KindsInv'
    <3> SUFFICES ASSUME NEW i \in DOMAIN control' PROVE KindInv(i)'
      BY DEF KindsInv
    <3>1. CASE i < n
      BY <1>1, <1>2, <2>3, <3>1 DEF Inv, KindsInv, KindInv, n
    <3>2. CASE i = n
      BY SMTT(40), <1>1, <1>2, <2>1, <2>3, <3>2 DEF Inv, KindsInv, KindInv
    <3>3. CASE i = n + 1
      BY <1>1, <1>2, <2>1, <2>3, <3>3 DEF KindInv
    <3>4. CASE i = n + 2
      BY <1>1, <1>2, <2>1, <2>3, <3>4 DEF KindInv
    <3>. QED BY <1>2, <2>4, <3>1, <3>2, <3>3, <3>4
  <2>9. PlacesInv'
    <3> SUFFICES ASSUME NEW i \in DOMAIN control' PROVE PlaceInv(i)'
      BY DEF PlacesInv
    <3>1. CASE i <= n
      BY <1>2, <2>3, <3>1 DEF Inv, PlacesInv, PlaceInv, KindsInv, KindInv
    <3>2. CASE i = n + 1
      BY <1>1, <1>2, <2>1, <2>3, <3>2 DEF PlaceInv
    <3>3. CASE i = n + 2
      <4>1. control'[i - 1] = first /\ control'[i] = second
        BY <1>2, <2>3, <3>3
      <4>. QED BY <1>1, <2>1, <4>1 DEF PlaceInv
    <3>. QED BY <2>4, <3>1, <3>2, <3>3
  <2>10. OrderInv'
    <3>1. \A i \in DOMAIN control': control'[i].kind \in Codes => control'[i].frame \in DOMAIN frames'
      BY <1>2, <2>1, <2>3, <2>4, <2>5 DEF Inv, OrderInv
    <3>2. ASSUME NEW i \in DOMAIN control', NEW j \in DOMAIN control', NEW k \in DOMAIN control',
                 i < j, j <= k, control'[j].kind = "function",
                 control'[i].kind \in Codes, control'[k].kind \in Codes
          PROVE  control'[i].frame < control'[k].frame
      <4>1. CASE k <= n
        BY SMTT(40), <1>2, <2>3, <3>2, <4>1 DEF Inv, OrderInv
      <4>2. CASE k > n
        <5>1. i <= n
          BY <1>2, <2>1, <2>3, <2>4, <3>2
        <5>2. control'[i].frame \in 1 .. Len(frames)
          BY <1>2, <2>3, <2>5, <3>2, <5>1 DEF Inv, OrderInv
        <5>3. control'[k].frame = Len(frames) + 1
          BY <1>2, <2>1, <2>3, <2>4, <4>2
        <5>. QED BY <1>2, <5>2, <5>3
      <4>. QED BY <1>2, <2>3, <4>1, <4>2
    <3>. QED BY <3>1, <3>2 DEF OrderInv
  <2>11. CurrentInv'
    <3>1. ASSUME NEW i \in DOMAIN control', control'[i].kind \in Codes, i < Len(control'),
                 control'[i + 1].kind = "function"
          PROVE  control'[i].frame = control'[i + 1].frame - 1
      <4>1. i + 1 \in DOMAIN control'
        BY <1>2, <2>3, <3>1
      <4>2. CASE i + 1 <= n
        <5>1. control'[i] = control[i] /\ control'[i + 1] = control[i + 1] /\ i < n /\ i \in DOMAIN control
          BY <1>2, <2>3, <4>2
        <5>. QED BY <3>1, <5>1 DEF Inv, CurrentInv, AtTop, n
      <4>3. CASE i = n
        BY <1>2, <2>1, <2>3, <4>3
      <4>4. i # n + 1
        BY <1>2, <2>1, <2>3, <3>1
      <4>. QED BY <1>2, <2>3, <2>4, <3>1, <4>2, <4>3, <4>4
    <3>2. ASSUME NEW i \in DOMAIN control', i < Len(control'),
                 control'[i].kind = "destructor", ~Broken(control'[i].state, control'[i].thrown)
          PROVE  control'[i - 1].frame = control'[i + 1].frame - 1
      <4>1. i < n /\ control'[i] = control[i] /\ control'[i + 1] = control[i + 1] /\ i \in DOMAIN control
        <5>1. i <= n /\ i # n
          BY <1>1, <1>2, <2>1, <2>3, <2>4, <3>2
        <5>. QED BY <1>2, <2>3, <5>1
      <4>2. i > 1 /\ control'[i - 1] = control[i - 1]
        BY <1>2, <2>3, <3>2, <4>1 DEF Inv, KindsInv, KindInv
      <4>. QED BY <3>2, <4>1, <4>2 DEF Inv, CurrentInv, AtTop, n
    <3>3. Top' = second /\ second.kind # "destructor" /\ second.frame = Len(frames')
      BY <1>2, <2>1, <2>3, <2>5 DEF Top, Last
    <3>. QED BY <3>1, <3>2, <3>3 DEF CurrentInv, AtTop
  <2>12. VariablesInv'
    <3> SUFFICES ASSUME NEW i \in DOMAIN control', control'[i].kind \in Statements PROVE RoomInv(i)'
      BY DEF VariablesInv, RoomInv
    <3>1. CASE i <= n
      <4>1. i \in DOMAIN control /\ control'[i] = control[i] /\ control[i].kind \in Codes
        BY <1>2, <2>3, <3>1 DEF Statements, Codes
      <4>2. frames'[control'[i].frame] = frames[control[i].frame]
        BY <2>5, <4>1 DEF Inv, OrderInv
      <4>3. CASE i < n
        <5>1. control'[i + 1] = control[i + 1] /\ i < Len(control) /\ i < Len(control') /\ i # Len(control')
          BY <1>2, <2>3, <4>1, <4>3 DEF n
        <5>. QED BY <4>1, <4>2, <5>1 DEF Inv, VariablesInv, RoomInv, Whole, Partly, Size, Variables
      <4>4. CASE i = n
        <5>1. Whole(Top) /\ control[i] = Top
          BY <1>1, <1>2, <4>4 DEF Inv, VariablesInv, RoomInv, n
        <5>2. Whole(control[i])'
          BY <4>1, <4>2, <5>1 DEF Whole, Size, Variables
        <5>3. ~control'[i].leaves /\ control'[i + 1].kind = "function" /\ i < Len(control')
          BY <1>1, <1>2, <2>1, <2>3, <4>4, <4>1, <5>1
        <5>. QED BY <5>2, <5>3 DEF RoomInv
      <4>. QED BY <1>2, <2>3, <3>1, <4>3, <4>4
    <3>2. i # n + 1
      BY <1>1, <2>1, <2>3
    <3>3. CASE i = n + 2
      <4>1. Len(frames'[second.frame].variables) = second.base + second.declared
        BY <2>1, <2>5
      <4>2. control'[i] = second /\ i = Len(control')
        BY <2>3, <3>3
      <4>3. Whole(control[i])' /\ ~control'[i].leaves
        BY <2>1, <4>1, <4>2 DEF Whole, Size, Variables
      <4>. QED BY <1>1, <2>2, <4>2, <4>3 DEF RoomInv
    <3>. QED BY <2>4, <3>1, <3>2, <3>3
  <2>13. JumpsInv'
    <3>1. \A i \in Destructors': i <= n
      BY <1>2, <2>7 DEF Destructors
    <3>2. n \in Nat /\ n <= Len(control) /\ n <= Len(control')
      BY <1>2, <2>3 DEF n
    <3>3. \A i \in Destructors':
             /\ Obeys(control[i].state, i)'
             /\ control'[i].thrown => control'[i].state \in {"NORMAL", "RUNTIME_EXCEPTION"}
      BY <2>3, <2>6, <3>1, <3>2, JumpsStay
    <3>. QED BY <1>1, <2>2, <3>3 DEF JumpsInv, Obeys
  <2>14. ExceptionsInv'
    <3>1. \A k \in DOMAIN control': control'[k].kind = "try" => k \in DOMAIN control /\ control[k].kind = "try"
      BY <1>2, <2>1, <2>3, <2>4
    <3>2. \A i \in Destructors: i \in DOMAIN control /\ control'[i] = control[i]
      BY <2>7 DEF Destructors
    <3>3. \A i \in Destructors: Doomed(i) => Doomed(i)'
      BY <1>1, <2>2, <2>7, <3>2 DEF Doomed
    <3>. QED BY <1>1, <2>7, <3>1, <3>2, <3>3 DEF Inv, ExceptionsInv
  <2>15. CallsInv'
    <3>1. Failed' => Failed
      BY <1>1, <2>2, <2>7 DEF Failed, Destructors
    <3>2. ~Failed' => ~Failed
      BY <1>1, <2>2, <2>7 DEF Failed, Destructors
    <3>3. \A i \in Functions: i \in Functions' /\ control'[i].frame = control[i].frame
      BY <2>7 DEF Functions
    <3>4. n + 1 \in Functions' /\ control'[n + 1].frame = Len(frames) + 1
      BY <2>1, <2>3, <2>7
    <3>5. \A f \in DOMAIN frames': f \in DOMAIN frames \/ f = Len(frames) + 1
      BY <1>2, <2>5
    <3>. QED BY <3>2, <3>3, <3>4, <3>5 DEF Inv, CallsInv
  <2>16. ExitInv'
    BY <1>1, <2>7 DEF Inv, ExitInv, Destructors
  <2>17. Final
    BY <1>1, <2>2, <2>7 DEF Final, Failed, Exiting, Destructors
  <2>. QED BY <2>6, <2>8, <2>9, <2>10, <2>11, <2>12, <2>13, <2>14, <2>15, <2>16, <2>17 DEF Inv
<1>. QED BY <1>3, <1>4

-----------------------------------------------------------------------------

(* A call ends.  What it hands over has to fit the call around it, m.        *)
LEMMA PoppedKeeps ==
  ASSUME Inv, control # <<>>, control' = Front(control), TypeOK',
         NEW m, m = Len(control) - 1, m > 0 => RoomInv(m)', AtTop',
         \A f \in DOMAIN frames': f \in DOMAIN frames /\ frames'[f].variables = frames[f].variables,
         \A i \in DOMAIN control': control[i].kind \in Codes => control[i].frame \in DOMAIN frames',
         Obeys(state, Len(control) + 1)', thrown' => state' \in {"NORMAL", "RUNTIME_EXCEPTION"},
         state' = "EXCEPTION" => raised' # "none" /\ result' = raised',
         result' = result \/ Upset(state', thrown'),
         Upset(state, thrown) => Upset(state', thrown'),
         Top.kind = "destructor" /\ Upset(Top.state, Top.thrown) => Upset(state', thrown'),
         CallsInv', state' = "EXIT" => Destructors' = {}
  PROVE  Inv'
<1> DEFINE n == Len(control)
<1>1. /\ n \in Nat \ {0} /\ DOMAIN control = 1 .. n /\ m \in Nat
      /\ Top = control[n] /\ m = n - 1
  BY TopFacts DEF Inv
<1>2. /\ Len(control') = m /\ DOMAIN control' = 1 .. m
      /\ \A i \in 1 .. m: control'[i] = control[i]
  BY <1>1, Shortened DEF Inv, TypeOK
<1>3. /\ DOMAIN control' \subseteq DOMAIN control
      /\ \A i \in DOMAIN control': i < n /\ control'[i] = control[i]
  BY <1>1, <1>2
<1>4. Destructors' = Destructors \ {n}
  BY <1>1, <1>2 DEF Destructors
<1>. HIDE DEF n
<1>5. KindsInv'
  <2> SUFFICES ASSUME NEW i \in DOMAIN control' PROVE KindInv(i)'
    BY DEF KindsInv
  <2>1. KindInv(i) /\ i \in DOMAIN control /\ i < Len(control)
    BY <1>3 DEF Inv, KindsInv, n
  <2>2. i > 1 => i - 1 \in DOMAIN control'
    BY <1>1, <1>2
  <2>3. i < m => i + 1 \in DOMAIN control'
    BY <1>1, <1>2
  <2>. QED BY <1>1, <1>2, <1>3, <2>1, <2>2, <2>3 DEF KindInv
<1>6. PlacesInv'
  <2> SUFFICES ASSUME NEW i \in DOMAIN control' PROVE PlaceInv(i)'
    BY DEF PlacesInv
  <2>1. KindInv(i) /\ PlaceInv(i)
    BY <1>3 DEF Inv, KindsInv, PlacesInv
  <2>2. i > 1 => i - 1 \in DOMAIN control'
    BY <1>1, <1>2
  <2>. QED BY <1>3, <2>1, <2>2 DEF PlaceInv, KindInv
<1>7. OrderInv'
  <2>1. \A i \in DOMAIN control': control'[i].kind \in Codes => control'[i].frame \in DOMAIN frames'
    BY <1>3
  <2>. QED BY <1>3, <2>1 DEF Inv, OrderInv
<1>8. CurrentInv'
  <2>1. \A i \in DOMAIN control': i < Len(control') => i < Len(control) /\ i + 1 \in DOMAIN control'
    BY <1>1, <1>2 DEF n
  <2>2. \A i \in DOMAIN control': control'[i].kind = "destructor" => i - 1 \in DOMAIN control'
    BY <1>1, <1>2, <1>3 DEF Inv, KindsInv, KindInv
  <2>. QED BY <1>3, <2>1, <2>2 DEF Inv, CurrentInv
<1>9. VariablesInv'
  <2> SUFFICES ASSUME NEW i \in DOMAIN control', control'[i].kind \in Statements PROVE RoomInv(i)'
    BY DEF VariablesInv, RoomInv
  <2>1. CASE i < m
    <3>1. i \in DOMAIN control /\ control'[i] = control[i] /\ control'[i + 1] = control[i + 1]
          /\ i < Len(control) /\ i < Len(control') /\ i # Len(control')
      BY <1>1, <1>2, <2>1 DEF n
    <3>2. frames'[control'[i].frame].variables = frames[control[i].frame].variables
      <4>1. control[i].kind \in Codes
        BY <3>1 DEF Statements, Codes
      <4>. QED BY <3>1, <4>1
    <3>. QED BY <3>1, <3>2 DEF Inv, VariablesInv, RoomInv, Whole, Partly, Size, Variables
  <2>2. CASE i = m
    BY <1>1, <1>2, <2>2
  <2>. QED BY <1>1, <1>2, <2>1, <2>2
<1>10. JumpsInv'
  <2>1. m \in Nat /\ m <= Len(control) /\ m <= Len(control') /\ \A i \in Destructors': i <= m
    BY <1>1, <1>2 DEF n, Destructors
  <2>2. \A i \in Destructors':
           /\ Obeys(control[i].state, i)'
           /\ control'[i].thrown => control'[i].state \in {"NORMAL", "RUNTIME_EXCEPTION"}
    BY <1>2, <2>1, JumpsStay
  <2>. QED BY <2>2 DEF JumpsInv
<1>11. ExceptionsInv'
  <2>1. ASSUME NEW i \in Destructors', Doomed(i), result' = result PROVE Doomed(i)'
    <3>1. CASE Upset(state, thrown)
      BY <3>1 DEF Doomed
    <3>2. ASSUME NEW j \in Destructors, i < j, Upset(control[j].state, control[j].thrown)
          PROVE  Doomed(i)'
      <4>1. CASE j = n
        BY <1>1, <3>2, <4>1 DEF Doomed, Destructors
      <4>2. CASE j # n
        BY <1>3, <1>4, <3>2, <4>2 DEF Doomed, Destructors
      <4>. QED BY <4>1, <4>2
    <3>. QED BY <2>1, <3>1, <3>2 DEF Doomed
  <2>2. Upset(state', thrown') => \A i \in Destructors': Doomed(i)'
    BY DEF Doomed
  <2>3. \A i \in Destructors': i \in Destructors /\ control'[i] = control[i]
    BY <1>3, <1>4 DEF Destructors
  <2>. QED BY <1>3, <2>1, <2>2, <2>3 DEF Inv, ExceptionsInv
<1>12. ExitInv'
  BY <1>3, <1>4 DEF Inv, ExitInv, Destructors
<1>. QED BY <1>5, <1>6, <1>7, <1>8, <1>9, <1>10, <1>11, <1>12 DEF Inv

(* A step that leaves a call which is no function, and does not change frames. *)
LEMMA PoppedCalls ==
  ASSUME Inv, control # <<>>, control' = Front(control), Top.kind # "function",
         DOMAIN frames' = DOMAIN frames,
         Broken(state, thrown) => Broken(state', thrown'),
         Top.kind = "destructor" /\ Broken(Top.state, Top.thrown) => Broken(state', thrown')
  PROVE  CallsInv'
<1> DEFINE n == Len(control)
<1>1. /\ n \in Nat \ {0} /\ DOMAIN control = 1 .. n /\ Top = control[n]
  BY TopFacts DEF Inv
<1>2. /\ DOMAIN control' = 1 .. n - 1
      /\ \A i \in 1 .. n - 1: control'[i] = control[i]
  BY <1>1, Shortened DEF Inv, TypeOK
<1>. HIDE DEF n
<1>3. /\ \A i \in DOMAIN control: i # n => i \in DOMAIN control' /\ control'[i] = control[i]
      /\ DOMAIN control' \subseteq DOMAIN control
  BY <1>1, <1>2
<1>4. Functions' = Functions /\ \A i \in Functions: control'[i] = control[i]
  <2>1. n \notin Functions
    BY <1>1 DEF Functions
  <2>2. DOMAIN control' = DOMAIN control \ {n}
    BY <1>1, <1>2
  <2>. QED BY <1>3, <2>1, <2>2 DEF Functions
<1>5. Failed => Failed'
  <2>1. ASSUME NEW i \in Destructors, control[i].thrown \/ control[i].state = "RUNTIME_EXCEPTION"
        PROVE  Failed'
    <3>1. CASE i = n
      BY <1>1, <2>1, <3>1 DEF Failed, Broken, Destructors
    <3>2. CASE i # n
      BY <1>3, <2>1, <3>2 DEF Failed, Destructors
    <3>. QED BY <3>1, <3>2
  <2>2. Broken(state, thrown) => Failed'
    BY DEF Failed, Broken
  <2>. QED BY <2>1, <2>2 DEF Failed, Broken
<1>. QED BY <1>4, <1>5 DEF Inv, CallsInv

(* A call that ends does not undo a failure. *)
LEMMA PoppedIsFinal ==
  ASSUME Inv, control # <<>>, control' = Front(control),
         Broken(state, thrown) => Broken(state', thrown'),
         Top.kind = "destructor" /\ Broken(Top.state, Top.thrown) => Broken(state', thrown'),
         Top.kind # "destructor" /\ state = "EXIT" => state' = "EXIT",
         Top.kind = "destructor" /\ Top.state = "EXIT" => state' \in {"EXIT", "RUNTIME_EXCEPTION"}
  PROVE  Final
<1> DEFINE n == Len(control)
<1>1. /\ n \in Nat \ {0} /\ DOMAIN control = 1 .. n /\ Top = control[n]
  BY TopFacts DEF Inv
<1>2. /\ DOMAIN control' = 1 .. n - 1
      /\ \A i \in 1 .. n - 1: control'[i] = control[i]
  BY <1>1, Shortened DEF Inv, TypeOK
<1>. HIDE DEF n
<1>3. /\ \A i \in DOMAIN control: i # n => i \in DOMAIN control' /\ control'[i] = control[i]
      /\ \A i \in DOMAIN control': i \in DOMAIN control /\ i < n
  BY <1>1, <1>2
<1>4. Destructors' = Destructors \ {n}
  BY <1>1, <1>2, <1>3 DEF Destructors
<1>5. \A i \in Destructors: i # n => control'[i] = control[i]
  BY <1>3 DEF Destructors
<1>6. n \in Destructors => Top.kind = "destructor" /\ control[n] = Top
  BY <1>1 DEF Destructors
<1>7. Failed => Failed'
  <2>1. ASSUME NEW i \in Destructors, control[i].thrown \/ control[i].state = "RUNTIME_EXCEPTION"
        PROVE  Failed'
    <3>1. CASE i = n
      BY <1>6, <2>1, <3>1 DEF Failed, Broken
    <3>2. CASE i # n
      BY <1>4, <1>5, <2>1, <3>2 DEF Failed
    <3>. QED BY <3>1, <3>2
  <2>2. Broken(state, thrown) => Failed'
    BY DEF Failed, Broken
  <2>. QED BY <2>1, <2>2 DEF Failed, Broken
<1>8. CASE Destructors = {} /\ state = "EXIT"
  <2>1. Top.kind # "destructor"
    BY <1>1, <1>8 DEF Destructors
  <2>. QED BY <1>4, <1>7, <1>8, <2>1 DEF Final, Exiting
<1>9. ASSUME NEW i \in Destructors, control[i].state = "EXIT", \A j \in Destructors: i <= j
      PROVE  Exiting' \/ Failed'
  <2>1. CASE i = n
    <3>1. \A j \in Destructors: j = n
      BY <1>1, <1>9, <2>1 DEF Destructors
    <3>2. Destructors' = {}
      BY <1>4, <3>1
    <3>. QED BY <1>6, <1>9, <2>1, <3>2 DEF Exiting, Failed
  <2>2. CASE i # n
    BY <1>4, <1>5, <1>9, <2>2 DEF Exiting
  <2>. QED BY <2>1, <2>2
<1>. QED BY <1>7, <1>8, <1>9 DEF Final, Exiting

(* The types of a stack without its last call. *)
LEMMA PoppedFacts ==
  ASSUME Inv, control # <<>>, control' = Front(control), NEW m, m = Len(control) - 1
  PROVE  /\ m \in Nat /\ Len(control) \in Nat \ {0} /\ DOMAIN control = 1 .. Len(control)
         /\ Top = control[Len(control)] /\ Top \in Levels
         /\ control' \in Seq(Levels) /\ Len(control') = m /\ DOMAIN control' = 1 .. m
         /\ \A i \in 1 .. m: control'[i] = control[i]
         /\ control' # <<>> => m > 0 /\ Top' = control[m] /\ m \in DOMAIN control
<1>1. /\ Len(control) \in Nat \ {0} /\ DOMAIN control = 1 .. Len(control)
      /\ Top = control[Len(control)] /\ Top \in Levels /\ m \in Nat
  BY TopFacts DEF Inv
<1>2. /\ control' \in Seq(Levels) /\ Len(control') = m /\ DOMAIN control' = 1 .. m
      /\ \A i \in 1 .. m: control'[i] = control[i]
  BY <1>1, Shortened DEF Inv, TypeOK
<1>3. control' # <<>> => m > 0 /\ Top' = control[m] /\ m \in DOMAIN control
  <2> SUFFICES ASSUME control' # <<>> PROVE m > 0 /\ Top' = control[m] /\ m \in DOMAIN control
    OBVIOUS
  <2>1. m # 0
    BY <1>2
  <2>. QED BY <1>1, <1>2, <2>1 DEF Top, Last
<1>. QED BY <1>1, <1>2, <1>3

(* Obeys for who is no loop. *)
LEMMA ObeysWithout ==
  ASSUME Inv, control # <<>>, control' = Front(control), TypeOK', NEW s, Obeys(s, Len(control) + 1),
         \/ Top.kind \in Codes /\ Top.leaves
         \/ Top.kind \notin {"loop", "switch"}
         \/ s \notin {"BREAK", "CONTINUE"}
  PROVE  Obeys(s, Len(control) + 1)'
<1>1. PICK m: m = Len(control) - 1
  OBVIOUS
<1>2. /\ m \in Nat /\ Len(control) \in Nat \ {0} /\ DOMAIN control = 1 .. Len(control)
      /\ Top = control[Len(control)]
      /\ Len(control') = m /\ DOMAIN control' = 1 .. m
      /\ \A i \in 1 .. m: control'[i] = control[i]
  BY <1>1, PoppedFacts
<1>3. PICK k: k = Len(control)
  OBVIOUS
<1>4. ASSUME NEW kinds \in SUBSET {"loop", "switch"}, LoopUnder(k + 1, kinds),
             \/ Top.kind \in Codes /\ Top.leaves
             \/ Top.kind \notin {"loop", "switch"}
      PROVE  LoopUnder(k, kinds)
  <2>1. PICK j \in DOMAIN control:
          /\ j < k + 1 /\ control[j].kind \in kinds /\ ~control[j].leaves
          /\ \A i \in DOMAIN control: j <= i /\ i < k + 1 => control[i].kind \notin {"function", "destructor"}
    BY <1>4 DEF LoopUnder
  <2>2. j # k
    BY <1>2, <1>3, <1>4, <2>1
  <2>3. j < k /\ \A i \in DOMAIN control: i < k => i < k + 1
    BY <1>2, <1>3, <2>1, <2>2
  <2>. QED BY <2>1, <2>3 DEF LoopUnder
<1>5. Obeys(s, k)
  <2>1. CASE s \notin {"BREAK", "CONTINUE"}
    BY <2>1 DEF Obeys
  <2>2. CASE s \in {"BREAK", "CONTINUE"}
    <3>1. Obeys(s, k + 1)
      BY <1>3
    <3>. QED BY <1>4, <2>2, <3>1 DEF Obeys
  <2>. QED BY <2>1, <2>2
<1>6. Obeys(s, k)'
  <2>1. TypeOK /\ m <= Len(control) /\ m <= Len(control') /\ k \in 1 .. m + 1
    BY <1>1, <1>2, <1>3 DEF Inv
  <2>. QED BY <1>2, <1>5, <2>1, LoopsStay
<1>7. Len(control') + 1 = k
  BY <1>1, <1>2, <1>3
<1>. QED BY <1>6, <1>7 DEF Obeys, LoopUnder

LEMMA LeaveKeeps == ASSUME Legal, Inv, Leave PROVE Inv' /\ Final
<1>1. PICK m: m = Len(control) - 1
  OBVIOUS
<1>2. /\ control # <<>> /\ Top.kind \in VirtualScopes /\ Top.kind \in Codes /\ Top.kind \in Statements
      /\ Top.kind \notin {"function", "destructor"}
      /\ Top.leaves \/ thrown
      /\ Len(Variables(Top.frame)) <= Top.base
      /\ control' = Front(control)
      /\ frames' = frames /\ state' = state /\ result' = result /\ thrown' = thrown /\ raised' = raised
  BY DEF Leave, In, Codes, Statements, VirtualScopes
<1>3. /\ m \in Nat /\ Len(control) \in Nat \ {0} /\ DOMAIN control = 1 .. Len(control)
      /\ Top = control[Len(control)] /\ Top \in Levels
      /\ control' \in Seq(Levels) /\ Len(control') = m /\ DOMAIN control' = 1 .. m
      /\ \A i \in 1 .. m: control'[i] = control[i]
      /\ control' # <<>> => m > 0 /\ Top' = control[m] /\ m \in DOMAIN control
  BY <1>1, <1>2, PoppedFacts
<1>4. TypeOK'
  BY <1>2, <1>3 DEF Inv, TypeOK
<1>5. /\ m > 0 /\ m \in DOMAIN control /\ control[m].kind \in Codes
      /\ control[m].frame = Top.frame /\ Top.base = control[m].base + control[m].declared
      /\ control[m].base \in Nat /\ control[m].declared \in Nat /\ Top.base \in Nat
  <2>1. Len(control) > 1 /\ control[m].kind # "destructor"
    BY <1>1, <1>2, <1>3 DEF Inv, KindsInv, KindInv
  <2>2. m > 0 /\ m \in DOMAIN control /\ control[m] \in Levels
    BY <1>1, <1>3, <2>1, TopFacts DEF Inv
  <2>3. control[m].frame = Top.frame /\ Top.base = control[m].base + control[m].declared
    BY <1>1, <1>2, <1>3 DEF Inv, PlacesInv, PlaceInv
  <2>. QED BY <1>2, <1>3, <2>1, <2>2, <2>3, LevelTypes
<1>6. Whole(control[m]) /\ Partly(control[m])
  <2>1. Partly(Top)
    BY <1>2, <1>3 DEF Inv, VariablesInv, RoomInv
  <2>2. Size(Top.frame) = Top.base
    <3>1. Size(Top.frame) \in Nat
      BY <1>2, <1>3, TopFacts DEF Inv, OrderInv, Size
    <3>. QED BY <1>2, <1>5, <2>1, <3>1 DEF Partly, Size
  <2>. QED BY <1>5, <2>2 DEF Whole, Partly
<1>7. m > 0 => RoomInv(m)'
  BY <1>2, <1>3, <1>5, <1>6 DEF RoomInv, Whole, Partly, Size, Variables
<1>8. AtTop'
  <2>1. control[m].kind # "destructor"
    BY <1>5 DEF Codes, VirtualScopes
  <2>. QED BY <1>2, <1>3, <1>5, <2>1 DEF Inv, CurrentInv, AtTop, Broken
<1>9. Obeys(state, Len(control) + 1)'
  <2>1. Obeys(state, Len(control) + 1) /\ (thrown => state \notin {"BREAK", "CONTINUE"})
    BY DEF Inv, JumpsInv
  <2>2. PICK s: s = state
    OBVIOUS
  <2>3. Obeys(s, Len(control) + 1)'
    BY <1>2, <1>4, <2>1, <2>2, ObeysWithout
  <2>. QED BY <1>2, <2>2, <2>3 DEF Obeys
<1>10. CallsInv'
  BY <1>2, PoppedCalls
<1>11. state' = "EXIT" => Destructors' = {}
  BY <1>2, <1>3 DEF Inv, ExitInv, Destructors
<1>12. \A i \in DOMAIN control': control[i].kind \in Codes => control[i].frame \in DOMAIN frames'
  BY <1>1, <1>2, <1>3 DEF Inv, OrderInv
<1>13. /\ thrown' => state' \in {"NORMAL", "RUNTIME_EXCEPTION"}
       /\ state' = "EXCEPTION" => raised' # "none" /\ result' = raised'
  BY <1>2 DEF Inv, JumpsInv, ExceptionsInv
<1>14. Inv'
  BY <1>1, <1>2, <1>4, <1>7, <1>8, <1>9, <1>10, <1>11, <1>12, <1>13, PoppedKeeps
<1>15. Final
  BY <1>2, PoppedIsFinal
<1>. QED BY <1>14, <1>15

LEMMA UnwindKeeps == ASSUME Legal, Inv, Unwind PROVE Inv' /\ Final
<1>1. PICK m: m = Len(control) - 1
  OBVIOUS
<1>2. /\ control # <<>> /\ thrown /\ control' = Front(control)
      /\ frames' = frames /\ state' = state /\ result' = result /\ thrown' = thrown /\ raised' = raised
  BY DEF Unwind, In
<1>3. /\ m \in Nat /\ Len(control) \in Nat \ {0} /\ DOMAIN control = 1 .. Len(control)
      /\ Top = control[Len(control)]
      /\ control' \in Seq(Levels) /\ Len(control') = m /\ DOMAIN control' = 1 .. m
      /\ \A i \in 1 .. m: control'[i] = control[i]
      /\ control' # <<>> => m > 0 /\ Top' = control[m] /\ m \in DOMAIN control
  BY <1>1, <1>2, PoppedFacts
<1>4. Top.kind = "function"
  BY <1>2, <1>3 DEF Unwind, In, Inv, KindsInv, KindInv
<1>5. TypeOK'
  BY <1>2, <1>3 DEF Inv, TypeOK
<1>6. m > 0 => RoomInv(m)'
  <2> SUFFICES ASSUME m > 0, control[m].kind \in Statements PROVE RoomInv(m)'
    BY <1>3 DEF RoomInv
  <2>1. m \in DOMAIN control /\ m < Len(control) /\ control[m + 1] = Top
    BY <1>1, <1>3
  <2>2. Whole(control[m])
    BY <1>4, <2>1 DEF Inv, VariablesInv, RoomInv
  <2>3. Partly(control[m])
    BY <2>1, <2>2, WholeIsPart, TopFacts DEF Inv, Statements, Codes
  <2>4. control'[m] = control[m]
    BY <1>3
  <2>. QED BY <1>2, <1>3, <2>3, <2>4 DEF RoomInv, Partly, Size, Variables
<1>7. AtTop'
  BY <1>2 DEF AtTop, Broken
<1>8. state \in {"NORMAL", "RUNTIME_EXCEPTION"}
  BY <1>2 DEF Inv, JumpsInv
<1>9. Obeys(state, Len(control) + 1)'
  BY <1>2, <1>8 DEF Obeys
<1>10. CallsInv'
  BY <1>2 DEF CallsInv, Failed
<1>11. \A i \in DOMAIN control': control[i].kind \in Codes => control[i].frame \in DOMAIN frames'
  BY <1>1, <1>2, <1>3 DEF Inv, OrderInv
<1>12. Upset(state', thrown')
  BY <1>2 DEF Upset
<1>13. Inv'
  BY <1>1, <1>2, <1>5, <1>6, <1>7, <1>8, <1>9, <1>10, <1>11, <1>12, PoppedKeeps
<1>14. Final
  BY <1>2, <1>4, PoppedIsFinal
<1>. QED BY <1>13, <1>14

LEMMA ThrowEndsKeeps ==
  ASSUME Legal, Inv, NEW x \in Exceptions, ThrowEnds(x)
  PROVE  Inv' /\ Final
<1>1. PICK m: m = Len(control) - 1
  OBVIOUS
<1>2. /\ control # <<>> /\ ~thrown /\ Top.kind = "throw" /\ Top.kind \in Codes /\ Top.kind \in Statements
      /\ Top.kind \notin {"function", "destructor", "loop", "switch"}
      /\ control' = Front(control) /\ thrown' = thrown /\ state' = "EXCEPTION"
  BY DEF ThrowEnds, In, Codes, Statements, VirtualScopes
<1>3. /\ m \in Nat /\ Len(control) \in Nat \ {0} /\ DOMAIN control = 1 .. Len(control)
      /\ Top = control[Len(control)] /\ Top \in Levels
      /\ control' \in Seq(Levels) /\ Len(control') = m /\ DOMAIN control' = 1 .. m
      /\ \A i \in 1 .. m: control'[i] = control[i]
      /\ control' # <<>> => m > 0 /\ Top' = control[m] /\ m \in DOMAIN control
  BY <1>1, <1>2, PoppedFacts
<1>4. state = "NORMAL" /\ Top.declared = 0 /\ Whole(Top) /\ ~Top.leaves
  <2>1. state = "NORMAL" /\ Top.declared = 0 /\ ~Top.leaves
    BY <1>2, <1>3 DEF Inv, KindsInv, KindInv, PlacesInv, PlaceInv
  <2>2. Whole(Top)
    BY <1>2, <1>3, <2>1 DEF Inv, VariablesInv, RoomInv
  <2>. QED BY <2>1, <2>2
<1>5. PICK f: f = Top.frame
  OBVIOUS
<1>6. f \in DOMAIN frames /\ frames[f] \in Frames /\ frames \in Seq(Frames) /\ x \in Results /\ x # "none"
  BY <1>2, <1>3, <1>5, TopFacts DEF Inv, OrderInv, TypeOK, Legal, Results
<1>7. /\ frames' \in Seq(Frames) /\ DOMAIN frames' = DOMAIN frames /\ Len(frames') = Len(frames)
      /\ \A g \in DOMAIN frames: frames'[g].variables = frames[g].variables
      /\ frames'[f].result = x
  <2>1. PICK d: d = [frames[f] EXCEPT !.result = x]
    OBVIOUS
  <2>2. d \in Frames /\ d.variables = frames[f].variables /\ d.result = x
    BY <1>6, <2>1, Concluded
  <2>3. frames' = [frames EXCEPT ![f] = d]
    BY <1>4, <1>5, <2>1 DEF ThrowEnds
  <2>4. /\ frames' \in Seq(Frames) /\ Len(frames') = Len(frames) /\ DOMAIN frames' = DOMAIN frames
        /\ frames'[f] = d /\ \A g \in DOMAIN frames: g # f => frames'[g] = frames[g]
    BY <1>6, <2>2, <2>3, Changed
  <2>. QED BY <2>2, <2>4
<1>8. result' = x /\ raised' = x
  BY <1>4, <1>5, <1>7 DEF ThrowEnds
<1>9. TypeOK'
  BY <1>2, <1>3, <1>6, <1>7, <1>8 DEF Inv, TypeOK, States
<1>10. /\ m > 0 /\ m \in DOMAIN control /\ control[m].kind \in Codes
       /\ control[m].frame = Top.frame /\ Top.base = control[m].base + control[m].declared
       /\ control[m].base \in Nat /\ control[m].declared \in Nat /\ Top.base \in Nat
  <2>1. Len(control) > 1 /\ control[m].kind # "destructor"
    BY <1>1, <1>2, <1>3 DEF Inv, KindsInv, KindInv
  <2>2. m > 0 /\ m \in DOMAIN control /\ control[m] \in Levels
    BY <1>1, <1>3, <2>1, TopFacts DEF Inv
  <2>3. control[m].frame = Top.frame /\ Top.base = control[m].base + control[m].declared
    BY <1>1, <1>2, <1>3 DEF Inv, PlacesInv, PlaceInv
  <2>. QED BY <1>2, <1>3, <2>1, <2>2, <2>3, LevelTypes
<1>11. Whole(control[m]) /\ Partly(control[m])
  <2>1. Size(Top.frame) = Top.base
    BY <1>4, <1>10 DEF Whole
  <2>. QED BY <1>10, <2>1 DEF Whole, Partly
<1>12. m > 0 => RoomInv(m)'
  <2>1. control'[m] = control[m] /\ frames'[control[m].frame].variables = frames[control[m].frame].variables
    BY <1>3, <1>5, <1>6, <1>7, <1>10
  <2>2. Whole(control[m])' /\ Partly(control[m])'
    BY <1>11, <2>1 DEF Whole, Partly, Size, Variables
  <2>. QED BY <1>3, <2>2 DEF RoomInv
<1>13. AtTop'
  <2>1. control[m].kind # "destructor"
    BY <1>10 DEF Codes, VirtualScopes
  <2>. QED BY <1>2, <1>3, <1>4, <1>7, <1>10, <2>1 DEF Inv, CurrentInv, AtTop, Broken
<1>14. Obeys(state, Len(control) + 1)'
  BY <1>2 DEF Obeys
<1>15. CallsInv'
  BY <1>2, <1>4, <1>7, PoppedCalls DEF Broken
<1>16. \A i \in DOMAIN control': control[i].kind \in Codes => control[i].frame \in DOMAIN frames'
  BY <1>1, <1>3, <1>7 DEF Inv, OrderInv
<1>17. Upset(state', thrown') /\ state' # "EXIT"
  BY <1>2 DEF Upset
<1>18. Inv'
  BY <1>1, <1>2, <1>6, <1>7, <1>8, <1>9, <1>12, <1>13, <1>14, <1>15, <1>16, <1>17, PoppedKeeps
<1>19. Final
  BY <1>2, <1>4, PoppedIsFinal DEF Broken
<1>. QED BY <1>18, <1>19

LEMMA FunctionsEndJumps ==
  ASSUME Inv, control # <<>>, Top.kind = "function"
  PROVE  state \notin {"BREAK", "CONTINUE"}
<1>1. /\ Len(control) \in Nat \ {0} /\ DOMAIN control = 1 .. Len(control) /\ Top = control[Len(control)]
  BY TopFacts DEF Inv
<1>2. PICK n \in DOMAIN control: n = Len(control)
  BY <1>1
<1>3. \A kinds: ~LoopUnder(n + 1, kinds)
  BY <1>1, <1>2 DEF LoopUnder
<1>. QED BY <1>2, <1>3 DEF Inv, JumpsInv, Obeys

LEMMA ReturnKeeps == ASSUME Legal, Inv, Return PROVE Inv' /\ Final
<1>1. PICK m: m = Len(control) - 1
  OBVIOUS
<1>2. /\ control # <<>> /\ ~thrown /\ Top.kind = "function" /\ Top.kind \in Codes
      /\ control' = Front(control) /\ frames' = Front(frames)
      /\ state' = IF state = "RETURN" THEN "NORMAL" ELSE state
      /\ result' = result /\ thrown' = thrown /\ raised' = raised
  BY DEF Return, In, Codes
<1>3. /\ m \in Nat /\ Len(control) \in Nat \ {0} /\ DOMAIN control = 1 .. Len(control)
      /\ Top = control[Len(control)] /\ Top \in Levels /\ Len(control) \in DOMAIN control
      /\ control' \in Seq(Levels) /\ Len(control') = m /\ DOMAIN control' = 1 .. m
      /\ \A i \in 1 .. m: control'[i] = control[i]
      /\ control' # <<>> => m > 0 /\ Top' = control[m] /\ m \in DOMAIN control
  BY <1>1, <1>2, PoppedFacts
<1>4. Top.frame \in DOMAIN frames /\ frames # <<>> /\ frames \in Seq(Frames)
  BY <1>2, <1>3 DEF Inv, OrderInv, TypeOK
<1>5. /\ frames' \in Seq(Frames) /\ Len(frames) \in Nat \ {0} /\ Len(frames') = Len(frames) - 1
      /\ DOMAIN frames = 1 .. Len(frames) /\ DOMAIN frames' = 1 .. Len(frames) - 1
      /\ \A f \in 1 .. Len(frames) - 1: frames'[f] = frames[f]
  BY <1>2, <1>4, Shortened
<1>6. \A i \in DOMAIN control': control[i].kind \in Codes =>
        control[i].frame \in 1 .. Len(frames) - 1
  <2> SUFFICES ASSUME NEW i \in DOMAIN control', control[i].kind \in Codes
               PROVE  control[i].frame \in 1 .. Len(frames) - 1
    OBVIOUS
  <2>1. i \in DOMAIN control /\ i < Len(control)
    BY <1>1, <1>3
  <2>2. control[i].frame < Top.frame /\ control[i].frame \in DOMAIN frames
    BY <1>2, <1>3, <2>1 DEF Inv, OrderInv
  <2>. QED BY <1>4, <1>5, <2>2
<1>7. TypeOK'
  BY <1>2, <1>3, <1>5 DEF Inv, TypeOK, States
<1>8. m > 0 => RoomInv(m)'
  <2> SUFFICES ASSUME m > 0, control[m].kind \in Statements PROVE RoomInv(m)'
    BY <1>3 DEF RoomInv
  <2>1. m \in DOMAIN control /\ m \in DOMAIN control' /\ m < Len(control) /\ control[m + 1] = Top
    BY <1>1, <1>3
  <2>2. Whole(control[m]) /\ ~control[m].leaves
    BY <1>2, <2>1 DEF Inv, VariablesInv, RoomInv
  <2>3. control'[m] = control[m] /\ frames'[control[m].frame] = frames[control[m].frame]
    <3>1. control[m].kind \in Codes
      BY DEF Statements, Codes
    <3>. QED BY <1>3, <1>5, <1>6, <2>1, <3>1
  <2>4. Whole(control[m])'
    BY <2>2, <2>3 DEF Whole, Size, Variables
  <2>. QED BY <1>2, <1>3, <2>2, <2>3, <2>4 DEF RoomInv
<1>9. AtTop'
  <2> SUFFICES ASSUME ~Broken(state, thrown), control' # <<>>
               PROVE  IF control[m].kind = "destructor"
                      THEN ~Broken(control[m].state, control[m].thrown) => control[m - 1].frame = Len(frames')
                      ELSE control[m].frame = Len(frames')
    <3>1. CASE Broken(state', thrown') \/ control' = <<>>
      BY <3>1 DEF AtTop
    <3>2. CASE ~Broken(state', thrown') /\ control' # <<>>
      <4>1. ~Broken(state, thrown)
        BY <1>2, <3>2 DEF Broken
      <4>2. IF control[m].kind = "destructor"
            THEN ~Broken(control[m].state, control[m].thrown) => control[m - 1].frame = Len(frames')
            ELSE control[m].frame = Len(frames')
        BY <3>2, <4>1
      <4>3. control[m].kind = "destructor" => m > 1 /\ control'[m - 1] = control[m - 1]
        BY <1>3, <3>2 DEF Inv, KindsInv, KindInv
      <4>. QED BY <1>3, <3>2, <4>2, <4>3 DEF AtTop
    <3>. QED BY <3>1, <3>2
  <2>1. Top.frame = Len(frames)
    BY <1>2 DEF Inv, CurrentInv, AtTop
  <2>2. m \in DOMAIN control /\ m < Len(control) /\ m + 1 = Len(control) /\ control[m + 1].kind = "function"
        /\ control[m + 1] = Top
    BY <1>1, <1>2, <1>3
  <2>3. CASE control[m].kind = "destructor"
    BY <1>5, <2>1, <2>2, <2>3 DEF Inv, CurrentInv
  <2>4. CASE control[m].kind # "destructor"
    <3>1. control[m].kind \in Codes
      BY <2>2, <2>4, TopFacts, LevelTypes DEF Inv
    <3>. QED BY <1>5, <2>1, <2>2, <2>4, <3>1 DEF Inv, CurrentInv
  <2>. QED BY <2>3, <2>4
<1>10. state' \notin {"BREAK", "CONTINUE"}
  BY <1>2, FunctionsEndJumps
<1>11. Obeys(state, Len(control) + 1)'
  BY <1>10 DEF Obeys
<1>12. CallsInv'
  <2> SUFFICES ASSUME ~Failed', NEW f \in DOMAIN frames'
               PROVE  \E i \in Functions': control'[i].frame = f
    BY DEF CallsInv
  <2>1. Destructors' = Destructors /\ \A i \in Destructors: control'[i] = control[i]
    <3>1. \A i \in DOMAIN control: i # Len(control) =>
            i \in DOMAIN control' /\ control'[i] = control[i]
      BY <1>1, <1>3
    <3>2. DOMAIN control' \subseteq DOMAIN control
      BY <1>1, <1>3
    <3>. QED BY <1>2, <1>3, <3>1, <3>2 DEF Destructors
  <2>2. ~Failed
    BY <1>2, <2>1 DEF Failed
  <2>3. Top.frame = Len(frames)
    BY <1>2, <2>2 DEF Inv, CurrentInv, AtTop, Failed, Broken
  <2>4. f \in DOMAIN frames /\ f # Len(frames)
    BY <1>5
  <2>5. PICK i \in Functions: control[i].frame = f
    BY <2>2, <2>4 DEF Inv, CallsInv
  <2>6. i \in DOMAIN control /\ i # Len(control)
    BY <1>3, <2>3, <2>4, <2>5 DEF Functions
  <2>7. i \in DOMAIN control' /\ control'[i] = control[i]
    BY <1>1, <1>3, <2>6
  <2>. QED BY <2>5, <2>7 DEF Functions
<1>13. state' = "EXIT" => Destructors' = {}
  BY <1>1, <1>2, <1>3 DEF Inv, ExitInv, Destructors
<1>14. state' = "EXCEPTION" => raised' # "none" /\ result' = raised'
  BY <1>2 DEF Inv, ExceptionsInv
<1>15. Upset(state, thrown) => Upset(state', thrown')
  BY <1>2 DEF Upset
<1>16. \A f \in DOMAIN frames': f \in DOMAIN frames /\ frames'[f].variables = frames[f].variables
  BY <1>5
<1>17. Inv'
  BY <1>1, <1>2, <1>3, <1>5, <1>6, <1>7, <1>8, <1>9, <1>11, <1>12, <1>13, <1>14, <1>15, <1>16, PoppedKeeps
<1>18. Final
  BY <1>2, PoppedIsFinal DEF Broken
<1>. QED BY <1>17, <1>18

LEMMA DestructorEnds ==
  ASSUME Inv, control # <<>>, Top.kind = "destructor", control' = Front(control),
         UNCHANGED <<frames, result>>, thrown' = Top.thrown, raised' = Top.raised,
         state' = "RUNTIME_EXCEPTION" \/ (~thrown /\ state' = After(Top.state))
  PROVE  Inv' /\ Final
<1>1. PICK m: m = Len(control) - 1
  OBVIOUS
<1>2. /\ m \in Nat /\ Len(control) \in Nat \ {0} /\ DOMAIN control = 1 .. Len(control)
      /\ Top = control[Len(control)] /\ Top \in Levels /\ Len(control) \in DOMAIN control
      /\ control' \in Seq(Levels) /\ Len(control') = m /\ DOMAIN control' = 1 .. m
      /\ \A i \in 1 .. m: control'[i] = control[i]
      /\ control' # <<>> => m > 0 /\ Top' = control[m] /\ m \in DOMAIN control
  BY <1>1, PoppedFacts
<1>3. Top.state \in States /\ Top.thrown \in BOOLEAN /\ Top.raised \in Results /\ "RUNTIME_EXCEPTION" \in States
  BY <1>2, LevelTypes DEF States
<1>4. /\ state' \in States
      /\ state' # "RUNTIME_EXCEPTION" =>
           /\ ~Upset(state, thrown) /\ state' = Top.state /\ Top.state # "RUNTIME_EXCEPTION"
  BY <1>3 DEF After, Upset
<1>5. TypeOK'
  BY <1>2, <1>3, <1>4 DEF Inv, TypeOK
<1>6. /\ m > 0 /\ m \in DOMAIN control /\ control[m].kind \in VirtualScopes
      /\ control[m].kind \in Codes /\ control[m].kind # "destructor" /\ control[m].kind \in Statements
  <2>1. Len(control) > 1 /\ control[m].kind \in VirtualScopes
    BY <1>1, <1>2 DEF Inv, KindsInv, KindInv
  <2>. QED BY <1>1, <1>2, <2>1 DEF Codes, Statements, VirtualScopes
<1>7. m > 0 => RoomInv(m)'
  <2>1. m < Len(control) /\ control[m + 1] = Top /\ m = Len(control') /\ control'[m] = control[m]
    BY <1>1, <1>2, <1>6
  <2>2. Partly(control[m]) /\ (control[m].leaves \/ Top.thrown)
    BY <1>6, <2>1 DEF Inv, VariablesInv, RoomInv
  <2>3. Partly(control[m])'
    BY <2>1, <2>2 DEF Partly, Size, Variables
  <2>. QED BY <2>1, <2>2, <2>3 DEF RoomInv
<1>8. AtTop'
  <2> SUFFICES ASSUME ~Broken(state', thrown'), control' # <<>> PROVE control[m].frame = Len(frames)
    BY <1>2, <1>6 DEF AtTop
  <2>1. ~Broken(state, thrown) /\ ~Broken(Top.state, Top.thrown)
    BY <1>4 DEF Broken, Upset
  <2>. QED BY <1>1, <2>1 DEF Inv, CurrentInv, AtTop
<1>9. Obeys(state, Len(control) + 1)'
  <2>1. CASE state' = "RUNTIME_EXCEPTION"
    BY <2>1 DEF Obeys
  <2>2. CASE state' # "RUNTIME_EXCEPTION"
    <3>1. PICK s, n: s = Top.state /\ n = Len(control)
      OBVIOUS
    <3>2. Obeys(s, n) /\ TypeOK
      BY <1>2, <3>1 DEF Inv, JumpsInv, Destructors
    <3>3. m <= Len(control) /\ m <= Len(control') /\ n \in 1 .. m + 1
      BY <1>1, <1>2, <3>1
    <3>4. Obeys(s, n)'
      BY <1>2, <1>5, <3>2, <3>3, LoopsStay
    <3>5. n = Len(control') + 1
      BY <1>1, <1>2, <3>1
    <3>. QED BY <1>4, <2>2, <3>1, <3>4, <3>5 DEF Obeys, LoopUnder
  <2>. QED BY <2>1, <2>2
<1>10. thrown' => state' \in {"NORMAL", "RUNTIME_EXCEPTION"}
  <2>1. Top.thrown => Top.state \in {"NORMAL", "RUNTIME_EXCEPTION"}
    BY <1>2 DEF Inv, JumpsInv, Destructors
  <2>. QED BY <1>4, <2>1
<1>11. state' = "EXCEPTION" => raised' # "none" /\ result' = raised'
  <2> SUFFICES ASSUME state' = "EXCEPTION" PROVE raised' # "none" /\ result' = raised'
    OBVIOUS
  <2>1. ~Upset(state, thrown) /\ Top.state = "EXCEPTION"
    BY <1>4
  <2>2. PICK n: n = Len(control)
    OBVIOUS
  <2>3. ~Doomed(n)
    <3>1. \A j \in Destructors: ~(n < j)
      BY <1>2, <2>2 DEF Destructors
    <3>. QED BY <2>1, <3>1 DEF Doomed
  <2>4. n \in Destructors /\ control[n] = Top
    BY <1>2, <2>2 DEF Destructors
  <2>. QED BY <2>1, <2>3, <2>4 DEF Inv, ExceptionsInv
<1>12. /\ Upset(state, thrown) => Upset(state', thrown')
       /\ Upset(Top.state, Top.thrown) => Upset(state', thrown')
       /\ Broken(state, thrown) => Broken(state', thrown')
       /\ Broken(Top.state, Top.thrown) => Broken(state', thrown')
  BY <1>4 DEF Upset, Broken
<1>13. CallsInv'
  BY <1>12, PoppedCalls
<1>14. state' = "EXIT" => Destructors' = {}
  <2> SUFFICES ASSUME state' = "EXIT" PROVE Destructors' = {}
    OBVIOUS
  <2>1. Len(control) \in Destructors /\ Top.state = "EXIT"
    BY <1>2, <1>4 DEF Destructors
  <2>2. \A j \in Destructors: Len(control) <= j
    BY <1>2, <2>1 DEF Inv, ExitInv
  <2>3. \A j \in Destructors': j \in Destructors /\ j < Len(control)
    BY <1>1, <1>2 DEF Destructors
  <2>. QED BY <1>2, <2>2, <2>3 DEF Destructors
<1>15. \A i \in DOMAIN control': control[i].kind \in Codes => control[i].frame \in DOMAIN frames'
  BY <1>1, <1>2 DEF Inv, OrderInv
<1>16. Inv'
  BY <1>1, <1>5, <1>7, <1>8, <1>9, <1>10, <1>11, <1>12, <1>13, <1>14, <1>15, PoppedKeeps
<1>17. Final
  BY <1>4, <1>12, PoppedIsFinal
<1>. QED BY <1>16, <1>17

LEMMA DestructorFailsKeeps == ASSUME Legal, Inv, DestructorFails PROVE Inv' /\ Final
BY DestructorEnds DEF DestructorFails, In

(* A local variable is dropped.                                             *)
LEMMA PoppedVariables ==
  ASSUME TypeOK, NEW f \in DOMAIN frames, Len(Variables(f)) > 0,
         NEW G, G = [frames EXCEPT ![f].variables = Front(@)]
  PROVE  /\ G \in Seq(Frames) /\ Len(G) = Len(frames) /\ DOMAIN G = DOMAIN frames
         /\ Len(G[f].variables) = Len(Variables(f)) - 1
         /\ Last(Variables(f)) \in Chains \cup {0}
         /\ \A g \in DOMAIN frames: g # f => G[g] = frames[g]
<1>1. frames[f] \in Frames /\ frames \in Seq(Frames) /\ Variables(f) \in Seq(Chains \cup {0})
  BY TopFacts DEF TypeOK
<1>2. Variables(f) # <<>>
  OBVIOUS
<1>3. PICK v: v = Front(Variables(f))
  OBVIOUS
<1>4. /\ v \in Seq(Chains \cup {0}) /\ Len(v) = Len(Variables(f)) - 1
      /\ Last(Variables(f)) \in Chains \cup {0}
  BY <1>1, <1>2, <1>3, Shortened
<1>5. PICK d: d = [frames[f] EXCEPT !.variables = v]
  OBVIOUS
<1>6. d \in Frames /\ d.variables = v
  BY <1>1, <1>4, <1>5, Varied
<1>7. G = [frames EXCEPT ![f] = d]
  BY <1>3, <1>5 DEF Variables
<1>8. /\ G \in Seq(Frames) /\ Len(G) = Len(frames) /\ DOMAIN G = DOMAIN frames
      /\ G[f] = d /\ \A g \in DOMAIN frames: g # f => G[g] = frames[g]
  BY <1>1, <1>6, <1>7, Changed
<1>. QED BY <1>4, <1>6, <1>8

LEMMA PoppingFacts ==
  ASSUME Inv, In(VirtualScopes), Top.leaves \/ thrown, Len(Variables(Top.frame)) > Top.base,
         NEW G, G = [frames EXCEPT ![Top.frame].variables = Front(@)]
  PROVE  /\ control # <<>> /\ Len(control) \in Nat \ {0} /\ DOMAIN control = 1 .. Len(control)
         /\ Top = control[Len(control)] /\ Top \in Levels
         /\ Top.kind \in Codes /\ Top.kind \in Statements
         /\ Top.kind \notin {"function", "destructor", "throw"}
         /\ Top.frame \in DOMAIN frames /\ Top.base \in Nat /\ Top.declared \in Nat
         /\ G \in Seq(Frames) /\ Len(G) = Len(frames) /\ DOMAIN G = DOMAIN frames
         /\ Len(frames) \in Nat /\ DOMAIN frames = 1 .. Len(frames)
         /\ Top.base <= Len(G[Top.frame].variables)
         /\ Len(G[Top.frame].variables) <= Top.base + Top.declared
         /\ Last(Variables(Top.frame)) \in Chains \cup {0}
         /\ \A g \in DOMAIN frames: g # Top.frame => G[g] = frames[g]
<1>1. /\ control # <<>> /\ Top.kind \in VirtualScopes /\ Top.kind \in Codes /\ Top.kind \in Statements
      /\ Top.kind \notin {"function", "destructor", "throw"}
  BY DEF In, Codes, Statements, VirtualScopes
<1>2. /\ Len(control) \in Nat \ {0} /\ DOMAIN control = 1 .. Len(control) /\ Len(control) \in DOMAIN control
      /\ Top = control[Len(control)] /\ Top \in Levels
      /\ Len(frames) \in Nat /\ DOMAIN frames = 1 .. Len(frames)
  BY <1>1, TopFacts DEF Inv
<1>3. PICK f: f = Top.frame
  OBVIOUS
<1>4. f \in DOMAIN frames /\ Top.base \in Nat /\ Top.declared \in Nat
  BY <1>1, <1>2, <1>3, LevelTypes DEF Inv, OrderInv
<1>5. Len(Variables(f)) \in Nat /\ Len(Variables(f)) > Top.base
  BY <1>3, <1>4, TopFacts DEF Inv
<1>6. /\ G \in Seq(Frames) /\ Len(G) = Len(frames) /\ DOMAIN G = DOMAIN frames
      /\ Len(G[f].variables) = Len(Variables(f)) - 1
      /\ Last(Variables(f)) \in Chains \cup {0}
      /\ \A g \in DOMAIN frames: g # f => G[g] = frames[g]
  <2>1. Len(Variables(f)) > 0 /\ TypeOK
    BY <1>4, <1>5 DEF Inv
  <2>2. G = [frames EXCEPT ![f].variables = Front(@)]
    BY <1>3
  <2>. QED BY <1>4, <2>1, <2>2, PoppedVariables
<1>7. Partly(Top)
  BY <1>1, <1>2 DEF Inv, VariablesInv, RoomInv
<1>8. Len(Variables(f)) <= Top.base + Top.declared
  BY <1>3, <1>7 DEF Partly, Size
<1>9. Top.base <= Len(Variables(f)) - 1 /\ Len(Variables(f)) - 1 <= Top.base + Top.declared
  BY <1>4, <1>5, <1>8
<1>. QED BY <1>1, <1>2, <1>3, <1>4, <1>6, <1>9

LEMMA PoppingKeeps ==
  ASSUME Inv, In(VirtualScopes), Top.leaves \/ thrown, Len(Variables(Top.frame)) > Top.base,
         frames' = [frames EXCEPT ![Top.frame].variables = Front(@)],
         UNCHANGED <<control, result, thrown, raised>>, state' = state \/ state' = "RUNTIME_EXCEPTION"
  PROVE  Inv' /\ Final
<1> DEFINE n == Len(control)
<1>1. /\ control # <<>> /\ n \in Nat \ {0} /\ DOMAIN control = 1 .. n
      /\ Top = control[n] /\ Top \in Levels
      /\ Top.kind \in Codes /\ Top.kind \in Statements
      /\ Top.kind \notin {"function", "destructor", "throw"}
      /\ Top.frame \in DOMAIN frames /\ Top.base \in Nat /\ Top.declared \in Nat
      /\ frames' \in Seq(Frames) /\ Len(frames') = Len(frames) /\ DOMAIN frames' = DOMAIN frames
      /\ Top.base <= Len(frames'[Top.frame].variables)
      /\ Len(frames'[Top.frame].variables) <= Top.base + Top.declared
      /\ \A g \in DOMAIN frames: g # Top.frame => frames'[g] = frames[g]
  <2>1. PICK G: G = frames'
    OBVIOUS
  <2>2. G = [frames EXCEPT ![Top.frame].variables = Front(@)]
    BY <2>1
  <2>. QED BY <2>1, <2>2, PoppingFacts
<1>2. /\ control' = control /\ result' = result /\ thrown' = thrown /\ raised' = raised /\ Top' = Top
      /\ Destructors' = Destructors /\ Functions' = Functions
  BY DEF Top, Destructors, Functions
<1>3. TypeOK'
  BY <1>1, <1>2 DEF Inv, TypeOK, States
<1>4. KindsInv'
  BY <1>1, <1>2 DEF Inv, KindsInv, KindInv
<1>5. PlacesInv'
  BY <1>2 DEF Inv, PlacesInv, PlaceInv
<1>6. OrderInv'
  BY <1>1, <1>2 DEF Inv, OrderInv
<1>7. CurrentInv'
  BY <1>1, <1>2 DEF Inv, CurrentInv, AtTop, Broken
<1>8. VariablesInv'
  <2> SUFFICES ASSUME NEW i \in DOMAIN control, control[i].kind \in Statements PROVE RoomInv(i)'
    BY <1>2 DEF VariablesInv, RoomInv
  <2>1. CASE i = n
    <3>1. Partly(control[i])'
      BY <1>1, <1>2, <2>1 DEF Partly, Size, Variables
    <3>. QED BY <1>1, <1>2, <2>1, <3>1 DEF RoomInv
  <2>2. CASE i # n /\ control[i + 1].kind \in {"function", "destructor"}
    <3>1. control[i].kind \in Codes /\ i < n
      BY <1>1, <2>2 DEF Statements, Codes
    <3>2. control[i].frame \in DOMAIN frames /\ Top.frame \in DOMAIN frames
      BY <1>1, <3>1 DEF Inv, OrderInv
    <3>3. control[i].frame # Top.frame
      <4>1. control[i].frame < Top.frame
        BY <1>1, <2>2, <3>1, FramesApart
      <4>2. Top.frame \in Nat
        BY <1>1, LevelTypes
      <4>. QED BY <4>1, <4>2
    <3>4. frames'[control[i].frame] = frames[control[i].frame]
      BY <1>1, <3>2, <3>3
    <3>. QED BY <1>2, <2>2, <3>1, <3>4 DEF Inv, VariablesInv, RoomInv, Whole, Partly, Size, Variables
  <2>3. CASE i # n /\ control[i + 1].kind \notin {"function", "destructor"}
    BY <1>2, <2>3 DEF RoomInv
  <2>. QED BY <2>1, <2>2, <2>3
<1>9. JumpsInv'
  BY <1>2 DEF Inv, JumpsInv, Obeys, LoopUnder
<1>10. ExceptionsInv'
  BY <1>2 DEF Inv, ExceptionsInv, Doomed, Upset
<1>11. CallsInv'
  BY <1>1, <1>2 DEF Inv, CallsInv, Failed
<1>12. ExitInv'
  BY <1>2 DEF Inv, ExitInv
<1>13. Final
  BY <1>2 DEF Final, Failed, Exiting
<1>. QED BY <1>3, <1>4, <1>5, <1>6, <1>7, <1>8, <1>9, <1>10, <1>11, <1>12, <1>13 DEF Inv

-----------------------------------------------------------------------------

LEMMA GrownThrice ==
  ASSUME NEW S, NEW q \in Seq(S), NEW c \in S, NEW d \in S, NEW e \in S
  PROVE  /\ q \o <<c>> \o <<d, e>> \in Seq(S)
         /\ Len(q \o <<c>> \o <<d, e>>) = Len(q) + 3 /\ Len(q) \in Nat
         /\ DOMAIN q = 1 .. Len(q) /\ DOMAIN (q \o <<c>> \o <<d, e>>) = 1 .. Len(q) + 3
         /\ \A i \in 1 .. Len(q): (q \o <<c>> \o <<d, e>>)[i] = q[i]
         /\ (q \o <<c>> \o <<d, e>>)[Len(q) + 1] = c
         /\ (q \o <<c>> \o <<d, e>>)[Len(q) + 2] = d
         /\ (q \o <<c>> \o <<d, e>>)[Len(q) + 3] = e
<1>1. PICK r: r = q \o <<c>>
  OBVIOUS
<1>2. /\ r \in Seq(S) /\ Len(r) = Len(q) + 1 /\ Len(q) \in Nat /\ DOMAIN q = 1 .. Len(q)
      /\ \A i \in 1 .. Len(q): r[i] = q[i]
      /\ r[Len(q) + 1] = c
  BY <1>1
<1>3. /\ r \o <<d, e>> \in Seq(S)
      /\ Len(r \o <<d, e>>) = Len(r) + 2 /\ Len(r) \in Nat
      /\ DOMAIN (r \o <<d, e>>) = 1 .. Len(r) + 2
      /\ \A i \in 1 .. Len(r): (r \o <<d, e>>)[i] = r[i]
      /\ (r \o <<d, e>>)[Len(r) + 1] = d
      /\ (r \o <<d, e>>)[Len(r) + 2] = e
  BY <1>2, GrownTwice
<1>4. q \o <<c>> \o <<d, e>> = r \o <<d, e>>
  BY <1>1
<1>. QED BY <1>2, <1>3, <1>4

(* A destructor d begins above the first m calls. *)
LEMMA DestroyingKeeps ==
  ASSUME Inv, TypeOK', NEW m \in 1 .. Len(control), NEW d \in Levels, NEW p \in Levels, NEW q \in Levels,
         Len(control') = m + 3, \A i \in 1 .. m: control'[i] = control[i],
         control'[m + 1] = d, control'[m + 2] = p, control'[m + 3] = q,
         \A j \in DOMAIN control: j > m => control[j].kind = "destructor",
         control[m].kind \in VirtualScopes,
         d.kind = "destructor",
         p.kind = "function", p.frame = Len(frames'), p.base = 0, p.declared = 0, ~p.leaves,
         q.kind = "scope", q.frame = Len(frames'), q.base = 0, q.declared = 0, ~q.leaves,
         Len(frames') = Len(frames) + 1, Len(frames'[Len(frames')].variables) = 0,
         \A i \in 1 .. m - 1:
           control[i].kind \in Statements /\ control[i + 1].kind \in {"function", "destructor"}
           => frames'[control[i].frame].variables = frames[control[i].frame].variables,
         control[m].base <= Len(frames'[control[m].frame].variables),
         Len(frames'[control[m].frame].variables) <= control[m].base + control[m].declared,
         control[m].leaves \/ d.thrown,
         state' = "NORMAL", ~thrown', result' = result,
         ~Broken(d.state, d.thrown) => control[m].frame = Len(frames),
         Obeys(d.state, m + 1),
         d.thrown => d.state \in {"NORMAL", "RUNTIME_EXCEPTION"},
         d.state = "EXCEPTION" => d.raised # "none" /\ result = d.raised,
         Upset(state, thrown) => Upset(d.state, d.thrown),
         Broken(state, thrown) => Broken(d.state, d.thrown),
         \A j \in Destructors: j > m /\ Upset(control[j].state, control[j].thrown)
                               => Upset(d.state, d.thrown),
         \A j \in Destructors: j > m /\ Broken(control[j].state, control[j].thrown)
                               => Broken(d.state, d.thrown),
         d.state = "EXIT" => \A j \in Destructors: j > m,
         state = "EXIT" /\ Destructors = {} => d.state = "EXIT",
         \A j \in Destructors: j > m /\ control[j].state = "EXIT" => d.state \in {"EXIT", "RUNTIME_EXCEPTION"}
  PROVE  Inv' /\ Final
<1>1. /\ Len(control) \in Nat \ {0} /\ DOMAIN control = 1 .. Len(control)
      /\ m \in Nat \ {0} /\ m <= Len(control)
      /\ DOMAIN control' = 1 .. m + 3
      /\ \A i \in DOMAIN control': i < m \/ i = m \/ i = m + 1 \/ i = m + 2 \/ i = m + 3
  <2>1. Len(control) \in Nat /\ DOMAIN control = 1 .. Len(control) /\ DOMAIN control' = 1 .. Len(control')
    BY DEF Inv, TypeOK
  <2>. QED BY <2>1
<1>2. /\ m \in DOMAIN control /\ control'[m] = control[m]
      /\ \A i \in DOMAIN control': i <= m => i \in DOMAIN control /\ control'[i] = control[i]
      /\ \A i \in DOMAIN control': i < m =>
           /\ i + 1 \in DOMAIN control /\ control'[i + 1] = control[i + 1]
           /\ i < Len(control) /\ i < Len(control')
  BY <1>1
<1>3. /\ Len(frames) \in Nat /\ DOMAIN frames = 1 .. Len(frames) /\ DOMAIN frames' = 1 .. Len(frames) + 1
      /\ DOMAIN frames \subseteq DOMAIN frames' /\ Len(frames) + 1 \in DOMAIN frames'
  <2>1. /\ Len(frames) \in Nat /\ DOMAIN frames = 1 .. Len(frames) /\ DOMAIN frames' = 1 .. Len(frames')
    BY DEF Inv, TypeOK
  <2>. QED BY <2>1
<1>4. /\ control[m].kind \in Statements /\ control[m].kind \in Codes
      /\ control[m].kind \notin {"function", "destructor", "throw"}
      /\ "function" \in Codes /\ "function" \notin Statements /\ "function" \notin VirtualScopes
      /\ "destructor" \notin Codes /\ "destructor" \notin Statements /\ "destructor" \notin VirtualScopes
      /\ "scope" \in Statements /\ "scope" \in Codes /\ "scope" \in VirtualScopes
      /\ VirtualScopes \subseteq Statements /\ Statements \subseteq Codes
  BY DEF Statements, Codes, VirtualScopes
<1>5. /\ Destructors' = {i \in Destructors: i <= m} \cup {m + 1}
      /\ Functions \cup {m + 2} = Functions'
  <2>1. \A i \in DOMAIN control: i <= m => i \in DOMAIN control' /\ control'[i] = control[i]
    BY <1>1
  <2>2. \A i \in DOMAIN control: control[i].kind = "function" => i <= m
    BY <1>1
  <2>3. m + 1 \in DOMAIN control' /\ m + 2 \in DOMAIN control' /\ m + 3 \in DOMAIN control'
    BY <1>1
  <2>4. \A i \in DOMAIN control: i <= m \/ i > m
    BY <1>1
  <2>5. \A i \in Destructors': i = m + 1 \/ (i \in Destructors /\ i <= m)
    BY <1>1, <1>2, <1>4 DEF Destructors
  <2>6. \A i \in Destructors: i <= m => i \in Destructors'
    BY <2>1 DEF Destructors
  <2>7. m + 1 \in Destructors' /\ m + 2 \in Functions'
    BY <2>3 DEF Destructors, Functions
  <2>8. \A i \in Functions': i = m + 2 \/ i \in Functions
    BY <1>1, <1>2, <1>4 DEF Functions
  <2>9. \A i \in Functions: i \in Functions'
    BY <2>1, <2>2 DEF Functions
  <2>. QED BY <2>5, <2>6, <2>7, <2>8, <2>9
<1>6. KindsInv'
  <2> SUFFICES ASSUME NEW i \in DOMAIN control' PROVE KindInv(i)'
    BY DEF KindsInv
  <2>1. CASE i < m
    <3>1. KindInv(i) /\ control'[i] = control[i] /\ control'[i + 1] = control[i + 1]
          /\ i < Len(control) /\ i < Len(control')
      BY <1>2, <2>1 DEF Inv, KindsInv
    <3>2. i > 1 => control'[i - 1] = control[i - 1]
      BY <1>1, <1>2, <2>1
    <3>. QED BY <3>1, <3>2, <1>1 DEF KindInv
  <2>2. CASE i = m
    <3>1. KindInv(m) /\ control'[i] = control[m] /\ control'[i + 1] = d
      BY <1>2, <2>2 DEF Inv, KindsInv
    <3>2. i > 1 => control'[i - 1] = control[i - 1]
      BY <1>1, <1>2, <2>2
    <3>. QED BY <1>4, <2>2, <3>1, <3>2 DEF KindInv
  <2>3. CASE i = m + 1
    BY <1>1, <1>2, <1>4, <2>3 DEF KindInv
  <2>4. CASE i = m + 2
    BY <1>1, <1>4, <2>4 DEF KindInv
  <2>5. CASE i = m + 3
    BY <1>1, <1>4, <2>5 DEF KindInv
  <2>. QED BY <1>1, <2>1, <2>2, <2>3, <2>4, <2>5
<1>7. PlacesInv'
  <2> SUFFICES ASSUME NEW i \in DOMAIN control' PROVE PlaceInv(i)'
    BY DEF PlacesInv
  <2>1. CASE i <= m
    <3>1. PlaceInv(i) /\ KindInv(i) /\ control'[i] = control[i]
      BY <1>2, <2>1 DEF Inv, PlacesInv, KindsInv
    <3>2. i > 1 => control'[i - 1] = control[i - 1]
      BY <1>1, <1>2, <2>1
    <3>. QED BY <3>1, <3>2 DEF PlaceInv, KindInv
  <2>2. CASE i = m + 1
    BY <1>4, <2>2 DEF PlaceInv
  <2>3. CASE i = m + 2
    BY <1>4, <2>3 DEF PlaceInv
  <2>4. CASE i = m + 3
    <3>1. control'[i - 1] = p /\ control'[i] = q
      BY <1>1, <2>4
    <3>. QED BY <1>4, <3>1 DEF PlaceInv
  <2>. QED BY <1>1, <2>1, <2>2, <2>3, <2>4
<1>8. OrderInv'
  <2>1. \A i \in DOMAIN control': control'[i].kind \in Codes => control'[i].frame \in DOMAIN frames'
    <3> SUFFICES ASSUME NEW i \in DOMAIN control', control'[i].kind \in Codes
                 PROVE  control'[i].frame \in DOMAIN frames'
      OBVIOUS
    <3>1. CASE i <= m
      BY <1>2, <1>3, <3>1 DEF Inv, OrderInv
    <3>2. CASE i > m
      BY <1>1, <1>3, <1>4, <3>2
    <3>. QED BY <1>1, <3>1, <3>2
  <2>2. ASSUME NEW i \in DOMAIN control', NEW j \in DOMAIN control', NEW k \in DOMAIN control',
               i < j, j <= k, control'[j].kind = "function",
               control'[i].kind \in Codes, control'[k].kind \in Codes
        PROVE  control'[i].frame < control'[k].frame
    <3>1. CASE k <= m
      <4>1. i <= m /\ j <= m
        BY <1>1, <2>2, <3>1
      <4>. QED BY <1>2, <2>2, <3>1, <4>1 DEF Inv, OrderInv
    <3>2. CASE k > m
      <4>1. i <= m
        <5>1. i # m + 1
          BY <1>4, <2>2
        <5>2. j # m + 3
          BY <2>2
        <5>. QED BY <1>1, <2>2, <5>1, <5>2
      <4>2. control'[i].frame \in 1 .. Len(frames)
        BY <1>2, <1>3, <2>2, <4>1 DEF Inv, OrderInv
      <4>3. k # m + 1
        BY <1>4, <2>2
      <4>4. k = m + 2 \/ k = m + 3
        BY <1>1, <3>2, <4>3
      <4>5. control'[k].frame = Len(frames) + 1
        BY <4>4
      <4>. QED BY <1>3, <4>2, <4>5
    <3>. QED BY <1>1, <3>1, <3>2
  <2>. QED BY <2>1, <2>2 DEF OrderInv
<1>9. CurrentInv'
  <2>1. ASSUME NEW i \in DOMAIN control', control'[i].kind \in Codes, i < Len(control'),
               control'[i + 1].kind = "function"
        PROVE  control'[i].frame = control'[i + 1].frame - 1
    <3>1. i < m
      <4>1. i # m /\ i # m + 1 /\ i # m + 2 /\ i # m + 3
        BY <1>1, <1>4, <2>1
      <4>. QED BY <1>1, <4>1
    <3>2. /\ i \in DOMAIN control /\ control'[i] = control[i] /\ control'[i + 1] = control[i + 1]
          /\ i < Len(control)
      BY <1>2, <3>1
    <3>3. control[i].kind \in Codes /\ control[i + 1].kind = "function"
      BY <2>1, <3>2
    <3>4. control[i].frame = control[i + 1].frame - 1
      BY <3>2, <3>3 DEF Inv, CurrentInv
    <3>. QED BY <3>2, <3>4
  <2>2. ASSUME NEW i \in DOMAIN control', i < Len(control'),
               control'[i].kind = "destructor", ~Broken(control'[i].state, control'[i].thrown)
        PROVE  control'[i - 1].frame = control'[i + 1].frame - 1
    <3>1. CASE i < m
      <4>1. i > 1 /\ control'[i - 1] = control[i - 1]
        BY <1>1, <1>2, <2>2, <3>1 DEF Inv, KindsInv, KindInv
      <4>2. /\ i \in DOMAIN control /\ control'[i] = control[i] /\ control'[i + 1] = control[i + 1]
            /\ i < Len(control)
        BY <1>2, <3>1
      <4>3. control[i].kind = "destructor" /\ ~Broken(control[i].state, control[i].thrown)
        BY <2>2, <4>2
      <4>4. control[i - 1].frame = control[i + 1].frame - 1
        BY <4>2, <4>3 DEF Inv, CurrentInv
      <4>. QED BY <4>1, <4>2, <4>4
    <3>2. i # m
      BY <1>2, <1>4, <2>2
    <3>3. CASE i = m + 1
      <4>1. i - 1 = m /\ i + 1 = m + 2
        BY <1>1, <3>3
      <4>. QED BY SMTT(40), <1>2, <1>3, <2>2, <3>3, <4>1
    <3>4. i # m + 2 /\ i # m + 3
      BY <1>1, <2>2
    <3>. QED BY <1>1, <3>1, <3>2, <3>3, <3>4
  <2>3. Top' = q /\ q.kind # "destructor" /\ q.frame = Len(frames')
    BY <1>1 DEF Top, Last
  <2>. QED BY <2>1, <2>2, <2>3 DEF CurrentInv, AtTop
<1>10. VariablesInv'
  <2> SUFFICES ASSUME NEW i \in DOMAIN control', control'[i].kind \in Statements PROVE RoomInv(i)'
    BY DEF VariablesInv, RoomInv
  <2>1. CASE i < m /\ control[i + 1].kind \in {"function", "destructor"}
    <3>1. /\ control'[i] = control[i] /\ control'[i + 1] = control[i + 1]
          /\ i < Len(control) /\ i < Len(control') /\ i # Len(control') /\ i \in DOMAIN control
          /\ i \in 1 .. m - 1
      BY <1>1, <1>2, <2>1
    <3>2. frames'[control[i].frame].variables = frames[control[i].frame].variables
      BY <2>1, <3>1
    <3>. QED BY SMTT(40), <3>1, <3>2 DEF Inv, VariablesInv, RoomInv, Whole, Partly, Size, Variables
  <2>2. CASE i < m /\ control[i + 1].kind \notin {"function", "destructor"}
    BY <1>1, <1>2, <2>2 DEF RoomInv
  <2>3. CASE i = m
    <3>1. Partly(control[i])'
      BY <1>2, <2>3 DEF Partly, Size, Variables
    <3>2. control'[i] = control[m] /\ control'[i + 1] = d /\ i # Len(control')
      BY <1>1, <1>2, <2>3
    <3>. QED BY <3>1, <3>2 DEF RoomInv
  <2>4. i # m + 1 /\ i # m + 2
    BY <1>4
  <2>5. CASE i = m + 3
    <3>1. Len(frames'[q.frame].variables) = q.base + q.declared
      OBVIOUS
    <3>2. control'[i] = q /\ i = Len(control')
      BY <2>5
    <3>3. Whole(control[i])' /\ ~control'[i].leaves
      BY <3>1, <3>2 DEF Whole, Size, Variables
    <3>. QED BY <3>2, <3>3 DEF RoomInv
  <2>. QED BY <1>1, <2>1, <2>2, <2>3, <2>4, <2>5
<1>11. JumpsInv'
  <2>1. m <= Len(control') /\ TypeOK
    BY <1>1 DEF Inv
  <2>2. \A i \in Destructors: i <= m =>
           /\ Obeys(control[i].state, i)'
           /\ control'[i].thrown => control'[i].state \in {"NORMAL", "RUNTIME_EXCEPTION"}
    <3>1. PICK o \in Nat: o = m
      BY <1>1
    <3>2. \A i \in Destructors: i <= o => i \in 1 .. o
      BY <1>1, <3>1 DEF Destructors
    <3>3. ASSUME NEW i \in Destructors, i <= m
          PROVE  /\ Obeys(control[i].state, i)'
                 /\ control'[i].thrown => control'[i].state \in {"NORMAL", "RUNTIME_EXCEPTION"}
      <4>1. control'[i] = control[i] /\ i \in 1 .. m + 1
        BY <1>1, <3>1, <3>2, <3>3
      <4>2. PICK s: s = control[i].state
        OBVIOUS
      <4>3. Obeys(s, i)
        BY <4>2 DEF Inv, JumpsInv
      <4>4. Obeys(s, i)'
        BY <1>1, <2>1, <4>1, <4>3, LoopsStay
      <4>5. Obeys(control[i].state, i)'
        BY <4>1, <4>2, <4>4 DEF Obeys
      <4>. QED BY <4>1, <4>5 DEF Inv, JumpsInv
    <3>. QED BY <3>3
  <2>3. Obeys(control[m + 1].state, m + 1)'
    <3>1. PICK s: s = d.state
      OBVIOUS
    <3>2. m + 1 \in 1 .. m + 1 /\ Obeys(s, m + 1)
      BY <1>1, <3>1
    <3>3. Obeys(s, m + 1)'
      BY <1>1, <2>1, <3>2, LoopsStay
    <3>. QED BY <3>1, <3>3 DEF Obeys
  <2>. QED BY <1>5, <2>2, <2>3 DEF JumpsInv, Obeys
<1>12. ExceptionsInv'
  <2>1. \A i \in Destructors: i <= m => i \in DOMAIN control' /\ control'[i] = control[i] /\ i < m + 1
    BY <1>1 DEF Destructors
  <2>2. m + 1 \in Destructors'
    BY <1>5
  <2>3. Upset(d.state, d.thrown) => \A i \in Destructors: i <= m => Doomed(i)'
    BY <2>1, <2>2 DEF Doomed
  <2>4. ASSUME NEW i \in Destructors, i <= m, Doomed(i) PROVE Doomed(i)'
    <3>1. CASE Upset(d.state, d.thrown)
      BY <2>3, <2>4, <3>1
    <3>2. CASE ~Upset(d.state, d.thrown)
      <4>1. PICK j \in Destructors: i < j /\ Upset(control[j].state, control[j].thrown)
        BY <2>4, <3>2 DEF Doomed
      <4>2. j <= m
        BY <1>1, <3>2, <4>1 DEF Destructors
      <4>. QED BY <1>5, <2>1, <4>1, <4>2 DEF Doomed
    <3>. QED BY <3>1, <3>2
  <2>5. \A k \in DOMAIN control': control'[k].kind = "try" => k <= m
    BY <1>1, <1>4
  <2>6. ASSUME NEW i \in Destructors', control'[i].state = "EXCEPTION"
        PROVE  /\ control'[i].raised # "none"
               /\ result' = control'[i].raised \/ Doomed(i)'
               /\ \A k \in DOMAIN control': control'[k].kind = "try" => k < i
    <3>1. CASE i = m + 1
      BY <1>1, <2>5, <2>6, <3>1
    <3>2. CASE i \in Destructors /\ i <= m
      <4>1. control'[i] = control[i]
        BY <2>1, <3>2
      <4>2. /\ control[i].raised # "none"
            /\ result = control[i].raised \/ Doomed(i)
            /\ \A k \in DOMAIN control: control[k].kind = "try" => k < i
        BY <2>6, <3>2, <4>1 DEF Inv, ExceptionsInv
      <4>3. \A k \in DOMAIN control': control'[k].kind = "try" => k < i
        BY <1>2, <2>5, <4>2
      <4>. QED BY <2>4, <3>2, <4>1, <4>2, <4>3
    <3>. QED BY <1>5, <3>1, <3>2
  <2>. QED BY <2>6 DEF ExceptionsInv
<1>13. CallsInv'
  <2> SUFFICES ASSUME ~Failed', NEW f \in DOMAIN frames'
               PROVE  \E i \in Functions': control'[i].frame = f
    BY DEF CallsInv
  <2>1. ~Failed
    <3>1. ~Broken(d.state, d.thrown)
      BY <1>5 DEF Failed, Broken
    <3>2. \A j \in Destructors: ~Broken(control[j].state, control[j].thrown)
      <4> TAKE j \in Destructors
      <4>1. CASE j > m
        BY <3>1, <4>1
      <4>2. CASE j <= m
        BY <1>1, <1>5, <4>2 DEF Failed, Broken, Destructors
      <4>. QED BY <1>1, <4>1, <4>2 DEF Destructors
    <3>. QED BY <3>1, <3>2 DEF Failed, Broken
  <2>2. CASE f = Len(frames) + 1
    BY <1>5, <2>2
  <2>3. CASE f \in DOMAIN frames
    <3>1. PICK i \in Functions: control[i].frame = f
      BY <2>1, <2>3 DEF Inv, CallsInv
    <3>2. i \in Functions' /\ control'[i] = control[i]
      BY <1>1, <1>5 DEF Functions
    <3>. QED BY <3>1, <3>2
  <2>. QED BY <1>3, <2>2, <2>3
<1>14. ExitInv'
  <2>1. \A i \in Destructors: i <= m => control'[i] = control[i] /\ i <= m + 1
    BY <1>1 DEF Destructors
  <2>2. \A j \in Destructors: j \in Nat
    BY <1>1 DEF Destructors
  <2>. QED BY <1>1, <1>5, <2>1, <2>2 DEF Inv, ExitInv
<1>15. Final
  <2>1. \A i \in Destructors: i <= m => i \in Destructors' /\ control'[i] = control[i] /\ i <= m + 1
    BY <1>1, <1>5 DEF Destructors
  <2>2. m + 1 \in Destructors' /\ control'[m + 1] = d /\ \A i \in Destructors: i <= m \/ i > m
    BY <1>1, <1>5 DEF Destructors
  <2>3. Failed => Failed'
    <3>1. CASE thrown \/ state = "RUNTIME_EXCEPTION"
      BY <2>2, <3>1 DEF Failed, Broken
    <3>2. ASSUME NEW j \in Destructors, control[j].thrown \/ control[j].state = "RUNTIME_EXCEPTION"
          PROVE  Failed'
      BY <2>1, <2>2, <3>2 DEF Failed, Broken
    <3>. QED BY <3>1, <3>2 DEF Failed
  <2>4. CASE Destructors = {} /\ state = "EXIT"
    <3>1. Destructors' = {m + 1}
      BY <1>5, <2>4
    <3>. QED BY <1>1, <2>2, <2>3, <2>4, <3>1 DEF Final, Exiting
  <2>5. ASSUME NEW i \in Destructors, control[i].state = "EXIT", \A j \in Destructors: i <= j
        PROVE  Exiting' \/ Failed'
    <3>1. CASE i <= m
      <4>1. \A j \in Destructors': i <= j
        BY <1>5, <2>1, <2>5, <3>1
      <4>. QED BY <2>1, <2>5, <3>1, <4>1 DEF Exiting
    <3>2. CASE i > m
      <4>1. \A j \in Destructors: ~(j <= m)
        BY <1>1, <2>5, <3>2 DEF Destructors
      <4>2. Destructors' = {m + 1}
        BY <1>5, <4>1
      <4>3. d.state \in {"EXIT", "RUNTIME_EXCEPTION"}
        BY <2>5, <3>2
      <4>. QED BY <1>1, <2>2, <4>2, <4>3 DEF Exiting, Failed
    <3>. QED BY <2>2, <3>1, <3>2
  <2>. QED BY <2>3, <2>4, <2>5 DEF Final, Exiting
<1>. QED BY <1>6, <1>7, <1>8, <1>9, <1>10, <1>11, <1>12, <1>13, <1>14, <1>15 DEF Inv

(* The calls of a function's body.                                          *)
LEMMA Bodies ==
  ASSUME NEW f \in Nat
  PROVE  /\ Scope("function", f, 0) \in Levels /\ Scope("scope", f, 0) \in Levels
         /\ Scope("function", f, 0).kind = "function" /\ Scope("scope", f, 0).kind = "scope"
         /\ Scope("function", f, 0).frame = f /\ Scope("scope", f, 0).frame = f
         /\ Scope("function", f, 0).base = 0 /\ Scope("scope", f, 0).base = 0
         /\ Scope("function", f, 0).declared = 0 /\ Scope("scope", f, 0).declared = 0
         /\ ~Scope("function", f, 0).leaves /\ ~Scope("scope", f, 0).leaves
<1>1. "function" \in Codes /\ "scope" \in Codes
  BY DEF Codes, VirtualScopes
<1>. QED BY <1>1, ScopeTypes

LEMMA PopKeeps == ASSUME Legal, Inv, Pop PROVE Inv' /\ Final
<1>1. PICK f, G, chain:
        /\ f = Top.frame /\ G = [frames EXCEPT ![Top.frame].variables = Front(@)]
        /\ chain = Last(Variables(Top.frame))
  OBVIOUS
<1>2. In(VirtualScopes) /\ (Top.leaves \/ thrown) /\ Len(Variables(Top.frame)) > Top.base
  BY DEF Pop
<1>6. IF chain = 0 \/ state = "RUNTIME_EXCEPTION"
      THEN frames' = G /\ UNCHANGED <<control, state, result, thrown, raised>>
      ELSE /\ frames' = IF Len(frames) = MaxFrames THEN G ELSE Append(G, NewFrame)
           /\ Destroy([kind |-> "destructor", state |-> state, thrown |-> thrown,
                       raised |-> raised, rest |-> 0], chain - 1, control)
  BY <1>1 DEF Pop
<1>3. CASE chain = 0 \/ state = "RUNTIME_EXCEPTION"
  <2>1. frames' = G /\ UNCHANGED <<control, state, result, thrown, raised>>
    BY <1>3, <1>6
  <2>. QED BY <1>1, <1>2, <2>1, PoppingKeeps
<1>4. CASE ~(chain = 0 \/ state = "RUNTIME_EXCEPTION") /\ Len(frames) = MaxFrames
  <2>1. /\ frames' = G /\ control' = control /\ result' = result /\ state' = "RUNTIME_EXCEPTION"
        /\ thrown' = thrown /\ raised' = raised
    BY <1>4, <1>6 DEF Destroy
  <2>. QED BY <1>1, <1>2, <2>1, PoppingKeeps
<1>5. CASE ~(chain = 0 \/ state = "RUNTIME_EXCEPTION") /\ Len(frames) # MaxFrames
  <2>1. PICK old, d, p, q:
          /\ old = [kind |-> "destructor", state |-> state, thrown |-> thrown, raised |-> raised, rest |-> 0]
          /\ d = [old EXCEPT !.rest = chain - 1]
          /\ p = Scope("function", Len(frames) + 1, 0) /\ q = Scope("scope", Len(frames) + 1, 0)
    OBVIOUS
  <2>2. /\ frames' = Append(G, NewFrame) /\ control' = control \o <<d>> \o <<p, q>>
        /\ state' = "NORMAL" /\ thrown' = FALSE /\ raised' = "none" /\ result' = result
    BY <1>5, <1>6, <2>1 DEF Destroy, Body
  <2>3. PICK m: m = Len(control)
    OBVIOUS
  <2>4. /\ control # <<>> /\ m \in Nat \ {0} /\ DOMAIN control = 1 .. m
        /\ Top = control[m] /\ Top \in Levels
        /\ Top.kind \in Codes /\ Top.kind \in Statements /\ Top.kind \in VirtualScopes
        /\ f \in DOMAIN frames
        /\ G \in Seq(Frames) /\ Len(G) = Len(frames) /\ DOMAIN G = DOMAIN frames
        /\ Len(frames) \in Nat /\ DOMAIN frames = 1 .. Len(frames)
        /\ Top.base <= Len(G[f].variables)
        /\ Len(G[f].variables) <= Top.base + Top.declared
        /\ chain \in Chains \cup {0}
        /\ \A g \in DOMAIN frames: g # f => G[g] = frames[g]
    <3>1. Top.kind \in VirtualScopes
      BY <1>2 DEF In
    <3>. QED BY <1>1, <1>2, <2>3, <3>1, PoppingFacts
  <2>5. /\ state \in States /\ raised \in Results /\ thrown \in BOOLEAN
        /\ control \in Seq(Levels) /\ frames \in Seq(Frames) /\ result \in Results
        /\ "NORMAL" \in States /\ "none" \in Results
    BY DEF Inv, TypeOK, States, Results
  <2>6. /\ d \in Levels /\ d.kind = "destructor" /\ d.state = state /\ d.thrown = thrown
        /\ d.raised = raised
    <3>1. chain \in Nat \ {0}
      BY <1>5, <2>4 DEF Legal
    <3>2. PICK n \in Nat: n = chain - 1
      BY <3>1
    <3>3. old \in Levels /\ old.kind = "destructor" /\ old.state = state /\ old.thrown = thrown /\ old.raised = raised
      BY <2>1, <2>5 DEF Levels
    <3>4. d = [old EXCEPT !.rest = n]
      BY <2>1, <3>2
    <3>. QED BY <3>3, <3>4, Rested
  <2>7. /\ p \in Levels /\ p.kind = "function" /\ p.frame = Len(frames) + 1 /\ p.base = 0 /\ p.declared = 0
        /\ ~p.leaves
        /\ q \in Levels /\ q.kind = "scope" /\ q.frame = Len(frames) + 1 /\ q.base = 0 /\ q.declared = 0
        /\ ~q.leaves
    <3>1. PICK n \in Nat: n = Len(frames) + 1
      BY <2>4
    <3>2. p = Scope("function", n, 0) /\ q = Scope("scope", n, 0)
      BY <2>1, <3>1
    <3>. QED BY <3>1, <3>2, Bodies
  <2>8. /\ control' \in Seq(Levels) /\ Len(control') = m + 3
        /\ \A i \in 1 .. m: control'[i] = control[i]
        /\ control'[m + 1] = d /\ control'[m + 2] = p /\ control'[m + 3] = q
    BY <2>2, <2>3, <2>5, <2>6, <2>7, GrownThrice
  <2>9. /\ frames' \in Seq(Frames) /\ Len(frames') = Len(frames) + 1
        /\ \A g \in DOMAIN frames: frames'[g] = G[g]
        /\ Len(frames'[Len(frames')].variables) = 0
    <3>1. NewFrame \in Frames /\ Len(NewFrame.variables) = 0
      BY NewFrameFacts
    <3>2. /\ frames' \in Seq(Frames) /\ Len(frames') = Len(G) + 1 /\ DOMAIN G = 1 .. Len(G)
          /\ \A g \in 1 .. Len(G): frames'[g] = G[g]
          /\ frames'[Len(G) + 1] = NewFrame
      <4>1. frames' = Append(G, NewFrame) /\ G \in Seq(Frames) /\ NewFrame \in Frames
        BY <2>2, <2>4, <3>1
      <4>2. /\ Append(G, NewFrame) \in Seq(Frames) /\ Len(Append(G, NewFrame)) = Len(G) + 1 /\ DOMAIN G = 1 .. Len(G)
            /\ \A g \in 1 .. Len(G): Append(G, NewFrame)[g] = G[g]
            /\ Append(G, NewFrame)[Len(G) + 1] = NewFrame
        BY ONLY <4>1, Grown
      <4>. QED BY ONLY <4>1, <4>2
    <3>. QED BY <2>4, <3>1, <3>2
  <2>10. TypeOK'
    BY <2>2, <2>5, <2>8, <2>9 DEF TypeOK
  <2>11. \A i \in 1 .. m - 1:
           control[i].kind \in Statements /\ control[i + 1].kind \in {"function", "destructor"}
           => frames'[control[i].frame].variables = frames[control[i].frame].variables
    <3> SUFFICES ASSUME NEW i \in 1 .. m - 1, control[i].kind \in Statements,
                        control[i + 1].kind \in {"function", "destructor"}
                 PROVE  frames'[control[i].frame] = frames[control[i].frame]
      OBVIOUS
    <3>1. i \in DOMAIN control /\ i < Len(control) /\ control[i].kind \in Codes
      BY <2>3, <2>4 DEF Statements, Codes
    <3>2. control[i].frame < Top.frame
      BY <2>4, <3>1, FramesApart
    <3>3. control[i].frame \in DOMAIN frames /\ control[i].frame # f
      BY <1>1, <2>4, <3>1, <3>2 DEF Inv, OrderInv
    <3>. QED BY <2>4, <2>9, <3>3
  <2>12. /\ control[m].base <= Len(frames'[control[m].frame].variables)
         /\ Len(frames'[control[m].frame].variables) <= control[m].base + control[m].declared
         /\ control[m].leaves \/ d.thrown
    BY <1>1, <1>2, <2>4, <2>6, <2>9
  <2>13. ~Broken(d.state, d.thrown) => control[m].frame = Len(frames)
    <3>1. Top.kind # "destructor"
      BY <2>4 DEF VirtualScopes
    <3>. QED BY <2>4, <2>6, <3>1 DEF Inv, CurrentInv, AtTop
  <2>14. /\ Obeys(d.state, m + 1)
         /\ d.thrown => d.state \in {"NORMAL", "RUNTIME_EXCEPTION"}
    BY <2>3, <2>6 DEF Inv, JumpsInv
  <2>15. d.state = "EXCEPTION" => d.raised # "none" /\ result = d.raised
    BY <2>6 DEF Inv, ExceptionsInv
  <2>16. /\ Upset(state, thrown) => Upset(d.state, d.thrown)
         /\ Broken(state, thrown) => Broken(d.state, d.thrown)
    BY <2>6
  <2>17. /\ d.state = "EXIT" => \A j \in Destructors: j > m
         /\ state = "EXIT" => d.state = "EXIT"
    BY <2>6 DEF Inv, ExitInv
  <2>18. /\ m \in 1 .. Len(control) /\ \A j \in DOMAIN control: ~(j > m) /\ j \in Nat
         /\ \A j \in Destructors: ~(j > m)
    BY <2>3, <2>4 DEF Destructors
  <2>. QED BY ZenonT(60), <2>2, <2>4, <2>6, <2>7, <2>8, <2>9, <2>10, <2>11, <2>12, <2>13, <2>14, <2>15, <2>16, <2>17,
              <2>18, DestroyingKeeps
<1>. QED BY <1>3, <1>4, <1>5

LEMMA DestructorReturnsKeeps == ASSUME Legal, Inv, DestructorReturns PROVE Inv' /\ Final
<1>1. control # <<>> /\ Top.kind = "destructor" /\ ~thrown
  BY DEF DestructorReturns, In
<1>2. /\ Len(control) \in Nat \ {0} /\ DOMAIN control = 1 .. Len(control) /\ Len(control) \in DOMAIN control
      /\ Top = control[Len(control)] /\ Top \in Levels
      /\ Len(frames) \in Nat /\ DOMAIN frames = 1 .. Len(frames)
  BY <1>1, TopFacts DEF Inv
<1>3. /\ Top.state \in States /\ Top.thrown \in BOOLEAN /\ Top.raised \in Results /\ Top.rest \in Nat
      /\ state \in States /\ control \in Seq(Levels) /\ frames \in Seq(Frames) /\ result \in Results
      /\ "NORMAL" \in States /\ "none" \in Results /\ "RUNTIME_EXCEPTION" \in States
  BY <1>1, <1>2, LevelTypes DEF Inv, TypeOK, States, Results
<1>4. CASE ~(Top.rest > 0)
  <2>1. /\ state' = After(Top.state) /\ thrown' = Top.thrown /\ raised' = Top.raised
        /\ control' = Front(control) /\ frames' = frames /\ result' = result
    BY <1>4 DEF DestructorReturns
  <2>. QED BY <1>1, <2>1, DestructorEnds
<1>5. PICK s, n, old, d, p, q:
        /\ s = After(Top.state) /\ n = Top.rest - 1
        /\ old = [Top EXCEPT !.state = s] /\ d = [old EXCEPT !.rest = n]
        /\ p = Scope("function", Len(frames) + 1, 0) /\ q = Scope("scope", Len(frames) + 1, 0)
  OBVIOUS
<1>6. /\ s \in States
      /\ s # "RUNTIME_EXCEPTION" => ~Upset(state, thrown) /\ s = Top.state
  BY <1>1, <1>3, <1>5 DEF After, Upset
<1>7. /\ old \in Levels /\ old.kind = "destructor" /\ old.state = s /\ old.thrown = Top.thrown
      /\ old.raised = Top.raised
  BY <1>1, <1>2, <1>5, <1>6, Stated
<1>8. CASE Top.rest > 0 /\ Len(frames) = MaxFrames
  <2>1. /\ state' = "RUNTIME_EXCEPTION" /\ thrown' = old.thrown /\ raised' = old.raised
        /\ control' = Front(control) /\ frames' = frames /\ result' = result
    BY <1>5, <1>8 DEF DestructorReturns, Destroy
  <2>. QED BY <1>1, <1>7, <2>1, DestructorEnds
<1>9. CASE Top.rest > 0 /\ Len(frames) # MaxFrames
  <2>1. /\ frames' = Append(frames, NewFrame) /\ control' = Front(control) \o <<d>> \o <<p, q>>
        /\ state' = "NORMAL" /\ thrown' = FALSE /\ raised' = "none" /\ result' = result
    BY <1>5, <1>9 DEF DestructorReturns, Destroy, Body
  <2>2. PICK m: m = Len(control) - 1
    OBVIOUS
  <2>3. /\ d \in Levels /\ d.kind = "destructor" /\ d.state = s /\ d.thrown = Top.thrown
        /\ d.raised = Top.raised
    <3>1. n \in Nat
      BY <1>3, <1>5, <1>9
    <3>. QED BY <1>5, <1>7, <3>1, Rested
  <2>4. /\ p \in Levels /\ p.kind = "function" /\ p.frame = Len(frames) + 1 /\ p.base = 0 /\ p.declared = 0
        /\ ~p.leaves
        /\ q \in Levels /\ q.kind = "scope" /\ q.frame = Len(frames) + 1 /\ q.base = 0 /\ q.declared = 0
        /\ ~q.leaves
    <3>1. PICK k \in Nat: k = Len(frames) + 1
      BY <1>2
    <3>2. p = Scope("function", k, 0) /\ q = Scope("scope", k, 0)
      BY <1>5, <3>1
    <3>. QED BY <3>1, <3>2, Bodies
  <2>5. /\ m > 0 /\ m \in DOMAIN control /\ m \in 1 .. Len(control) /\ control[m].kind \in VirtualScopes
        /\ control[m].kind \in Statements /\ control[m].kind \in Codes
        /\ m \in Nat /\ m < Len(control) /\ control[m + 1] = Top
    <3>1. Len(control) > 1 /\ control[m].kind \in VirtualScopes
      BY <1>1, <1>2, <2>2 DEF Inv, KindsInv, KindInv
    <3>. QED BY <1>2, <2>2, <3>1 DEF Statements, Codes
  <2>6. /\ control' \in Seq(Levels) /\ Len(control') = m + 3
        /\ \A i \in 1 .. m: control'[i] = control[i]
        /\ control'[m + 1] = d /\ control'[m + 2] = p /\ control'[m + 3] = q
    <3>1. PICK front: front = Front(control)
      OBVIOUS
    <3>2. front \in Seq(Levels) /\ Len(front) = m /\ \A i \in 1 .. m: front[i] = control[i]
      BY <1>1, <1>3, <2>2, <3>1, Shortened
    <3>3. control' = front \o <<d>> \o <<p, q>>
      BY <2>1, <3>1
    <3>. QED BY <2>3, <2>4, <3>2, <3>3, GrownThrice
  <2>7. /\ frames' \in Seq(Frames) /\ Len(frames') = Len(frames) + 1
        /\ \A g \in DOMAIN frames: frames'[g] = frames[g]
        /\ Len(frames'[Len(frames')].variables) = 0
    BY <1>2, <1>3, <2>1, NewFrameFacts, Grown
  <2>8. TypeOK'
    BY <1>3, <2>1, <2>6, <2>7 DEF TypeOK
  <2>9. \A i \in 1 .. m - 1:
           control[i].kind \in Statements /\ control[i + 1].kind \in {"function", "destructor"}
           => frames'[control[i].frame].variables = frames[control[i].frame].variables
    <3> SUFFICES ASSUME NEW i \in 1 .. m - 1, control[i].kind \in Statements
                 PROVE  frames'[control[i].frame] = frames[control[i].frame]
      OBVIOUS
    <3>1. i \in DOMAIN control /\ control[i].kind \in Codes
      BY <1>2, <2>5 DEF Statements, Codes
    <3>. QED BY <2>7, <3>1 DEF Inv, OrderInv
  <2>10. /\ control[m].base <= Len(frames'[control[m].frame].variables)
         /\ Len(frames'[control[m].frame].variables) <= control[m].base + control[m].declared
         /\ control[m].leaves \/ d.thrown
    <3>1. Partly(control[m]) /\ (control[m].leaves \/ Top.thrown)
      BY <1>1, <2>5 DEF Inv, VariablesInv, RoomInv
    <3>2. frames'[control[m].frame] = frames[control[m].frame]
      BY <2>5, <2>7 DEF Inv, OrderInv
    <3>. QED BY <2>3, <3>1, <3>2 DEF Partly, Size, Variables
  <2>11. ~Broken(d.state, d.thrown) => control[m].frame = Len(frames)
    <3> SUFFICES ASSUME ~Broken(d.state, d.thrown) PROVE control[m].frame = Len(frames)
      OBVIOUS
    <3>1. ~Broken(state, thrown) /\ ~Broken(Top.state, Top.thrown)
      BY <1>6, <2>3 DEF Broken, Upset
    <3>. QED BY <1>1, <2>2, <3>1 DEF Inv, CurrentInv, AtTop
  <2>12. Len(control) \in Destructors /\ \A j \in Destructors: j > m => j = Len(control)
    BY <1>1, <1>2, <2>2 DEF Destructors
  <2>13. /\ Obeys(d.state, m + 1)
         /\ d.thrown => d.state \in {"NORMAL", "RUNTIME_EXCEPTION"}
    <3>1. /\ Obeys(Top.state, Len(control))
          /\ Top.thrown => Top.state \in {"NORMAL", "RUNTIME_EXCEPTION"}
      BY <1>2, <2>12 DEF Inv, JumpsInv
    <3>2. m + 1 = Len(control)
      BY <1>2, <2>2
    <3>3. s = "RUNTIME_EXCEPTION" \/ s = Top.state
      BY <1>6
    <3>. QED BY <2>3, <3>1, <3>2, <3>3 DEF Obeys
  <2>14. d.state = "EXCEPTION" => d.raised # "none" /\ result = d.raised
    <3> SUFFICES ASSUME d.state = "EXCEPTION" PROVE d.raised # "none" /\ result = d.raised
      OBVIOUS
    <3>1. ~Upset(state, thrown) /\ Top.state = "EXCEPTION"
      BY <1>6, <2>3
    <3>2. PICK k: k = Len(control)
      OBVIOUS
    <3>3. ~Doomed(k)
      <4>1. \A j \in Destructors: ~(k < j)
        BY <1>2, <3>2 DEF Destructors
      <4>. QED BY <3>1, <4>1 DEF Doomed
    <3>. QED BY <1>2, <2>3, <2>12, <3>1, <3>2, <3>3 DEF Inv, ExceptionsInv
  <2>15. /\ Upset(state, thrown) => Upset(d.state, d.thrown)
         /\ Broken(state, thrown) => Broken(d.state, d.thrown)
         /\ Upset(Top.state, Top.thrown) => Upset(d.state, d.thrown)
         /\ Broken(Top.state, Top.thrown) => Broken(d.state, d.thrown)
    BY <1>6, <2>3 DEF Upset, Broken
  <2>16. /\ \A j \in Destructors: j > m /\ Upset(control[j].state, control[j].thrown)
                                  => Upset(d.state, d.thrown)
         /\ \A j \in Destructors: j > m /\ Broken(control[j].state, control[j].thrown)
                                  => Broken(d.state, d.thrown)
    BY <1>2, <2>12, <2>15
  <2>17. d.state = "EXIT" => \A j \in Destructors: j > m
    <3> SUFFICES ASSUME d.state = "EXIT", NEW j \in Destructors PROVE j > m
      OBVIOUS
    <3>1. Top.state = "EXIT"
      BY <1>6, <2>3
    <3>2. Len(control) <= j
      BY <1>2, <2>12, <3>1 DEF Inv, ExitInv
    <3>. QED BY <1>2, <2>2, <3>2 DEF Destructors
  <2>18. \A j \in DOMAIN control: j > m => control[j].kind = "destructor"
    BY <1>1, <1>2, <2>2
  <2>19. /\ Destructors # {}
         /\ \A j \in Destructors: j > m /\ control[j].state = "EXIT" => d.state \in {"EXIT", "RUNTIME_EXCEPTION"}
    BY <1>2, <1>6, <2>3, <2>12
  <2>. QED BY ZenonT(60), <2>1, <2>3, <2>4, <2>5, <2>6, <2>7, <2>8, <2>9, <2>10, <2>11, <2>13, <2>14, <2>15, <2>16, <2>17,
              <2>18, <2>19, DestroyingKeeps
<1>. QED BY <1>4, <1>8, <1>9

-----------------------------------------------------------------------------

(* The end of the program, and its beginning.                               *)
LEMMA EndKeeps == ASSUME Legal, Inv, End PROVE Inv' /\ Final
<1>1. /\ control = <<>> /\ control' = <<>> /\ frames' = <<>> /\ thrown' = thrown /\ raised' = raised
      /\ result' = result
      /\ state' = IF state = "EXCEPTION" THEN "RUNTIME_EXCEPTION" ELSE state
  BY DEF End
<1>2. DOMAIN control = {} /\ DOMAIN control' = {} /\ DOMAIN frames' = {}
  BY <1>1
<1>3. /\ Destructors = {} /\ Destructors' = {}
      /\ \A i, kinds: ~LoopUnder(i, kinds) /\ ~LoopUnder(i, kinds)'
  BY <1>2 DEF Destructors, LoopUnder
<1>4. TypeOK'
  BY <1>1 DEF Inv, TypeOK, States
<1>5. KindsInv' /\ PlacesInv' /\ OrderInv' /\ VariablesInv'
  BY <1>2 DEF KindsInv, PlacesInv, OrderInv, VariablesInv
<1>6. CurrentInv'
  BY <1>1, <1>2 DEF CurrentInv, AtTop
<1>7. JumpsInv'
  BY <1>1, <1>3 DEF Inv, JumpsInv, Obeys
<1>8. ExceptionsInv'
  BY <1>1, <1>3 DEF ExceptionsInv
<1>9. CallsInv' /\ ExitInv'
  BY <1>2, <1>3 DEF CallsInv, ExitInv
<1>10. Final
  BY <1>1, <1>3 DEF Final, Failed, Exiting
<1>. QED BY <1>4, <1>5, <1>6, <1>7, <1>8, <1>9, <1>10 DEF Inv

LEMMA NothingKeeps == ASSUME Inv, UNCHANGED huginnVars PROVE Inv' /\ Final
<1>1. /\ frames' = frames /\ control' = control /\ state' = state /\ result' = result
      /\ thrown' = thrown /\ raised' = raised
  BY DEF huginnVars
<1>2. Destructors' = Destructors /\ Functions' = Functions /\ Top' = Top
  BY <1>1 DEF Destructors, Functions, Top
<1>3. TypeOK' /\ KindsInv' /\ PlacesInv'
  BY <1>1 DEF Inv, TypeOK, KindsInv, KindInv, PlacesInv, PlaceInv
<1>4. OrderInv' /\ CurrentInv'
  BY <1>1, <1>2 DEF Inv, OrderInv, CurrentInv, AtTop
<1>5. VariablesInv'
  BY <1>1 DEF Inv, VariablesInv, RoomInv, Whole, Partly, Size, Variables
<1>6. JumpsInv' /\ ExitInv' /\ CallsInv'
  BY <1>1, <1>2 DEF Inv, JumpsInv, Obeys, LoopUnder, ExitInv, CallsInv, Failed
<1>7. ExceptionsInv'
  BY <1>1, <1>2 DEF Inv, ExceptionsInv, Doomed
<1>8. Final
  BY <1>1, <1>2 DEF Final, Failed, Exiting
<1>. QED BY <1>3, <1>4, <1>5, <1>6, <1>7, <1>8 DEF Inv

LEMMA InitInv == ASSUME Legal, Init PROVE Inv
<1>1. PICK p, q: p = Scope("function", 1, 0) /\ q = Scope("scope", 1, 0)
  OBVIOUS
<1>2. /\ frames = <<NewFrame>> /\ control = <<p, q>> /\ state = "NORMAL" /\ result = "none"
      /\ ~thrown /\ thrown \in BOOLEAN /\ raised = "none"
  BY <1>1 DEF Init, Body
<1>3. /\ p \in Levels /\ p.kind = "function" /\ p.frame = 1 /\ p.base = 0 /\ p.declared = 0 /\ ~p.leaves
      /\ q \in Levels /\ q.kind = "scope" /\ q.frame = 1 /\ q.base = 0 /\ q.declared = 0 /\ ~q.leaves
  BY <1>1, Bodies
<1>4. /\ control \in Seq(Levels) /\ Len(control) = 2 /\ DOMAIN control = {1, 2}
      /\ control[1] = p /\ control[2] = q /\ control # <<>> /\ Top = q
  BY <1>2, <1>3 DEF Top, Last
<1>5. /\ frames \in Seq(Frames) /\ Len(frames) = 1 /\ DOMAIN frames = {1} /\ Len(frames[1].variables) = 0
  BY <1>2, NewFrameFacts
<1>6. /\ "scope" \in VirtualScopes /\ "scope" \in Statements /\ "scope" \in Codes
      /\ "function" \notin VirtualScopes /\ "function" \notin Statements /\ "function" \in Codes
      /\ "none" \in Results /\ "NORMAL" \in States
  BY DEF VirtualScopes, Statements, Codes, Results, States
<1>7. Destructors = {} /\ 1 \in Functions
  BY <1>3, <1>4 DEF Destructors, Functions
<1>8. TypeOK
  BY <1>2, <1>4, <1>5, <1>6 DEF TypeOK
<1>9. KindsInv
  BY <1>3, <1>4, <1>6 DEF KindsInv, KindInv
<1>10. PlacesInv
  BY <1>3, <1>4, <1>6 DEF PlacesInv, PlaceInv
<1>11. OrderInv
  BY <1>3, <1>4, <1>5 DEF OrderInv
<1>12. CurrentInv
  BY <1>3, <1>4, <1>5 DEF CurrentInv, AtTop
<1>13. VariablesInv
  BY <1>2, <1>3, <1>4, <1>5, <1>6 DEF VariablesInv, RoomInv, Whole, Size, Variables
<1>14. JumpsInv /\ ExceptionsInv /\ ExitInv
  BY <1>2, <1>7 DEF JumpsInv, Obeys, ExceptionsInv, ExitInv
<1>15. CallsInv
  BY <1>3, <1>4, <1>5, <1>7 DEF CallsInv
<1>. QED BY <1>8, <1>9, <1>10, <1>11, <1>12, <1>13, <1>14, <1>15 DEF Inv

LEMMA NextInv == ASSUME Legal, Inv, [Next]_huginnVars PROVE Inv' /\ Final
<1>1. ASSUME NEW n \in Chains, Declare(n) PROVE Inv' /\ Final
  BY <1>1, DeclareKeeps
<1>2. CASE Call
  BY <1>2, CallKeeps
<1>3. CASE Fail
  BY <1>3, FailKeeps
<1>4. CASE Exit
  BY <1>4, ExitKeeps
<1>5. CASE Throw
  <2>1. Going /\ control' = Append(control, Opened("throw"))
    BY <1>5 DEF Throw, Executes, In, Going, VirtualScopes
  <2>. QED BY <1>5, <2>1, OpeningKeeps DEF Throw
<1>6. ASSUME NEW x \in Exceptions, Raise(x) PROVE Inv' /\ Final
  BY <1>6, RaiseKeeps
<1>7. ASSUME NEW x \in Exceptions, ThrowEnds(x) PROVE Inv' /\ Final
  BY <1>7, ThrowEndsKeeps
<1>8. ASSUME NEW s \in {"RETURN", "BREAK", "CONTINUE"}, Jump(s) PROVE Inv' /\ Final
  BY <1>8, JumpKeeps
<1>9. ASSUME NEW kind \in VirtualScopes \ {"catch"}, Open(kind) PROVE Inv' /\ Final
  <2>1. Going
    BY <1>9 DEF Open, Executes, In, Going, VirtualScopes
  <2>2. CASE kind = "try"
    BY <1>9, <2>1, <2>2, TryingKeeps DEF Open, Legal
  <2>3. CASE kind # "try"
    <3>1. kind \in {"scope", "loop", "switch", "throw"}
      BY <2>3 DEF VirtualScopes
    <3>2. control' = Append(control, Opened(kind))
      <4>1. control' = control \o <<Opened(kind)>>
        BY <1>9, <2>3 DEF Open
      <4>2. control \in Seq(Levels)
        BY DEF Inv, TypeOK
      <4>. QED BY <4>1, <4>2
    <3>. QED BY <1>9, <2>1, <3>1, <3>2, OpeningKeeps DEF Open
  <2>. QED BY <2>2, <2>3
<1>10. CASE Iterate
  <2>1. Going /\ control' = Append(control, Opened("scope"))
    BY <1>10 DEF Iterate, In, Going, VirtualScopes
  <2>. QED BY <1>10, <2>1, OpeningKeeps DEF Iterate
<1>11. CASE Continue
  BY <1>11, ContinueKeeps
<1>12. CASE Catch
  BY <1>12, CatchKeeps
<1>13. CASE Finish
  BY <1>13, FinishKeeps
<1>14. CASE Pop
  BY <1>14, PopKeeps
<1>15. CASE Leave
  BY <1>15, LeaveKeeps
<1>16. CASE Unwind
  BY <1>16, UnwindKeeps
<1>17. CASE Return
  BY <1>17, ReturnKeeps
<1>18. CASE DestructorReturns
  BY <1>18, DestructorReturnsKeeps
<1>19. CASE DestructorFails
  BY <1>19, DestructorFailsKeeps
<1>20. CASE End
  BY <1>20, EndKeeps
<1>21. CASE UNCHANGED huginnVars
  BY <1>21, NothingKeeps
<1>. QED BY <1>1, <1>2, <1>3, <1>4, <1>5, <1>6, <1>7, <1>8, <1>9, <1>10, <1>11, <1>12, <1>13, <1>14,
            <1>15, <1>16, <1>17, <1>18, <1>19, <1>20, <1>21 DEF Next

(* What the invariant says of the properties.                               *)
LEMMA InvMeans ==
  ASSUME Legal, Inv
  PROVE  ExceptionIsKept /\ JumpsAreObeyed /\ VariablesAreInPlace /\ FramesAreCalls
<1>1. /\ Len(control) \in Nat /\ DOMAIN control = 1 .. Len(control)
      /\ control # <<>> => Len(control) \in DOMAIN control /\ Top = control[Len(control)] /\ Top \in Levels
  BY TopFacts DEF Inv
<1>2. ExceptionIsKept
  BY DEF Inv, ExceptionsInv, ExceptionIsKept
<1>3. JumpsAreObeyed
  <2>1. ASSUME NEW kinds, LoopUnder(Len(control) + 1, kinds) PROVE Within(kinds)
    <3>1. PICK j \in DOMAIN control:
            /\ control[j].kind \in kinds
            /\ \A k \in DOMAIN control: j <= k /\ k < Len(control) + 1 => control[k].kind # "function"
      BY <2>1 DEF LoopUnder
    <3>2. \A k \in Functions: k < j
      BY <1>1, <3>1 DEF Functions
    <3>. QED BY <3>1, <3>2 DEF Within
  <2>. QED BY <2>1 DEF Inv, JumpsInv, Obeys, JumpsAreObeyed
<1>4. VariablesAreInPlace
  <2> SUFFICES ASSUME Executes
               PROVE  /\ Top.frame = Len(frames)
                      /\ Len(Variables(Top.frame)) = Top.base + Top.declared
                      /\ \A i \in DOMAIN control:
                           /\ control[i].kind \in VirtualScopes =>
                                /\ i > 1 /\ control[i - 1].frame = control[i].frame
                                /\ control[i].base = control[i - 1].base + control[i - 1].declared
                           /\ control[i].kind = "function" => control[i].base = 0 /\ control[i].declared = 0
    BY DEF VariablesAreInPlace
  <2>1. Going
    BY DEF Executes, In, Going, VirtualScopes
  <2>2. Top.frame = Len(frames) /\ Size(Len(frames)) = Top.base + Top.declared
    BY <2>1, GoingFacts
  <2>3. \A i \in DOMAIN control:
           /\ control[i].kind \in VirtualScopes =>
                /\ i > 1 /\ control[i - 1].frame = control[i].frame
                /\ control[i].base = control[i - 1].base + control[i - 1].declared
           /\ control[i].kind = "function" => control[i].base = 0 /\ control[i].declared = 0
    BY DEF Inv, KindsInv, KindInv, PlacesInv, PlaceInv, Statements
  <2>. QED BY <2>2, <2>3 DEF Size
<1>5. FramesAreCalls
  <2>1. \A i \in Functions: i \in DOMAIN control /\ control[i].kind = "function" /\ control[i].kind \in Codes
    BY DEF Functions, Codes
  <2>2. \A i \in Functions: control[i].frame \in DOMAIN frames /\ control[i].frame \in Nat
    BY <2>1, TopFacts, LevelTypes DEF Inv, OrderInv
  <2>3. \A i, j \in Functions: i < j => control[i].frame < control[j].frame
    BY <1>1, <2>1 DEF Inv, OrderInv
  <2>4. \A i, j \in Functions: control[i].frame = control[j].frame => i = j
    BY <1>1, <2>1, <2>2, <2>3
  <2>. QED BY <2>2, <2>4 DEF Inv, CallsInv, FramesAreCalls
<1>. QED BY <1>2, <1>3, <1>4, <1>5

LEMMA InvHolds == ASSUME Legal PROVE Spec => []Inv
<1>1. Init => Inv
  BY InitInv
<1>2. Inv /\ [Next]_huginnVars => Inv'
  BY NextInv
<1>. QED BY <1>1, <1>2, PTL DEF Spec

(* The state of HThread, its frames and its calls are what TypeOK says.     *)
THEOREM TypeCorrect == ASSUME Legal PROVE Spec => []TypeOK
<1>1. Inv => TypeOK
  BY DEF Inv
<1>. QED BY <1>1, InvHolds, PTL

(* Whatever the program does and its destructors do in between, an          *)
(* exception on its way to a handler is the one thrown last, a break and a  *)
(* continue have their loop, the variables are where the compiler put them, *)
(* and frames are functions called.                                         *)
THEOREM OrderCorrect ==
  ASSUME Legal
  PROVE  Spec => [](ExceptionIsKept /\ JumpsAreObeyed /\ VariablesAreInPlace /\ FramesAreCalls)
<1>1. Inv => ExceptionIsKept /\ JumpsAreObeyed /\ VariablesAreInPlace /\ FramesAreCalls
  BY InvMeans
<1>. QED BY <1>1, InvHolds, PTL

(* Nothing undoes a runtime error, and only a runtime error undoes an exit. *)
THEOREM FailuresCorrect == ASSUME Legal PROVE Spec => FailuresAreFinal
<1>1. Inv /\ [Next]_huginnVars =>
        [/\ Failed => Failed'
         /\ Exiting => Exiting' \/ Failed']_huginnVars
  BY NextInv DEF Final
<1>. QED BY <1>1, InvHolds, PTL DEF Spec, FailuresAreFinal
=============================================================================
