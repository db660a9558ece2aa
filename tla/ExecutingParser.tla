--------------------------- MODULE ExecutingParser ---------------------------
(***************************************************************************)
(* The recursive descent of src/tools/executingparser.cxx: how rules match *)
(* an input, which steps they leave for execute(), which of them may match *)
(* nothing, and how the constructor looks for rules that call themselves   *)
(* for ever.                                                               *)
(* A grammar is a sequence of rules in the order of their construction,    *)
(* its root last; the parts of a rule are the places of the rules in it.   *)
(* A "recursion" is HRecursiveRule, with the HRuleRef to it: it is made    *)
(* empty, and %= gives it its part later.  Places in an input are how much *)
(* of it is behind them.                                                   *)
(***************************************************************************)
EXTENDS Integers, Sequences, FiniteSets, SequencesExt, FiniteSetsExt

CONSTANTS
  Characters,   \* the HCharacters of a grammar: <<letter, whether it acts>>
  ParserInputs, \* what is parsed
  MaxRules,     \* bound: rules of a grammar
  IllUses       \* "shared", "steps ahead", "optional recursion"

VARIABLE grammar   \* the rules made so far, at last _grammar

Space  == "_"
Unary  == {"rule", "star", "plus", "optional", "skip"}
Binary == {"follows", "alternative", "and", "not"}

-----------------------------------------------------------------------------
(* is_optional().  HFollows and HAlternative have counted it when they were *)
(* made.                                                                    *)
RECURSIVE IsOptional(_, _)
IsOptional(g, n) ==
  CASE g[n].kind \in {"star", "optional", "action"} -> TRUE
    [] g[n].kind \in {"rule", "recursion"} /\ g[n].parts # <<>> -> IsOptional(g, g[n].parts[1])
    [] OTHER -> g[n].optional

CountedOptional(g, kind, parts) ==
  \/ kind = "follows" /\ \A p \in ToSet(parts): IsOptional(g, p)
  \/ kind = "alternative" /\ \E p \in ToSet(parts): IsOptional(g, p)

(* White space is skipped by rules whose parts, or whose first part, skip it. *)
RECURSIVE SkipsSpace(_, _)
SkipsSpace(g, n) ==
  CASE g[n].kind = "character" -> TRUE
    [] g[n].kind \in {"recursion", "action"} -> FALSE
    [] g[n].kind = "alternative" -> \A p \in ToSet(g[n].parts): SkipsSpace(g, p)
    [] OTHER -> SkipsSpace(g, g[n].parts[1])

BehindSpace(s, at) == Min({p \in at .. Len(s): p = Len(s) \/ s[p + 1] # Space})

-----------------------------------------------------------------------------
(* Parsed(g, s, n, at): where parse() of the rule ends, and the steps that  *)
(* it leaves behind those that were there.                                  *)
Found(to, steps) == [to |-> to, steps |-> steps]

Step(g, n, from, to) ==
  IF g[n].acts THEN <<[rule |-> n, from |-> from, to |-> to]>> ELSE <<>>

(* A rule that adds its step when its part has moved. *)
Moved(g, n, at, part) ==
  IF part.to = at THEN part ELSE Found(part.to, part.steps \o Step(g, n, at, part.to))

RECURSIVE Parsed(_, _, _, _)

CharacterParsed(g, s, n, at) ==
  IF at < Len(s) /\ s[at + 1] = g[n].letter
  THEN Found(at + 1, Step(g, n, at, at + 1))
  ELSE Found(at, <<>>)

(* What the parts of HFollows have left stays when it fails. *)
FollowsParsed(g, s, n, at) ==
  LET Then(sofar, p) ==
        IF ~ sofar.matched THEN sofar
        ELSE LET part == Parsed(g, s, p, sofar.to)
             IN [matched |-> part.to # sofar.to \/ IsOptional(g, p),
                 to |-> part.to, steps |-> sofar.steps \o part.steps]
      all == FoldLeft(Then, [matched |-> TRUE, to |-> at, steps |-> <<>>], g[n].parts)
  IN  IF all.matched THEN Found(all.to, all.steps \o Step(g, n, at, all.to))
      ELSE Found(at, all.steps)

RECURSIVE Repeated(_, _, _, _)
Repeated(g, s, p, at) ==
  LET once == IF at = Len(s) THEN Found(at, <<>>) ELSE Parsed(g, s, p, at)
  IN  IF once.to = at THEN Found(at, <<>>)
      ELSE LET others == Repeated(g, s, p, once.to)
           IN Found(others.to, once.steps \o others.steps)

(* Mutated form of Chosen: the choices that fail leave what they did. *)
ChosenKeepingSteps(g, s, n, at) ==
  LET Or(sofar, p) ==
        IF sofar.to # at THEN sofar
        ELSE LET choice == Parsed(g, s, p, at)
             IN Found(choice.to, sofar.steps \o choice.steps)
  IN  FoldLeft(Or, Found(at, <<>>), g[n].parts)

(* The first choice that moves; the others leave nothing. *)
Chosen(g, s, n, at) ==
  LET Or(sofar, p) ==
        IF sofar.to # at THEN sofar
        ELSE LET choice == Parsed(g, s, p, at)
             IN IF choice.to # at THEN choice ELSE sofar
  IN  FoldLeft(Or, Found(at, <<>>), g[n].parts)

(* What comes behind is looked at even if the rule has failed, and only     *)
(* HAnd drops the steps of that.                                            *)
AndParsed(g, s, n, at) ==
  LET part   == Parsed(g, s, g[n].parts[1], at)
      behind == Parsed(g, s, g[n].parts[2], part.to)
  IN  IF part.to # at /\ behind.to # part.to
      THEN Found(part.to, part.steps \o Step(g, n, at, part.to))
      ELSE Found(at, part.steps \o behind.steps)

NotParsed(g, s, n, at) ==
  LET part   == Parsed(g, s, g[n].parts[1], at)
      behind == Parsed(g, s, g[n].parts[2], part.to)
      steps  == part.steps \o behind.steps
  IN  IF part.to # at /\ behind.to = part.to
      THEN Found(part.to, steps \o Step(g, n, at, part.to))
      ELSE Found(at, steps)

(* HRuleBase::parse(): space first; a rule that may match nothing, and did, *)
(* leaves nothing, unless it is an action.                                  *)
Parsed(g, s, n, first) ==
  LET at   == IF SkipsSpace(g, n) THEN BehindSpace(s, first) ELSE first
      part == CASE g[n].kind = "character" -> CharacterParsed(g, s, n, at)
                [] g[n].kind = "action" -> Found(at, Step(g, n, at, at))
                [] g[n].kind = "follows" -> FollowsParsed(g, s, n, at)
                [] g[n].kind = "alternative" -> Moved(g, n, at, Chosen(g, s, n, at))
                [] g[n].kind \in {"star", "plus"} ->
                     Moved(g, n, at, Repeated(g, s, g[n].parts[1], at))
                [] g[n].kind \in {"rule", "optional"} ->
                     Moved(g, n, at, Parsed(g, s, g[n].parts[1], at))
                [] g[n].kind = "and" -> AndParsed(g, s, n, at)
                [] g[n].kind = "not" -> NotParsed(g, s, n, at)
                [] g[n].kind = "skip" -> Found(Parsed(g, s, g[n].parts[1], at).to, <<>>)
                [] g[n].kind = "recursion" -> Parsed(g, s, g[n].parts[1], at)
  IN  IF part.to # at THEN part
      ELSE Found(first,
                 IF g[n].kind # "action" /\ IsOptional(g, n) THEN <<>> ELSE part.steps)

-----------------------------------------------------------------------------
(* detect_recursion() in state d.  seen and marks are the tops of _visited  *)
(* and _checkpoints, reset is what was returned, fails that it has thrown.  *)
RECURSIVE Detected(_, _, _, _)

(* Between checkpoints_push() and checkpoints_pop().                        *)
Aside(g, n, d) == [d EXCEPT !.fails = Detected(g, n, FALSE, d).fails]

DetectedInFollows(g, n, skip, d) ==
  LET Then(sofar, p) ==
        IF sofar.fails \/ (sofar.reset /\ skip) THEN sofar
        ELSE LET after == Detected(g, p, skip, sofar)
             IN IF after.reset THEN [after EXCEPT !.marks = {}] ELSE after
  IN  FoldLeft(Then, [d EXCEPT !.reset = FALSE], g[n].parts)

DetectedInAlternative(g, n, d) ==
  LET choices == {Detected(g, p, FALSE, d): p \in ToSet(g[n].parts)}
      all     == \A c \in choices: c.reset
  IN  [d EXCEPT !.fails = \E c \in choices: c.fails,
                !.reset = all,
                !.marks = IF all THEN {} ELSE d.marks]

DetectedInParts(g, n, skip, d) ==
  CASE g[n].kind = "character" -> [d EXCEPT !.marks = {}, !.reset = TRUE]
    [] g[n].kind = "action" -> [d EXCEPT !.reset = FALSE]
    [] g[n].kind \in {"rule", "plus", "recursion"} -> Detected(g, g[n].parts[1], skip, d)
    [] g[n].kind \in {"star", "optional", "skip"} ->
         LET after == IF skip THEN d ELSE Aside(g, g[n].parts[1], d)
         IN [after EXCEPT !.reset = FALSE]
    [] g[n].kind = "follows" -> DetectedInFollows(g, n, skip, d)
    [] g[n].kind = "alternative" ->
         IF skip THEN [d EXCEPT !.reset = TRUE] ELSE DetectedInAlternative(g, n, d)
    [] g[n].kind \in {"and", "not"} ->
         LET after == Detected(g, g[n].parts[1], skip, d)
         IN IF after.fails THEN after
            ELSE [after EXCEPT !.fails = Detected(g, g[n].parts[2], skip, after).fails]

(* HRecursionDetector::visit(); the parts of a rule visited before are not. *)
Visited(n, d) ==
  IF n \in d.marks THEN [d EXCEPT !.fails = TRUE]
  ELSE [d EXCEPT !.marks = d.marks \union {n}, !.seen = d.seen \union {n}]

Detected(g, n, skip, d) ==
  LET after == IF skip THEN d ELSE Visited(n, d)
  IN  IF after.fails THEN after ELSE DetectedInParts(g, n, skip \/ n \in d.seen, after)

(* sanitize() throws.                                                       *)
Refused(g) ==
  Detected(g, Len(g), FALSE,
           [marks |-> {}, seen |-> {}, reset |-> FALSE, fails |-> FALSE]).fails

(* do_parse(): the whole input has to be matched but for space behind it.   *)
Result(g, s) ==
  LET all == Parsed(g, s, Len(g), 0)
  IN  [executors |-> all.steps,
       matched   |-> /\ BehindSpace(s, all.to) = Len(s)
                     /\ all.to # 0 \/ IsOptional(g, Len(g))]

-----------------------------------------------------------------------------
(* What a rule means.  It fails, matches nothing or moves on, and leaves    *)
(* steps only if it moves on, an action apart.                              *)
Fails == [ok |-> FALSE, to |-> 0, steps |-> <<>>]
Derives(to, steps) == [ok |-> TRUE, to |-> to, steps |-> steps]
Moves(d, at) == d.ok /\ d.to # at

RECURSIVE Derived(_, _, _, _), DerivedTimes(_, _, _, _)

DerivedTimes(g, s, p, d) ==
  LET after == Derived(g, s, p, d.to)
  IN  IF Moves(after, d.to) THEN DerivedTimes(g, s, p, Derives(after.to, d.steps \o after.steps)) ELSE d

DerivedFromParts(g, s, n, at) ==
  LET First  == Derived(g, s, g[n].parts[1], at)
      Then(d, p) == IF ~ d.ok THEN d
                    ELSE LET after == Derived(g, s, p, d.to)
                         IN IF after.ok THEN Derives(after.to, d.steps \o after.steps) ELSE Fails
      Or(d, p) == IF Moves(d, at) THEN d
                  ELSE LET after == Derived(g, s, p, at) IN IF Moves(after, at) \/ ~ d.ok THEN after ELSE d
  IN  CASE g[n].kind = "character" ->
             LET p == BehindSpace(s, at)
             IN IF p < Len(s) /\ s[p + 1] = g[n].letter THEN Derives(p + 1, <<>>) ELSE Fails
        [] g[n].kind = "follows" -> FoldLeft(Then, Derives(at, <<>>), g[n].parts)
        [] g[n].kind = "alternative" -> FoldLeft(Or, Fails, g[n].parts)
        [] g[n].kind \in {"rule", "recursion"} -> First
        [] g[n].kind \in {"star", "optional"} /\ ~ First.ok -> Derives(at, <<>>)
        [] g[n].kind = "optional" /\ First.ok -> First
        [] g[n].kind = "star" /\ First.ok -> DerivedTimes(g, s, g[n].parts[1], Derives(at, <<>>))
        [] g[n].kind \in {"plus", "skip", "and", "not"} /\ ~ Moves(First, at) -> Fails
        [] g[n].kind = "plus" /\ Moves(First, at) -> DerivedTimes(g, s, g[n].parts[1], First)
        [] g[n].kind = "skip" /\ Moves(First, at) -> Derives(First.to, <<>>)
        [] g[n].kind \in {"and", "not"} /\ Moves(First, at) ->
             IF Moves(Derived(g, s, g[n].parts[2], First.to), First.to) = (g[n].kind = "and")
             THEN First ELSE Fails

Derived(g, s, n, at) ==
  IF g[n].kind = "action" THEN Derives(at, Step(g, n, at, at))
  ELSE LET d == DerivedFromParts(g, s, n, at)
           from == IF SkipsSpace(g, n) THEN BehindSpace(s, at) ELSE at
       IN CASE Moves(d, at) -> Derives(d.to, d.steps \o Step(g, n, from, d.to))
            [] d.ok /\ d.to = at -> Derives(at, <<>>)
            [] ~ d.ok -> Fails

(* The rules reached from n by one step of next, or more. *)
RECURSIVE Reached(_, _)
Reached(next, from) ==
  LET more == from \union UNION {next[m]: m \in from}
  IN  IF more = from THEN from ELSE Reached(next, more)

(* The rules that may be left where they were entered.  A skipped rule is   *)
(* taken for one.                                                           *)
RECURSIVE MayStay(_, _)
MayStay(g, known) ==
  LET Stays(r) == \/ r.kind \in {"star", "optional", "action", "skip"}
                  \/ r.kind = "follows" /\ ToSet(r.parts) \subseteq known
                  \/ r.kind = "alternative" /\ ToSet(r.parts) \intersect known # {}
                  \/ r.kind \in {"rule", "plus", "recursion"} /\ r.parts[1] \in known
      more == {n \in DOMAIN g: Stays(g[n])}
  IN  IF more = known THEN known ELSE MayStay(g, more)

(* Some rule of g is called again where it was called.                      *)
CallsItself(g) ==
  LET staying == MayStay(g, {})
      Entered(r) == {r.parts[i]: i \in {j \in DOMAIN r.parts:
                       r.kind = "follows" => \A k \in 1 .. (j - 1): r.parts[k] \in staying}}
      entered == [n \in DOMAIN g |-> Entered(g[n])]
  IN  \E n \in DOMAIN g: n \in Reached(entered, entered[n])

-----------------------------------------------------------------------------
Rule(kind, parts, acts, letter) ==
  [kind |-> kind, parts |-> parts, acts |-> acts, letter |-> letter,
   optional |-> CountedOptional(grammar, kind, parts)]

InitGrammar == grammar = <<>>

(* Rules that nothing uses yet can become parts of one grammar, each rule   *)
(* still to come making one of two.                                         *)
CanBecomeOne(g) ==
  LET used == UNION {ToSet(g[n].parts): n \in DOMAIN g}
  IN  Cardinality(DOMAIN g \ used) <= MaxRules - Len(g) + 1

(* Bound: a rule that is not used yet is a part of the next expression.     *)
Latest  == IF grammar = <<>> THEN {} ELSE {Len(grammar)}
Pairs == {<<p, q>> \in (DOMAIN grammar) \X (DOMAIN grammar): Latest \intersect {p, q} # {}}

(* The operators of the grammar language; an HRule without an action is but *)
(* a name.                                                                  *)
Make ==
  /\ Len(grammar) < MaxRules
  /\ \E rule \in
       {Rule("character", <<>>, c[2], c[1]): c \in Characters}
         \union {Rule("action", <<>>, TRUE, "none"), Rule("recursion", <<>>, FALSE, "none")}
         \union {Rule(kind, parts, kind # "skip", "none"):
                   kind \in Unary, parts \in {<<p>>: p \in Latest}}
         \union {Rule(kind, parts, TRUE, "none"): kind \in Binary, parts \in Pairs}:
       /\ grammar' = Append(grammar, rule)
       /\ CanBecomeOne(grammar')

(* HRule::operator %=: an empty rule gets the expression made last.         *)
Define ==
  \E r \in 1 .. (Len(grammar) - 1):
    /\ grammar[r].kind = "recursion" /\ grammar[r].parts = <<>>
    /\ grammar[Len(grammar)].kind \notin {"rule", "recursion"}
    /\ grammar' = [grammar EXCEPT ![r].parts = <<Len(grammar)>>]

Below(n) == LET parts == [m \in DOMAIN grammar |-> ToSet(grammar[m].parts)]
            IN {n} \union Reached(parts, parts[n])
Users(n) == {<<m, i>> \in (DOMAIN grammar) \X {1, 2}:
               i \in DOMAIN grammar[m].parts /\ grammar[m].parts[i] = n}

(* The grammars that are written well.  Behind & and ^ there is no rule     *)
(* that leads back, with which neither the search nor parsing would end.    *)
WrittenWell ==
  \A n \in DOMAIN grammar:
    LET r == grammar[n] IN
    /\ "shared" \in IllUses \/ r.kind \in {"character", "recursion"}
         \/ \A t, u \in {x \in Users(n): grammar[x[1]].kind # "recursion"}: t = u
    /\ r.kind \in {"and", "not"} =>
         \A m \in Below(r.parts[2]):
           /\ grammar[m].kind # "recursion"
           /\ "steps ahead" \in IllUses \/ ~ grammar[m].acts
    /\ r.kind = "recursion" => "optional recursion" \in IllUses \/ n \notin MayStay(grammar, {})

(* What the constructor gets: no rule is empty, and each is a part of it.   *)
Complete ==
  /\ grammar # <<>>
  /\ \A n \in DOMAIN grammar: grammar[n].kind = "recursion" => grammar[n].parts # <<>>
  /\ Below(Len(grammar)) = DOMAIN grammar /\ WrittenWell

-----------------------------------------------------------------------------
TypeOK ==
  /\ Len(grammar) <= MaxRules
  /\ \A n \in DOMAIN grammar:
       /\ grammar[n].kind \in Unary \union Binary \union {"character", "action", "recursion"}
       /\ ToSet(grammar[n].parts) \subseteq DOMAIN grammar

(* sanitize() refuses the grammars with a rule that would call itself at    *)
(* the same place for ever, and no others.                                  *)
RecursionIsRefused == Complete => Refused(grammar) = CallsItself(grammar)

(* parse() matches what the grammar derives, and what execute() then runs   *)
(* are the actions of the derivation in their order: choices that failed,   *)
(* repetitions that stopped and what was only looked ahead leave none.      *)
StepsAreDerived ==
  Complete /\ ~ Refused(grammar) =>
    \A s \in ParserInputs:
      \A d \in {Derived(grammar, s, Len(grammar), 0)}, r \in {Result(grammar, s)}:
        /\ r.matched = (d.ok /\ BehindSpace(s, d.to) = Len(s))
        /\ r.matched => r.executors = d.steps
=============================================================================
