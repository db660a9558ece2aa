----------------------------- MODULE HSBBSTree ------------------------------
(***************************************************************************)
(* HSBBSTree of src/hcore/hsbbstree.*: the red-black tree under HSet, HMap *)
(* and the other ordered containers.  Keys are natural numbers and stand   *)
(* for their nodes; 0 is no node.  The loops that rebalance the tree are   *)
(* one step for each turn.                                                 *)
(***************************************************************************)
EXTENDS Naturals, FiniteSets, FiniteSetsExt

CONSTANT Keys

VARIABLES
  tree,     \* _root, the links of the nodes and the set of the red ones
  stage,    \* rest, insert, remove (the loops), detach (the end of remove_node())
  pivot,    \* node_ of the loops
  removed,  \* the node that remove_node() was called for
  content   \* history: the set that the calls amount to

treeVars == <<tree, stage, pivot, removed, content>>

Nil == 0
Sides == {"left", "right"}
Other(side) == IF side = "left" THEN "right" ELSE "left"
SideOf(k, n) == IF k < n THEN "left" ELSE "right"            \* of a key below a node

Init ==
  /\ tree = [root |-> Nil, red |-> {}, parent |-> [k \in Keys |-> Nil],
             child |-> [side \in Sides |-> [k \in Keys |-> Nil]]]
  /\ stage = "rest" /\ pivot = Nil /\ removed = Nil
  /\ content = {}

Child(t, n, side) == t.child[side][n]
Children(t, n) == {Child(t, n, side): side \in Sides}
WhichChild(t, n) == IF Child(t, t.parent[n], "left") = n THEN "left" ELSE "right"
Sibling(t, n) == Child(t, t.parent[n], Other(WhichChild(t, n)))
Red(t, n)   == n # Nil /\ n \in t.red
Black(t, n) == n = Nil \/ n \notin t.red

(* set_child(), or _root where there is no parent *)
Linked(t, p, old, new) ==
  IF p = Nil THEN [t EXCEPT !.root = new]
  ELSE [t EXCEPT !.child[IF Child(t, p, "left") = old THEN "left" ELSE "right"][p] = new]
Adopted(t, n, p) == IF n = Nil THEN t ELSE [t EXCEPT !.parent[n] = p]
Coloured(t, reds, blacks) == [t EXCEPT !.red = (@ \cup reds) \ blacks]

(* rotate_left(), rotate_right(): n goes down on its side, the child of the *)
(* other side takes its place.                                              *)
Rotated(t, n, side) ==
  LET up    == Child(t, n, Other(side))
      inner == Child(t, up, side)
  IN Adopted([Linked(t, t.parent[n], n, up) EXCEPT
                !.parent[n] = up, !.parent[up] = t.parent[n],
                !.child[Other(side)][n] = inner, !.child[side][up] = n],
             inner, n)

-----------------------------------------------------------------------------
(* Iteration: leftmost(), rightmost(), next(), previous(). *)
Outermost(t, n, side) ==
  LET down[m \in Keys] == IF Child(t, m, side) = Nil THEN m ELSE down[Child(t, m, side)]
  IN IF n = Nil THEN Nil ELSE down[n]

Neighbour(t, n, side) ==        \* next() for the right, previous() for the left
  LET up[m \in Keys] ==
        IF t.parent[m] = Nil THEN Nil
        ELSE IF Child(t, t.parent[m], Other(side)) = m THEN t.parent[m] ELSE up[t.parent[m]]
  IN IF n = Nil THEN Outermost(t, t.root, Other(side))
     ELSE IF Child(t, n, side) # Nil THEN Outermost(t, Child(t, n, side), Other(side))
     ELSE up[n]

(* find_node(): the node of the key, or the one it is to hang below. *)
Found(t, k, from) ==
  LET down[m \in Keys] ==
        IF m = k \/ Child(t, m, SideOf(k, m)) = Nil THEN m ELSE down[Child(t, m, SideOf(k, m))]
  IN down[from]

(* verify_hint(): where the search may begin, given an iterator. *)
SearchFrom(t, k, hint) ==
  LET first == Outermost(t, t.root, "left")
      last  == Outermost(t, t.root, "right")
  IN IF hint = Nil /\ last < k THEN last
     ELSE IF hint = first /\ k < first THEN first
     ELSE IF hint \notin {Nil, first} /\ k < hint /\ Neighbour(t, hint, "left") < k THEN hint
     ELSE t.root

LowerBound(t, k) ==
  LET n == Found(t, k, t.root)
  IN IF t.root = Nil THEN Nil
     ELSE IF n = k \/ k < n THEN n ELSE Neighbour(t, n, "right")

UpperBound(t, k) ==
  LET n == Found(t, k, t.root)
  IN IF t.root = Nil THEN Nil
     ELSE IF n # k /\ k < n THEN n ELSE Neighbour(t, n, "right")

-----------------------------------------------------------------------------
(* insert(), with end(), begin() or another iterator as the hint *)
Insert(k, hint) ==
  /\ stage = "rest" /\ k \notin content
  /\ IF tree.root = Nil
     THEN /\ tree' = [tree EXCEPT !.root = k]
          /\ UNCHANGED <<stage, pivot>>
     ELSE LET p == Found(tree, k, SearchFrom(tree, k, hint))
          IN /\ tree' = [tree EXCEPT !.child[SideOf(k, p)][p] = k, !.parent[k] = p,
                                     !.red = @ \cup {k}]
             /\ stage' = "insert" /\ pivot' = k
  /\ content' = content \cup {k}
  /\ UNCHANGED removed

(* One turn of insert_rebalance(). *)
InsertRebalance ==
  /\ stage = "insert"
  /\ LET p == tree.parent[pivot]
         g == tree.parent[p]
     IN \/ /\ p = Nil
           /\ tree' = Coloured(tree, {}, {pivot})
           /\ stage' = "rest" /\ pivot' = Nil
        \/ /\ p # Nil /\ (Black(tree, p) \/ g = Nil)
           /\ stage' = "rest" /\ pivot' = Nil
           /\ UNCHANGED tree
        \/ /\ p # Nil /\ Red(tree, p) /\ g # Nil
           /\ \A c \in Children(tree, g): Red(tree, c)
           /\ tree' = Coloured(tree, {g}, Children(tree, g))
           /\ pivot' = g
           /\ UNCHANGED stage
        \/ /\ p # Nil /\ Red(tree, p) /\ g # Nil
           /\ \E c \in Children(tree, g): Black(tree, c)
           /\ LET side  == WhichChild(tree, p)
                  inner == WhichChild(tree, pivot) # side
                  outer == IF inner THEN Rotated(tree, p, side) ELSE tree
                  top   == IF inner THEN pivot ELSE p
              IN tree' = Rotated(Coloured(outer, {g}, {top}), g, Other(side))
           /\ stage' = "rest" /\ pivot' = Nil
  /\ UNCHANGED <<removed, content>>

-----------------------------------------------------------------------------
(* swap(): two nodes exchange places and colours. *)
Swapped(t, a, b) ==
  LET s(n) == IF n = a THEN b ELSE IF n = b THEN a ELSE n
  IN [root   |-> s(t.root), red |-> {s(n): n \in t.red},
      parent |-> [n \in Keys |-> s(t.parent[s(n)])],
      child  |-> [side \in Sides |-> [n \in Keys |-> s(t.child[side][s(n)])]]]

(* remove(): remove_node() up to the loop of remove_rebalance() *)
Remove(k) ==
  /\ stage = "rest" /\ k \in content
  /\ LET t == IF Nil \notin Children(tree, k)
              THEN Swapped(tree, k, Outermost(tree, Child(tree, k, "left"), "right")) ELSE tree
         c == IF Child(t, k, "left") # Nil THEN Child(t, k, "left") ELSE Child(t, k, "right")
         spliced == IF c = Nil THEN t ELSE Linked(Adopted(t, c, t.parent[k]), t.parent[k], k, c)
     IN IF Red(t, k) \/ Red(t, c)
        THEN /\ tree' = Coloured(spliced, {}, IF Red(t, k) THEN {} ELSE {c})
             /\ stage' = "detach"
             /\ UNCHANGED pivot
        ELSE /\ tree' = spliced
             /\ stage' = "remove" /\ pivot' = IF c = Nil THEN k ELSE c
  /\ removed' = k
  /\ content' = content \ {k}

BothBlack(t, n) == \A c \in Children(t, n): Black(t, c)

(* One turn of remove_rebalance(). *)
RemoveRebalance ==
  /\ stage = "remove"
  /\ IF tree.parent[pivot] = Nil
     THEN /\ tree' = Coloured(tree, {}, {tree.root})
          /\ stage' = "detach" /\ pivot' = Nil
     ELSE LET p    == tree.parent[pivot]
              side == WhichChild(tree, pivot)
              s0   == Sibling(tree, pivot)
              t    == IF Red(tree, s0) THEN Rotated(Coloured(tree, {p}, {s0}), p, side) ELSE tree
              s    == Sibling(t, pivot)
              near == Child(t, s, side)
              far  == Child(t, s, Other(side))
          IN \/ /\ Black(t, p) /\ Black(t, s) /\ BothBlack(t, s)
                /\ tree' = Coloured(t, {s}, {})
                /\ pivot' = p
                /\ UNCHANGED stage
             \/ /\ Red(t, p) /\ Black(t, s) /\ BothBlack(t, s)
                /\ tree' = Coloured(t, {s}, {p})
                /\ stage' = "detach" /\ pivot' = Nil
             \/ /\ Red(t, s) \/ ~BothBlack(t, s)
                /\ LET turn == Black(t, s) /\ Red(t, near) /\ Black(t, far)
                       t1   == IF turn THEN Rotated(Coloured(t, {s}, {near}), s, Other(side)) ELSE t
                       s1   == Sibling(t1, pivot)
                   IN tree' = Rotated(Coloured(t1, IF Red(t, p) THEN {s1} ELSE {},
                                               (IF Red(t, p) THEN {} ELSE {s1})
                                                 \cup {p, Child(t1, s1, Other(side))}), p, side)
                /\ stage' = "detach" /\ pivot' = Nil
  /\ UNCHANGED <<removed, content>>

(* The end of remove_node(); the node is deleted. *)
Detach ==
  /\ stage = "detach"
  /\ LET leaf == Children(tree, removed) = {Nil}
         t    == IF leaf THEN Linked(tree, tree.parent[removed], removed, Nil) ELSE tree
     IN tree' = [Coloured(t, {}, {removed}) EXCEPT
                   !.root = IF content = {} THEN Nil ELSE @,
                   !.parent[removed] = Nil,
                   !.child = [side \in Sides |-> [@[side] EXCEPT ![removed] = Nil]]]
  /\ stage' = "rest" /\ removed' = Nil
  /\ UNCHANGED <<pivot, content>>

Clear ==
  /\ stage = "rest"
  /\ tree' = [root |-> Nil, red |-> {}, parent |-> [k \in Keys |-> Nil],
              child |-> [side \in Sides |-> [k \in Keys |-> Nil]]]
  /\ content' = {}
  /\ UNCHANGED <<stage, pivot, removed>>

Next ==
  \/ \E k \in Keys, hint \in content \cup {Nil}: Insert(k, hint)
  \/ InsertRebalance
  \/ \E k \in Keys: Remove(k)
  \/ RemoveRebalance \/ Detach \/ Clear

Spec == Init /\ [][Next]_treeVars

-----------------------------------------------------------------------------
TypeOK ==
  /\ tree \in [root: Keys \cup {Nil}, red: SUBSET Keys, parent: [Keys -> Keys \cup {Nil}],
               child: [Sides -> [Keys -> Keys \cup {Nil}]]]
  /\ stage \in {"rest", "insert", "remove", "detach"}
  /\ pivot \in Keys \cup {Nil} /\ removed \in Keys \cup {Nil}
  /\ content \subseteq Keys

(* Between calls, iteration in both directions goes through the keys in     *)
(* order, and every search, for a key or a bound, finds what it should.     *)
Beside(k, side) ==
  LET beyond == IF side = "right" THEN {x \in content: x > k} ELSE {x \in content: x < k}
  IN IF beyond = {} THEN Nil ELSE IF side = "right" THEN Min(beyond) ELSE Max(beyond)

TreeIsASet ==
  stage = "rest" =>
    /\ \A k \in content, side \in Sides: Neighbour(tree, k, side) = Beside(k, side)
    /\ \A k \in content: Found(tree, k, tree.root) = k
    /\ \A k \in Keys:
         /\ LowerBound(tree, k) = IF k \in content THEN k ELSE Beside(k, "right")
         /\ UpperBound(tree, k) = Beside(k, "right")

(* Between calls no path is more than twice as long as another: the root is *)
(* black, no red node has a red parent, and all paths have as many black    *)
(* nodes.                                                                   *)
TreeIsBalanced ==
  LET blacks[n \in Keys] ==
        (IF Black(tree, n) THEN 1 ELSE 0) + (IF tree.parent[n] = Nil THEN 0 ELSE blacks[tree.parent[n]])
  IN stage = "rest" =>
       /\ Black(tree, tree.root)
       /\ \A k \in content: Red(tree, k) => Black(tree, tree.parent[k])
       /\ \A k, m \in content:
            Nil \in Children(tree, k) /\ Nil \in Children(tree, m) => blacks[k] = blacks[m]
=============================================================================
