---------------------------- MODULE SimulatedTrees ----------------------------
(***************************************************************************)
(* The search trees of Asio/model/container: binary_tree and balance_tree  *)
(* (simulate_tree.hpp), red_black_tree (simulate_base.hpp), one of them at *)
(* a time.                                                                 *)
(*                                                                         *)
(* A node is named by the key it holds, so two nodes that swap their data  *)
(* swap their names.  mark is the balance factor of a balance_tree and the *)
(* colour of a red_black_tree.  An operation ends well, or it follows a    *)
(* null pointer ("crashed") or never returns ("hangs"): after that nothing *)
(* more is asked of the tree.                                              *)
(***************************************************************************)
EXTENDS Integers, Sequences, FiniteSets

CONSTANTS
    Kinds,        \* which of "binary", "balance", "red_black" are tried
    Keys          \* 1 .. n

VARIABLES
    kind,
    tree,         \* root, left, right, up, mark, fate
    contents      \* the keys pushed and not popped

vars == <<kind, tree, contents>>

Null == 0
Red == 1
Black == 0

Empty ==
    LET none == [k \in Keys |-> Null]
    IN  [root |-> Null, left |-> none, right |-> none, up |-> none,
         mark |-> none, fate |-> "well"]

Init ==
    /\ kind \in Kinds
    /\ tree = Empty
    /\ contents = {}

-----------------------------------------------------------------------------
(* Finding a place *)

Turn(t, x, k) == IF k < x THEN t.left[x] ELSE t.right[x]

(* The node with key k, or Null, and the node above it.                    *)
RECURSIVE Walk(_, _, _, _)
Walk(t, k, x, above) ==
    IF x \in {Null, k} THEN [at |-> x, above |-> above]
    ELSE Walk(t, k, Turn(t, x, k), x)

Place(t, k) == Walk(t, k, t.root, Null)

(* find of binary_tree and of balance_tree                                 *)
Find(t, k) == Place(t, k).at

(* y in the place of x under the node that was above x.                    *)
Relink(t, above, x, y) ==
    IF above = Null THEN [t EXCEPT !.root = y]
    ELSE IF t.left[above] = x THEN [t EXCEPT !.left[above] = y]
    ELSE [t EXCEPT !.right[above] = y]

(* Mutant: the link upwards stays as it was. *)
RaiseNot(t, y, above) == t

Raise(t, y, above) == IF y = Null THEN t ELSE [t EXCEPT !.up[y] = above]
Crash(t) == [t EXCEPT !.fate = "crashed"]
Hang(t)  == [t EXCEPT !.fate = "hangs"]

-----------------------------------------------------------------------------
(* left_revolve, right_revolve: x goes down, its child on the other side   *)
(* takes its place.                                                        *)

LeftRevolve(t, x) ==
    LET y == t.right[x]
        m == t.left[y]
        p == t.up[x]
        a == Raise([t EXCEPT !.right[x] = m, !.left[y] = x, !.up[x] = y], m, x)
    IN  IF y = Null THEN Crash(t)
        ELSE [Relink(a, p, x, y) EXCEPT !.up[y] = p]

RightRevolve(t, x) ==
    LET y == t.left[x]
        m == t.right[y]
        p == t.up[x]
        a == Raise([t EXCEPT !.left[x] = m, !.right[y] = x, !.up[x] = y], m, x)
    IN  IF y = Null THEN Crash(t)
        ELSE [Relink(a, p, x, y) EXCEPT !.up[y] = p]

Flat(t, x, y) ==
    IF t.fate # "well" THEN t ELSE [t EXCEPT !.mark[x] = 0, !.mark[y] = 0]

(* Those of balance_tree also set the two balance factors.                 *)
LeftBalance(t, x)  == Flat(LeftRevolve(t, x), x, t.right[x])
RightBalance(t, x) == Flat(RightRevolve(t, x), x, t.left[x])

RightLeftBalance(t, x) ==
    LET y == t.right[x]
        m == t.left[y]
        turned == LeftRevolve(RightRevolve(t, y), x)
    IN  IF m = Null THEN Crash(t)
        ELSE [turned EXCEPT !.mark[m] = 0,
                            !.mark[x] = IF t.mark[m] = 1 THEN -1 ELSE 0,
                            !.mark[y] = IF t.mark[m] = -1 THEN 1 ELSE 0]

LeftRightBalance(t, x) ==
    LET y == t.left[x]
        m == t.right[y]
        turned == RightRevolve(LeftRevolve(t, y), x)
    IN  IF m = Null THEN Crash(t)
        ELSE [turned EXCEPT !.mark[m] = 0,
                            !.mark[x] = IF t.mark[m] = 1 THEN -1 ELSE 0,
                            !.mark[y] = IF t.mark[m] = -1 THEN 1 ELSE 0]

-----------------------------------------------------------------------------
(* push *)

(* A new leaf x under the node where the search for it ends.               *)
Leaf(t, x, mark) ==
    LET p == Place(t, x).above
        new == [t EXCEPT !.up[x] = p, !.mark[x] = mark]
    IN  IF p = Null THEN [new EXCEPT !.root = x]
        ELSE IF x < p THEN [new EXCEPT !.left[p] = x]
        ELSE [new EXCEPT !.right[p] = x]

(* The loop of balance_tree::push at node x under p.  It goes on after a   *)
(* rotation, and for ever from a balance factor beyond two.                *)
RECURSIVE BalanceUp(_, _, _)
BalanceUp(t, x, p) ==
    LET b == t.mark[p] + (IF t.left[p] = x THEN -1 ELSE 1)
        u == [t EXCEPT !.mark[p] = b]
        turned == IF b = 2
                  THEN IF t.mark[x] = 1 THEN LeftBalance(u, p) ELSE RightLeftBalance(u, p)
                  ELSE IF t.mark[x] = -1 THEN RightBalance(u, p) ELSE LeftRightBalance(u, p)
    IN  IF p = Null THEN t
        ELSE IF b = 0 THEN u
        ELSE IF b \in {1, -1} THEN BalanceUp(u, p, u.up[p])
        ELSE IF b \notin {2, -2} THEN Hang(t)
        ELSE IF turned.fate # "well" THEN turned
        ELSE BalanceUp(turned, p, turned.up[p])

Paint(t, x, colour) == [t EXCEPT !.mark[x] = colour]
IsRed(t, x)   == x # Null /\ t.mark[x] = Red
IsBlack(t, x) == ~IsRed(t, x)

(* The loop of red_black_tree::push at node x: a red uncle is repainted,   *)
(* otherwise the grandfather is turned down.                               *)
RECURSIVE Repaint(_, _)
Repaint(t, x) ==
    LET p == t.up[x]
        g == t.up[p]
        leftward == t.left[g] = p
        uncle == IF leftward THEN t.right[g] ELSE t.left[g]
        inner == x = IF leftward THEN t.right[p] ELSE t.left[p]
        outer == IF ~inner THEN t ELSE IF leftward THEN LeftRevolve(t, p) ELSE RightRevolve(t, p)
        top == IF inner THEN x ELSE p
        turned == IF leftward THEN RightRevolve(outer, g) ELSE LeftRevolve(outer, g)
    IN  IF p = Null \/ IsBlack(t, p) THEN t
        ELSE IF IsRed(t, uncle)
        THEN Repaint(Paint(Paint(Paint(t, p, Black), uncle, Black), g, Red), g)
        ELSE Paint(Paint(turned, g, Red), top, Black)

(* Mutant: the root stays as the loop has left it.                         *)
BlackRootNot(t) == t

BlackRoot(t) == IF t.root = Null \/ t.fate # "well" THEN t ELSE Paint(t, t.root, Black)

Pushed(t, k) ==
    CASE kind = "binary"    -> Leaf(t, k, 0)
      [] kind = "balance"   -> LET u == Leaf(t, k, 0) IN BalanceUp(u, k, u.up[k])
      [] kind = "red_black" -> BlackRoot(Repaint(Leaf(t, k, Red), k))

-----------------------------------------------------------------------------
(* pop *)

(* Nodes a and b swap their data.  Their balance factors stay where they   *)
(* are; the colours are swapped with the data.                             *)
Exchange(t, a, b) ==
    LET f == [k \in Keys \cup {Null} |-> IF k = a THEN b ELSE IF k = b THEN a ELSE k]
    IN  [t EXCEPT !.root = f[@],
                  !.left = [k \in Keys |-> f[t.left[f[k]]]],
                  !.right = [k \in Keys |-> f[t.right[f[k]]]],
                  !.up = [k \in Keys |-> f[t.up[f[k]]]],
                  !.mark = IF kind = "red_black" THEN @ ELSE [k \in Keys |-> t.mark[f[k]]]]

RECURSIVE Leftmost(_, _)
Leftmost(t, x) == IF t.left[x] = Null THEN x ELSE Leftmost(t, t.left[x])
RECURSIVE Rightmost(_, _)
Rightmost(t, x) == IF t.right[x] = Null THEN x ELSE Rightmost(t, t.right[x])

TwoChildren(t, x) == t.left[x] # Null /\ t.right[x] # Null
OnlyChild(t, x) == IF t.left[x] = Null THEN t.right[x] ELSE t.left[x]

(* Key k where it has one child at most.                                   *)
Lowered(t, k) ==
    IF TwoChildren(t, k) THEN Exchange(t, k, Leftmost(t, t.right[k])) ELSE t

(* Node x, which has one child at most, is taken out.                      *)
Detach(t, x) ==
    LET p == t.up[x]
        c == OnlyChild(t, x)
    IN  [Raise(Relink(t, p, x, c), c, p) EXCEPT
            !.left[x] = Null, !.right[x] = Null, !.up[x] = Null, !.mark[x] = 0]

(* The loop of balance_tree::pop at node x, one of whose subtrees is lower *)
(* or taken to be.                                                         *)
RECURSIVE BalanceDown(_, _, _)
BalanceDown(t, x, leftLower) ==
    LET b == t.mark[x] + (IF leftLower THEN 1 ELSE -1)
        u == [t EXCEPT !.mark[x] = b]
        c == IF b = 2 THEN u.right[x] ELSE u.left[x]
        turned == IF b = 2
                  THEN IF u.mark[c] = 1 THEN LeftBalance(u, x) ELSE RightLeftBalance(u, x)
                  ELSE IF u.mark[c] = -1 THEN RightBalance(u, x) ELSE LeftRightBalance(u, x)
        above(v) == BalanceDown(v, v.up[x], v.up[x] # Null /\ v.left[v.up[x]] = x)
    IN  IF x = Null THEN t
        ELSE IF b = 0 THEN u
        ELSE IF b \in {1, -1} THEN above(u)
        ELSE IF b \notin {2, -2} THEN Hang(t)
        ELSE IF c = Null THEN Crash(t)
        ELSE IF turned.fate # "well" THEN turned
        ELSE above(turned)

(* delete_adjust at node x under p, where a black node is missing.  On the *)
(* left of p the near nephew counts as black whatever it is, and a missing *)
(* brother is followed; on the right, without a brother, nothing changes   *)
(* any more.                                                               *)
RECURSIVE Adjust(_, _, _)
AdjustLeft(t0, x, p) ==
    LET red == t0.right[p]
        t == IF IsRed(t0, red)
             THEN LeftRevolve(Paint(Paint(t0, red, Black), p, Red), p) ELSE t0
        b == t.right[p]
        far == t.right[b]
        turned == LeftRevolve(Paint(Paint(Paint(t, b, t.mark[p]), p, Black), far, Black), p)
    IN  IF b = Null THEN Crash(t)
        ELSE IF IsRed(t, far) THEN Adjust(turned, turned.root, Null)
        ELSE IF IsBlack(t, b) THEN Adjust(Paint(t, b, Red), p, t.up[p])
        ELSE IF IsBlack(t0, red) THEN Hang(t) ELSE Adjust(t, x, p)

AdjustRight(t0, x, p) ==
    LET red == t0.left[p]
        t == IF IsRed(t0, red)
             THEN RightRevolve(Paint(Paint(t0, red, Black), p, Red), p) ELSE t0
        b == t.left[p]
        far == t.left[b]
        near == t.right[b]
        turned == RightRevolve(Paint(Paint(Paint(t, b, t.mark[p]), p, Black), far, Black), p)
    IN  IF b # Null /\ IsBlack(t, b) /\ IsBlack(t, far) /\ IsBlack(t, near)
        THEN Adjust(Paint(t, b, Red), p, t.up[p])
        ELSE IF b # Null /\ IsBlack(t, b) /\ IsBlack(t, far)
        THEN Adjust(LeftRevolve(Paint(Paint(t, near, Black), b, Red), b), x, p)
        ELSE IF b # Null /\ IsBlack(t, b)
        THEN Adjust(turned, turned.root, Null)
        ELSE IF IsBlack(t0, red) THEN Hang(t) ELSE Adjust(t, x, p)

Adjust(t, x, p) ==
    IF t.fate # "well" \/ t.root = Null THEN t
    ELSE IF x = t.root \/ IsRed(t, x) THEN Paint(t, x, Black)
    ELSE IF t.left[p] = x THEN AdjustLeft(t, x, p) ELSE AdjustRight(t, x, p)

(* The colour of the node that goes is taken before it is swapped.         *)
Popped(t, k) ==
    LET low == Lowered(t, k)
        p == low.up[k]
        out == Detach(low, k)
        next == IF TwoChildren(t, k) THEN Leftmost(t, t.right[k]) ELSE k
    IN  CASE kind = "binary"    -> out
          [] kind = "balance"   -> BalanceDown(out, p, p # Null /\ low.left[p] = k)
          [] kind = "red_black" ->
                BlackRoot(IF t.mark[next] = Red THEN out ELSE Adjust(out, OnlyChild(low, k), p))

-----------------------------------------------------------------------------
(* The operations.  A key that is there is not pushed a second time, one   *)
(* that is not there is not popped.                                        *)

Push(k) ==
    /\ tree.fate = "well" /\ Find(tree, k) = Null
    /\ tree' = Pushed(tree, k)
    /\ contents' = contents \cup {k}
    /\ UNCHANGED kind

(* push of a temporary, and of a key with its value: the same.             *)
PushMoved(k) == kind = "red_black" /\ Push(k)
PushPair(k) == kind = "balance" /\ Push(k)

Pop(k) ==
    /\ tree.fate = "well" /\ Find(tree, k) = k
    /\ tree' = Popped(tree, k)
    /\ contents' = contents \ {k}
    /\ UNCHANGED kind

Clear ==
    /\ tree.fate = "well"
    /\ tree' = Empty
    /\ contents' = {}
    /\ UNCHANGED kind

Next == Clear \/ \E k \in Keys : Push(k) \/ PushMoved(k) \/ PushPair(k) \/ Pop(k)

Spec == Init /\ [][Next]_vars

-----------------------------------------------------------------------------
(* Iteration: begin, ++ and rbegin, -- follow the links between the nodes. *)
(* binary_tree has no links upwards and walks with a stack instead, in the *)
(* same order.                                                             *)
RECURSIVE ClimbFrom(_, _, _)
ClimbFrom(t, side, x) ==
    IF t.up[x] # Null /\ side[t.up[x]] = x THEN ClimbFrom(t, side, t.up[x]) ELSE t.up[x]

Forward(t, x) ==
    IF t.right[x] # Null THEN Leftmost(t, t.right[x]) ELSE ClimbFrom(t, t.right, x)
Backward(t, x) ==
    IF t.left[x] # Null THEN Rightmost(t, t.left[x]) ELSE ClimbFrom(t, t.left, x)

(* The nodes from x on, up to one too many.                                *)
RECURSIVE Ahead(_, _, _), Behind(_, _, _)
Ahead(t, x, n) ==
    IF x = Null \/ n < 0 THEN <<>> ELSE <<x>> \o Ahead(t, Forward(t, x), n - 1)
Behind(t, x, n) ==
    IF x = Null \/ n < 0 THEN <<>> ELSE <<x>> \o Behind(t, Backward(t, x), n - 1)

Ascending(q) == \A i, j \in DOMAIN q : i < j => q[i] < q[j]

(* Whatever is pushed and popped in whatever order: begin and ++ visit     *)
(* what is in the tree, each key once and in ascending order, and rbegin   *)
(* and -- the same backwards, for as long as the tree can be used (the     *)
(* rotations, pop and the iterators).                                      *)
IterationIsContents ==
    tree.fate = "well" =>
        IF tree.root = Null THEN contents = {}
        ELSE LET n == Cardinality(Keys)
                 forth == Ahead(tree, Leftmost(tree, tree.root), n)
                 back  == Behind(tree, Rightmost(tree, tree.root), n)
             IN  /\ Ascending(forth)
                 /\ {forth[i] : i \in DOMAIN forth} = contents
                 /\ Len(back) = Len(forth)
                 /\ \A i \in DOMAIN back : back[i] = forth[Len(forth) + 1 - i]

RECURSIVE BlackHeights(_, _)
BlackHeights(t, x) ==
    IF x = Null THEN {0}
    ELSE {h + (IF IsBlack(t, x) THEN 1 ELSE 0) :
            h \in BlackHeights(t, t.left[x]) \cup BlackHeights(t, t.right[x])}

(* The rules of the colours: a black root, no red node under a red one,    *)
(* the same number of black nodes on every way down.                       *)
ColourRules(t) ==
    /\ IsBlack(t, t.root)
    /\ \A k \in Keys : IsRed(t, k) => ~IsRed(t, t.up[k])
    /\ Cardinality(BlackHeights(t, t.root)) = 1

(* A push into a tree that keeps the rules leaves one that keeps them      *)
(* (red_black_tree::push; pop does not).                                   *)
PushKeepsColours ==
    [][kind = "red_black" /\ contents \subseteq contents' /\ ColourRules(tree)
        => ColourRules(tree')]_vars
=============================================================================
