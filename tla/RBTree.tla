------------------------------- MODULE RBTree -------------------------------
(***************************************************************************)
(* The red-black tree of kdevelop-rbtree/src/rb_tree.c with the insertion  *)
(* and the search its users write around it (rbt_insert_event and          *)
(* rbt_find_event of net_event.c).  A node is its key; a null pointer is   *)
(* Null.  Insertion takes one action for each turn of its two loops, so    *)
(* that an invariant speaks of the tree between them; a pop is one action  *)
(* since the loop it has is never entered.  left and right mirror each     *)
(* other in the code, and are the two values of a direction here.          *)
(*                                                                         *)
(* A pop can lose nodes.  What the code does next depends on freed memory, *)
(* so the model stops there (Intact in Next).                              *)
(***************************************************************************)
EXTENDS Integers, FiniteSets

CONSTANTS
    Keys,      \* the keys that may be inserted, ordered by <
    Null,
    Pinned,    \* keys never popped (the listener's descriptor)
    MaxHeld    \* bound: nodes in the tree at a time

ASSUME TreeAssumption ==
    /\ Keys \subseteq Int /\ IsFiniteSet(Keys)
    /\ Null \notin Keys
    /\ Pinned \subseteq Keys
    /\ MaxHeld \in Nat

VARIABLES
    tree,   \* *proot and the fields of the nodes
    held,   \* history: the keys linked into the tree and not popped since
    peak,   \* history: the most nodes held at a time
    pc,     \* "idle", or the loop of an insertion: "search", "fix"
    n,      \* the node inserted, then the node the fix-up loop is at
    cur     \* the search: cur_root

treeVars == <<tree, held, pc, n, cur>>
allVars == <<treeVars, peak>>

Red == 1
Black == 0
Dirs == {"left", "right"}
Other(d) == IF d = "left" THEN "right" ELSE "left"
Pointers == Keys \union {Null}

(***************************************************************************)
(* Pointer operations.                                                     *)
(***************************************************************************)

\* x->parent = p, when there is an x.
SetParent(t, x, p) == IF x = Null THEN t ELSE [t EXCEPT !.parent[x] = p]

\* The link from p to old, or the root when p is null, now leads to new.
Relink(t, p, old, new) ==
    IF p = Null THEN [t EXCEPT !.root = new]
    ELSE IF t.child["left"][p] = old THEN [t EXCEPT !.child["left"][p] = new]
                                     ELSE [t EXCEPT !.child["right"][p] = new]

\* Variant: the parent of the subtree that changes sides is not updated.
RotateNoParent(t, d, x) ==
    LET up  == t.child[Other(d)][x]
        mid == t.child[d][up]
        t1  == Relink([t EXCEPT !.child[Other(d)][x] = mid], t.parent[x], x, up)
    IN  [t1 EXCEPT !.parent[up] = t.parent[x], !.child[d][up] = x, !.parent[x] = up]

\* left_rotate (d = "left") and right_rotate of x.
Rotate(t, d, x) ==
    LET up  == t.child[Other(d)][x]
        mid == t.child[d][up]
        t1  == SetParent([t EXCEPT !.child[Other(d)][x] = mid], mid, x)
        t2  == Relink([t1 EXCEPT !.parent[up] = t.parent[x]], t.parent[x], x, up)
    IN  [t2 EXCEPT !.child[d][up] = x, !.parent[x] = up]

\* rbt_min (d = "left") and rbt_max of the subtree at x.
Extreme(t, d, x) ==
    LET walk[y \in Keys] == IF t.child[d][y] = Null THEN y ELSE walk[t.child[d][y]]
    IN  IF x = Null THEN Null ELSE walk[x]

\* Variant: one node up, whichever side it was reached from.
NeighbourUpOne(t, d, x) ==
    IF t.child[d][x] # Null THEN Extreme(t, Other(d), t.child[d][x]) ELSE t.parent[x]

\* rbt_next (d = "right") and rbt_prev of x.
Neighbour(t, d, x) ==
    LET climb[y \in Keys] ==
          IF t.parent[y] = Null \/ t.child[Other(d)][t.parent[y]] = y
          THEN t.parent[y] ELSE climb[t.parent[y]]
    IN  IF t.child[d][x] # Null THEN Extreme(t, Other(d), t.child[d][x]) ELSE climb[x]

(***************************************************************************)
(* What the structure is.                                                  *)
(***************************************************************************)

\* The node rbt_find_event is at after i steps, looking for k.
SearchPath(t, k) ==
    LET at[i \in 0..Cardinality(Keys)] ==
          IF i = 0 THEN t.root
          ELSE IF at[i - 1] \in {Null, k} THEN at[i - 1]
          ELSE t.child[IF k < at[i - 1] THEN "left" ELSE "right"][at[i - 1]]
    IN  at

\* The keys rbt_find_event finds.
Found(t) == {k \in Keys : \E i \in 0..Cardinality(Keys) : SearchPath(t, k)[i] = k}

\* The pointers of the nodes in the tree agree: a child knows its parent, the
\* root has none, and every other node is a child of the node it calls parent.
Linked(t, S) ==
    /\ \A x \in S, d \in Dirs : t.child[d][x] # Null =>
          t.child[d][x] \in S /\ t.parent[t.child[d][x]] = x
    /\ \A x \in S : IF t.parent[x] = Null
                    THEN t.root = x
                    ELSE t.parent[x] \in S /\ \E d \in Dirs : t.child[d][t.parent[x]] = x
    /\ S = {} <=> t.root = Null

Intact == Linked(tree, held) /\ Found(tree) = held

(***************************************************************************)
(* Insertion.                                                              *)
(***************************************************************************)
Insert(k) ==
    /\ pc = "idle"
    /\ k \notin held => Cardinality(held) < MaxHeld
    /\ pc' = "search"
    /\ n' = k
    /\ cur' = tree.root
    /\ UNCHANGED <<tree, held>>

\* Variant: cur_root does not move.
DescendStuck ==
    /\ pc = "search"
    /\ cur \notin {Null, n}
    /\ UNCHANGED treeVars

\* A turn of the search loop of rbt_insert_event: down by one node.
Descend ==
    /\ pc = "search"
    /\ cur \notin {Null, n}
    /\ LET side == IF n < cur THEN "left" ELSE "right"
           next == tree.child[side][cur]
       IN  IF next = Null
           THEN \* linked below cur, then the head of rbt_after_insert
                /\ tree' = [tree EXCEPT
                     !.child = [d \in Dirs |->
                        [tree.child[d] EXCEPT ![cur] = IF d = side THEN n ELSE tree.child[d][cur],
                                              ![n] = Null]],
                     !.parent[n] = cur,
                     !.color = [@ EXCEPT ![tree.root] = Black, ![n] = Red]]
                /\ held' = held \union {n}
                /\ pc' = "fix"
                /\ cur' = Null
           ELSE /\ cur' = next
                /\ UNCHANGED <<tree, held, pc>>
    /\ UNCHANGED n

\* The key is in the tree already: the insertion is given up with a warning.
FoundAlready ==
    /\ pc = "search"
    /\ cur = n
    /\ pc' = "idle"
    /\ cur' = Null
    /\ UNCHANGED <<tree, held, n>>

\* The first node becomes the root, and stays red.
InsertRoot ==
    /\ pc = "search"
    /\ cur = Null
    /\ tree' = [root   |-> n,
                color  |-> [tree.color EXCEPT ![n] = Red],
                parent |-> [tree.parent EXCEPT ![n] = Null],
                child  |-> [d \in Dirs |-> [tree.child[d] EXCEPT ![n] = Null]]]
    /\ held' = held \union {n}
    /\ pc' = "idle"
    /\ UNCHANGED <<n, cur>>

\* The condition of the loop of rbt_after_insert.
RedParent == tree.parent[n] # Null /\ tree.color[tree.parent[n]] = Red

Parent == tree.parent[n]
Grand  == tree.parent[Parent]
Side   == IF tree.child["left"][Grand] = Parent THEN "left" ELSE "right"
Uncle  == tree.child[Other(Side)][Grand]
RedUncle == Uncle # Null /\ tree.color[Uncle] = Red

\* Variant: one recolouring ends the insertion.
RecolorOnce ==
    /\ pc = "fix" /\ RedParent /\ RedUncle
    /\ tree' = [tree EXCEPT
         !.color = [@ EXCEPT ![Uncle] = Black, ![Parent] = Black,
                             ![Grand] = IF Grand = tree.root THEN Black ELSE Red]]
    /\ pc' = "idle"
    /\ UNCHANGED <<held, n, cur>>

\* Case 1: the uncle is red.
Recolor ==
    /\ pc = "fix" /\ RedParent /\ RedUncle
    /\ tree' = [tree EXCEPT
         !.color = [@ EXCEPT ![Uncle] = Black, ![Parent] = Black, ![Grand] = Red]]
    /\ n' = Grand
    /\ UNCHANGED <<held, pc, cur>>

\* Cases 2 and 3: the uncle is black.  Case 2 first turns an inner grandchild
\* into an outer one.
RotateUp ==
    /\ pc = "fix" /\ RedParent /\ ~RedUncle
    /\ LET inner == tree.child[Other(Side)][Parent] = n
           t1 == IF inner THEN Rotate(tree, Side, Parent) ELSE tree
           m  == IF inner THEN Parent ELSE n
           p  == t1.parent[m]
       IN  /\ tree' = Rotate([t1 EXCEPT !.color = [@ EXCEPT ![p] = Black, ![Grand] = Red]],
                             Other(Side), Grand)
           /\ n' = m
    /\ UNCHANGED <<held, pc, cur>>

\* Variant: the colour of the root is decremented, red or not.
InsertedDecrement ==
    /\ pc = "fix" /\ ~RedParent
    /\ tree' = [tree EXCEPT !.color[tree.root] = @ - 1]
    /\ pc' = "idle"
    /\ UNCHANGED <<held, n, cur>>

\* The loop ends: the root is black.
Inserted ==
    /\ pc = "fix" /\ ~RedParent
    /\ tree' = [tree EXCEPT !.color[tree.root] = Black]
    /\ pc' = "idle"
    /\ UNCHANGED <<held, n, cur>>

(***************************************************************************)
(* rbt_pop.                                                                *)
(***************************************************************************)

\* The node that leaves its place: k, or the next one when k has two children.
Leaving(t, k) == IF \A d \in Dirs : t.child[d][k] # Null THEN Neighbour(t, "right", k) ELSE k

\* The side on which the leaving node has its only child, if any.
OnlySide(t, x) == IF t.child["left"][x] # Null THEN "left" ELSE "right"

\* "pop x": the child of x takes its place.  The code links the child on the
\* side it had below x, whichever side of its parent x was on.
Splice(t, x) ==
    LET s == OnlySide(t, x)
        c == t.child[s][x]
        p == t.parent[x]
    IN  IF c = Null \/ p = Null THEN Relink(SetParent(t, c, p), p, x, c)
        ELSE [SetParent(t, c, p) EXCEPT !.child[s][p] = c]

\* Variant: the children of k are not told of their new parent.
ReplaceUntold(t, k, x) ==
    Relink([t EXCEPT !.parent[x] = t.parent[k], !.color[x] = t.color[k],
                     !.child = [d \in Dirs |-> [@[d] EXCEPT ![x] = t.child[d][k]]]],
           t.parent[k], k, x)

\* "replace ret to x": x takes the place of k.
Replace(t, k, x) ==
    LET t1 == Relink([t EXCEPT !.parent[x] = t.parent[k], !.color[x] = t.color[k],
                               !.child = [d \in Dirs |-> [@[d] EXCEPT ![x] = t.child[d][k]]]],
                     t.parent[k], k, x)
    IN  SetParent(SetParent(t1, t.child["left"][k], x), t.child["right"][k], x)

\* ret->left = ret->right = ret->parent = NULL, and red.
Detach(t, k) ==
    [t EXCEPT !.parent[k] = Null, !.color[k] = Red,
              !.child = [d \in Dirs |-> [@[d] EXCEPT ![k] = Null]]]

\* Variant: k itself always leaves its place.
PoppedDirectly(t, k) == Detach(Splice(t, k), k)

\* The fix-up of the colours before the splice does nothing: the loop runs
\* while n is black, and n has just been painted red (then black again).
Popped(t, k) ==
    LET x  == Leaving(t, k)
        t1 == Splice(t, x)
    IN  Detach(IF x = k THEN t1 ELSE Replace(t1, k, x), k)

Pop(k) ==
    /\ pc = "idle"
    /\ k \in held \ Pinned
    /\ tree' = Popped(tree, k)
    /\ held' = held \ {k}
    /\ UNCHANGED <<pc, n, cur>>

TreeInit ==
    /\ tree = [root   |-> Null,
               color  |-> [k \in Keys |-> Red],
               parent |-> [k \in Keys |-> Null],
               child  |-> [d \in Dirs |-> [k \in Keys |-> Null]]]
    /\ held = {}
    /\ peak = 0
    /\ pc = "idle"
    /\ n = Null
    /\ cur = Null

TreeNext ==
    /\ \/ Intact /\ \E k \in Keys : Insert(k) \/ Pop(k)
       \/ Descend \/ FoundAlready \/ InsertRoot
       \/ Recolor \/ RotateUp \/ Inserted
    /\ peak' = IF Cardinality(held') > peak THEN Cardinality(held') ELSE peak

TreeSpec == TreeInit /\ [][TreeNext]_allVars

\* The caller waits for each insertion, whose loops then run to their end.
FairTreeSpec == TreeSpec /\ WF_treeVars(Descend \/ FoundAlready \/ InsertRoot
                                        \/ Recolor \/ RotateUp \/ Inserted)

(***************************************************************************)
(* Properties.                                                             *)
(***************************************************************************)

\* The types of the tree and of the insertion under way.
TreeTypeOK ==
    /\ tree \in [root : Pointers, color : [Keys -> {Red, Black}],
                 parent : [Keys -> Pointers], child : [Dirs -> [Keys -> Pointers]]]
    /\ held \subseteq Keys
    /\ peak \in Nat
    /\ pc \in {"idle", "search", "fix"}
    /\ n \in Pointers
    /\ cur \in Pointers

\* Between any two steps, rotations included, the pointers agree and a search
\* finds exactly the keys inserted and not popped.
AlwaysIntact == Intact

\* rbt_next and rbt_prev visit the keys in order, from rbt_min to rbt_max.
ScansInOrder ==
    held # {} =>
        /\ \A k \in held :
             /\ Neighbour(tree, "right", k) =
                  IF \E j \in held : j > k
                  THEN CHOOSE j \in held : j > k /\ \A i \in held : i > k => i >= j
                  ELSE Null
             /\ Neighbour(tree, "left", k) =
                  IF \E j \in held : j < k
                  THEN CHOOSE j \in held : j < k /\ \A i \in held : i < k => i <= j
                  ELSE Null
        /\ \A k \in held : Extreme(tree, "left", tree.root) <= k
        /\ \A k \in held : k <= Extreme(tree, "right", tree.root)

\* The black nodes on each way down from the root to a node that lacks a child.
BlackHeights(t, S) ==
    LET depth[k \in Keys \union {Null}] ==
          IF k = Null THEN 0
          ELSE depth[t.parent[k]] + (IF t.color[k] = Black THEN 1 ELSE 0)
    IN  {depth[k] : k \in {k \in S : \E d \in Dirs : t.child[d][k] = Null}}

\* Every way down meets the same number of black nodes, and two reds never
\* meet but where the fix-up loop is at work, so that no search is longer than
\* twice another; each turn of the loop keeps it.
RedBlack ==
    /\ Cardinality(BlackHeights(tree, held)) <= 1
    /\ \A k \in held : tree.parent[k] # Null /\ ~(pc = "fix" /\ k = n) =>
         Black \in {tree.color[k], tree.color[tree.parent[k]]}

\* The server's listener and two connections.
ServerNodes == 3

\* As long as the tree has never had more nodes than that, insertions and pops
\* in any order are those of a set of keys, and leave the pointers in order.
Registry == INSTANCE OrderedSet WITH elems <- Found(tree)

SmallTreeImplementsSet ==
    [][peak' <= ServerNodes =>
          Intact' /\ (Registry!SetNext \/ UNCHANGED Found(tree))]_treeVars

\* A pop keeps the rest of the tree in place exactly when the node that leaves
\* has no child, or has it on its own side of its parent.
OwnSide(t, x) ==
    \/ t.parent[x] = Null
    \/ \A d \in Dirs : t.child[d][x] = Null
    \/ t.child[OnlySide(t, x)][t.parent[x]] = x

LosesOnlyByMisplacing ==
    [][\A k \in held : k \notin held' =>
          (Intact' <=> OwnSide(tree, Leaving(tree, k)))]_treeVars

\* Every insertion ends: neither loop turns for ever.
InsertionEnds == pc # "idle" ~> pc = "idle"
=============================================================================
