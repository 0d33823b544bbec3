---------------------------- MODULE RBTreeProofs ----------------------------
(***************************************************************************)
(* Theorems about RBTree.  A tree is described by a ghost function sub,    *)
(* which gives the keys at and below each node (Shape), and its colours by *)
(* another, h, which counts the black nodes below each (Balanced).  A      *)
(* rotation and a recolouring keep both; walks up, down and across the     *)
(* tree are followed by choosing a lowest or a highest node among those    *)
(* where they would go wrong.                                              *)
(*                                                                         *)
(* A pop may lose nodes, and always ignores the colours.  The theorems on  *)
(* colours are about trees that are only inserted into (NoPops); those on  *)
(* pops need the links alone (LinkInv), which a pop keeps exactly when it  *)
(* does not misplace a child.  In trees of the size a server has had, the  *)
(* root is the only node with children, and no child can be misplaced.     *)
(***************************************************************************)
EXTENDS RBTree, CountingLemmas, FiniteSetTheorems, TLAPS

(***************************************************************************)
(* What the pointer operations do, field by field.                         *)
(***************************************************************************)
Trees == [root : Pointers, color : [Keys -> {Red, Black}],
          parent : [Keys -> Pointers], child : [Dirs -> [Keys -> Pointers]]]

LEMMA Directions ==
    /\ Dirs = {"left", "right"} /\ "left" # "right"
    /\ \A d \in Dirs : Other(d) \in Dirs /\ Other(d) # d /\ Other(Other(d)) = d
    /\ \A d, e \in Dirs : e = d \/ e = Other(d)
BY DEF Dirs, Other

LEMMA PointerFacts == Null \notin Keys /\ \A k \in Keys : k \in Int /\ k # Null
BY TreeAssumption

LEMMA TreeFields ==
    ASSUME NEW t \in Trees
    PROVE  /\ t.root \in Pointers /\ t.color \in [Keys -> {Red, Black}]
           /\ t.parent \in [Keys -> Pointers] /\ t.child \in [Dirs -> [Keys -> Pointers]]
           /\ \A d \in Dirs : t.child[d] \in [Keys -> Pointers]
           /\ \A d \in Dirs, x \in Keys : t.child[d][x] \in Pointers
           /\ \A x \in Keys : t.parent[x] \in Pointers
           /\ \A x \in Keys : t.color[x] \in {Red, Black}
BY DEF Trees

\* x->left = m or x->right = m.
SetChild(t, d, x, m) == [t EXCEPT !.child[d][x] = m]

ChildSet(t, r, d, x, m) ==
    /\ r \in Trees
    /\ r.root = t.root /\ r.color = t.color /\ r.parent = t.parent
    /\ \A e \in Dirs, y \in Keys :
         r.child[e][y] = IF e = d /\ y = x THEN m ELSE t.child[e][y]

LEMMA SetChildView ==
    ASSUME NEW t \in Trees, NEW d \in Dirs, NEW x \in Keys, NEW m \in Pointers
    PROVE  ChildSet(t, SetChild(t, d, x, m), d, x, m)
<1> DEFINE r == SetChild(t, d, x, m)
<1> DEFINE c == [t.child EXCEPT ![d][x] = m]
<1>1. r = [t EXCEPT !.child = c]
  BY DEF Trees, SetChild
<1>2. c \in [Dirs -> [Keys -> Pointers]]
  BY TreeFields
<1>3. \A e \in Dirs, y \in Keys : c[e][y] = IF e = d /\ y = x THEN m ELSE t.child[e][y]
  BY TreeFields
<1> HIDE DEF c
<1>4. r \in Trees /\ r.root = t.root /\ r.color = t.color /\ r.parent = t.parent /\ r.child = c
  BY <1>1, <1>2 DEF Trees
<1> HIDE DEF r
<1>5. ChildSet(t, r, d, x, m)
  BY <1>3, <1>4 DEF ChildSet
<1> QED BY <1>5 DEF r

ParentSet(t, r, x, p) ==
    /\ r \in Trees
    /\ r.root = t.root /\ r.color = t.color /\ r.child = t.child
    /\ \A y \in Keys : r.parent[y] = IF y = x THEN p ELSE t.parent[y]

LEMMA SetParentView ==
    ASSUME NEW t \in Trees, NEW x \in Pointers, NEW p \in Pointers
    PROVE  ParentSet(t, SetParent(t, x, p), x, p)
<1> DEFINE r == SetParent(t, x, p)
<1> SUFFICES ParentSet(t, r, x, p)
  OBVIOUS
<1>1. CASE x = Null
   BY <1>1, PointerFacts DEF SetParent, ParentSet
<1>2. CASE x # Null
  <2> DEFINE c == [t.parent EXCEPT ![x] = p]
  <2>1. r = [t EXCEPT !.parent = c] /\ x \in Keys
    BY <1>2 DEF Trees, Pointers, SetParent
  <2>2. c \in [Keys -> Pointers]
    BY TreeFields
  <2>3. \A y \in Keys : c[y] = IF y = x THEN p ELSE t.parent[y]
    BY TreeFields
  <2> HIDE DEF c
  <2>4. r \in Trees /\ r.root = t.root /\ r.color = t.color /\ r.child = t.child /\ r.parent = c
    BY <2>1, <2>2 DEF Trees
  <2> HIDE DEF r
  <2> QED BY <2>3, <2>4 DEF ParentSet
<1> QED BY <1>1, <1>2

Relinked(t, r, p, old, new) ==
    /\ r \in Trees
    /\ r.color = t.color /\ r.parent = t.parent
    /\ r.root = IF p = Null THEN new ELSE t.root
    /\ \A e \in Dirs, y \in Keys :
         r.child[e][y] =
           IF y = p /\ e = (IF t.child["left"][p] = old THEN "left" ELSE "right")
           THEN new ELSE t.child[e][y]

LEMMA RelinkView ==
    ASSUME NEW t \in Trees, NEW p \in Pointers, NEW old \in Keys, NEW new \in Pointers
    PROVE  Relinked(t, Relink(t, p, old, new), p, old, new)
<1> DEFINE r == Relink(t, p, old, new)
<1> SUFFICES Relinked(t, r, p, old, new)
  OBVIOUS
<1>1. CASE p = Null
  <2>1. r = [t EXCEPT !.root = new]
      BY <1>1 DEF Relink
  <2>2. /\ r \in Trees /\ r.root = new
        /\ r.color = t.color /\ r.parent = t.parent /\ r.child = t.child
      BY <2>1 DEF Trees
  <2> HIDE DEF r
  <2> QED BY <1>1, <2>2, PointerFacts DEF Relinked
<1>2. CASE p # Null
  <2> DEFINE e == IF t.child["left"][p] = old THEN "left" ELSE "right"
  <2>1. p \in Keys /\ e \in Dirs
      BY <1>2 DEF Pointers, Dirs
  <2>2. r = SetChild(t, e, p, new)
      BY <1>2 DEF Relink, SetChild
  <2> HIDE DEF e, r
  <2>3. ChildSet(t, r, e, p, new)
      BY <2>1, <2>2, SetChildView
  <2> QED BY <1>2, <2>3 DEF e, ChildSet, Relinked
<1> QED BY <1>1, <1>2

\* x with its child up on the other side of d, and what hangs between them.
Pivot(t, d, x, up, mid, p) ==
    /\ d \in Dirs /\ x \in Keys /\ up \in Keys /\ up # x
    /\ up = t.child[Other(d)][x]
    /\ mid = t.child[d][up] /\ mid # x /\ mid # up
    /\ p = t.parent[x] /\ p # x /\ p # up
    /\ p # Null => t.child["left"][p] = x \/ t.child["right"][p] = x
    /\ p # Null => \A e \in Dirs : t.child[e][p] = x => t.child[Other(e)][p] # x

\* r is t with the two turned.
Rotated(t, r, d, x, up, mid, p) ==
    /\ r \in Trees /\ r.color = t.color
    /\ r.root = IF p = Null THEN up ELSE t.root
    /\ \A y \in Keys :
         r.parent[y] = IF y = x THEN up
                       ELSE IF y = up THEN p
                       ELSE IF y = mid THEN x ELSE t.parent[y]
    /\ \A e \in Dirs, y \in Keys :
         r.child[e][y] = IF y = x /\ e = Other(d) THEN mid
                         ELSE IF y = up /\ e = d THEN x
                         ELSE IF y = p /\ t.child[e][y] = x THEN up
                         ELSE t.child[e][y]

LEMMA RotateView ==
    ASSUME NEW t \in Trees, NEW d, NEW x, NEW up, NEW mid, NEW p, Pivot(t, d, x, up, mid, p)
    PROVE  Rotated(t, Rotate(t, d, x), d, x, up, mid, p)
<1> DEFINE r == Rotate(t, d, x)
<1>1. /\ d \in Dirs /\ x \in Keys /\ up \in Keys /\ mid \in Pointers /\ p \in Pointers
      /\ Other(d) \in Dirs /\ Other(d) # d
    BY TreeFields, Directions DEF Pivot
<1> DEFINE a  == SetChild(t, Other(d), x, mid)
           t1 == SetParent(a, mid, x)
           b  == SetParent(t1, up, p)
           t2 == Relink(b, p, x, up)
           c  == SetChild(t2, d, up, x)
<1>2. r = SetParent(c, x, up)
  <2>1. /\ up = t.child[Other(d)][x] /\ mid = t.child[d][up] /\ p = t.parent[x]
        /\ up # Null /\ x # Null
      BY <1>1, PointerFacts DEF Pivot
  <2>2. a = [t EXCEPT !.child[Other(d)][x] = t.child[d][t.child[Other(d)][x]]]
      BY <2>1 DEF SetChild
  <2> HIDE DEF a
  <2>3. b = [t1 EXCEPT !.parent[t.child[Other(d)][x]] = t.parent[x]]
      BY <2>1 DEF SetParent
  <2> HIDE DEF t1
  <2>4. t2 = Relink(b, t.parent[x], x, t.child[Other(d)][x])
      BY <2>1
  <2> HIDE DEF b
  <2>5. c = [t2 EXCEPT !.child[d][t.child[Other(d)][x]] = x]
      BY <2>1 DEF SetChild
  <2> HIDE DEF t2
  <2>6. SetParent(c, x, up) = [c EXCEPT !.parent[x] = t.child[Other(d)][x]]
      BY <2>1 DEF SetParent
  <2>7. t1 = SetParent(a, t.child[d][t.child[Other(d)][x]], x)
      BY <2>1 DEF t1
  <2> HIDE DEF c
  <2> QED BY <2>2, <2>3, <2>4, <2>5, <2>6, <2>7 DEF Rotate, r
<1>12. /\ a = SetChild(t, Other(d), x, mid)
       /\ t1 = SetParent(a, mid, x)
       /\ b = SetParent(t1, up, p)
       /\ t2 = Relink(b, p, x, up)
       /\ c = SetChild(t2, d, up, x)
    OBVIOUS
<1> HIDE DEF a, t1, b, t2, c, r
<1>3. x \in Pointers /\ up \in Pointers
    BY <1>1 DEF Pointers
<1>4. ChildSet(t, a, Other(d), x, mid)
    BY <1>1, <1>12, SetChildView
<1>20. a \in Trees
    BY <1>4 DEF ChildSet
<1>5. ParentSet(a, t1, mid, x)
    BY <1>1, <1>3, <1>20, <1>12, SetParentView
<1>14. t1 \in Trees
    BY <1>5 DEF ParentSet
<1>6. ParentSet(t1, b, up, p)
    BY <1>1, <1>3, <1>14, <1>12, SetParentView
<1>15. b \in Trees
    BY <1>6 DEF ParentSet
<1>7. Relinked(b, t2, p, x, up)
    BY <1>1, <1>3, <1>15, <1>12, RelinkView
<1>16. t2 \in Trees
    BY <1>7 DEF Relinked
<1>8. ChildSet(t2, c, d, up, x)
    BY <1>1, <1>3, <1>16, <1>12, SetChildView
<1>17. c \in Trees
    BY <1>8 DEF ChildSet
<1>13. ParentSet(c, r, x, up)
    BY <1>1, <1>2, <1>3, <1>17, SetParentView
<1>18. /\ r \in Trees
       /\ r.color = t.color
       /\ r.root = IF p = Null THEN up ELSE t.root
       /\ b.child = a.child /\ r.child = c.child
    BY <1>4, <1>5, <1>6, <1>7, <1>8, <1>13 DEF ChildSet, ParentSet, Relinked
<1>19. \A e \in Dirs, y \in Keys :
         a.child[e][y] = IF e = Other(d) /\ y = x THEN mid ELSE t.child[e][y]
    BY <1>4 DEF ChildSet
<1>9. p # Null => \A e \in Dirs : t.child[e][p] = x
                     <=> e = (IF b.child["left"][p] = x THEN "left" ELSE "right")
  <2> SUFFICES ASSUME p # Null, NEW e \in Dirs
               PROVE  t.child[e][p] = x
                        <=> e = (IF b.child["left"][p] = x THEN "left" ELSE "right")
      OBVIOUS
  <2>1. p \in Keys /\ "left" \in Dirs /\ p # x
      BY <1>1, Directions DEF Pointers, Pivot
  <2>2. b.child["left"][p] = t.child["left"][p]
      BY <1>18, <1>19, <2>1
  <2> QED BY <2>2, Directions DEF Pivot, Other, Dirs
<1>10. \A e \in Dirs, y \in Keys :
          r.child[e][y] = IF y = x /\ e = Other(d) THEN mid
                          ELSE IF y = up /\ e = d THEN x
                          ELSE IF y = p /\ t.child[e][y] = x THEN up
                          ELSE t.child[e][y]
  <2> SUFFICES ASSUME NEW e \in Dirs, NEW y \in Keys
               PROVE  r.child[e][y] = IF y = x /\ e = Other(d) THEN mid
                                      ELSE IF y = up /\ e = d THEN x
                                      ELSE IF y = p /\ t.child[e][y] = x THEN up
                                      ELSE t.child[e][y]
      OBVIOUS
  <2>1. r.child[e][y] = IF e = d /\ y = up THEN x ELSE t2.child[e][y]
      BY <1>8, <1>18 DEF ChildSet
  <2>2. y # Null
      BY PointerFacts
  <2>3. t2.child[e][y] = IF y = p /\ e = (IF b.child["left"][p] = x THEN "left" ELSE "right")
                         THEN up ELSE b.child[e][y]
      BY <1>7 DEF Relinked
  <2>4. b.child[e][y] = IF e = Other(d) /\ y = x THEN mid ELSE t.child[e][y]
      BY <1>18, <1>19
  <2> QED BY <1>9, <2>1, <2>2, <2>3, <2>4 DEF Pivot
<1>11. \A y \in Keys :
          r.parent[y] = IF y = x THEN up
                        ELSE IF y = up THEN p
                        ELSE IF y = mid THEN x ELSE t.parent[y]
  <2> TAKE y \in Keys
  <2>1. a.parent = t.parent /\ t2.parent = b.parent /\ c.parent = t2.parent
      BY <1>4, <1>7, <1>8 DEF ChildSet, Relinked
  <2>2. r.parent[y] = IF y = x THEN up ELSE c.parent[y]
      BY <1>13 DEF ParentSet
  <2>3. b.parent[y] = IF y = up THEN p ELSE t1.parent[y]
      BY <1>6 DEF ParentSet
  <2>4. t1.parent[y] = IF y = mid THEN x ELSE a.parent[y]
      BY <1>5 DEF ParentSet
  <2> QED BY <2>1, <2>2, <2>3, <2>4
<1>21. Rotated(t, r, d, x, up, mid, p)
    BY <1>18, <1>10, <1>11 DEF Rotated
<1> QED BY <1>21 DEF r

(***************************************************************************)
(* The shape of a tree.  sub gives the keys at and below each node.        *)
(***************************************************************************)

\* x comes before y, seen in direction d.
Before(d, x, y) == IF d = "left" THEN x < y ELSE y < x

LEMMA BeforeOrder ==
    ASSUME NEW d \in Dirs, NEW x \in Keys, NEW y \in Keys
    PROVE  /\ ~Before(d, x, x)
           /\ Before(d, x, y) <=> Before(Other(d), y, x)
           /\ x # y => Before(d, x, y) \/ Before(d, y, x)
           /\ ~(Before(d, x, y) /\ Before(d, y, x))
           /\ \A z \in Keys : Before(d, x, y) /\ Before(d, y, z) => Before(d, x, z)
BY PointerFacts DEF Before, Dirs, Other

Under(sub, z, c) == c # Null /\ z \in sub[c]

Spans(t, S, sub) ==
    \A x \in S, z \in S :
        z \in sub[x] <=> \/ z = x
                         \/ Under(sub, z, t.child["left"][x])
                         \/ Under(sub, z, t.child["right"][x])

Sorted(t, S, sub) ==
    \A x \in S, d \in Dirs, z \in S : Under(sub, z, t.child[d][x]) => Before(d, z, x)

Rooted(t, S, sub) ==
    t.root # Null => t.root \in S /\ sub[t.root] = S /\ t.parent[t.root] = Null

Unlinked(t, S) ==
    \A k \in Keys \ S : t.parent[k] = Null /\ \A d \in Dirs : t.child[d][k] = Null

Shape(t, S, sub) ==
    /\ S \subseteq Keys /\ sub \in [Keys -> SUBSET Keys] /\ \A x \in S : sub[x] \subseteq S
    /\ Spans(t, S, sub) /\ Sorted(t, S, sub) /\ Rooted(t, S, sub)
    /\ Linked(t, S) /\ Unlinked(t, S)

\* What the links of a shape say of a node and of a child.
LEMMA ChildFacts ==
    ASSUME NEW t \in Trees, NEW S, NEW sub, Shape(t, S, sub), NEW x \in S
    PROVE  /\ x \in Keys /\ x \in sub[x] /\ sub[x] \subseteq S
           /\ \A d \in Dirs : t.child[d][x] # Null =>
                /\ t.child[d][x] \in S /\ t.child[d][x] \in Keys
                /\ t.parent[t.child[d][x]] = x
                /\ sub[t.child[d][x]] \subseteq sub[x] /\ x \notin sub[t.child[d][x]]
                /\ t.child[d][x] # x
                /\ t.child[Other(d)][x] # t.child[d][x]
           /\ \A d \in Dirs, z \in S :
                z \in sub[x] <=> \/ z = x
                                 \/ Under(sub, z, t.child[d][x])
                                 \/ Under(sub, z, t.child[Other(d)][x])
<1>1. x \in Keys /\ x \in sub[x] /\ sub[x] \subseteq S
    BY DEF Shape, Spans
<1>2. \A d \in Dirs, z \in S :
         z \in sub[x] <=> \/ z = x
                          \/ Under(sub, z, t.child[d][x])
                          \/ Under(sub, z, t.child[Other(d)][x])
    BY DEF Shape, Spans, Dirs, Other
<1>3. ASSUME NEW d \in Dirs, t.child[d][x] # Null
      PROVE  /\ t.child[d][x] \in S /\ t.child[d][x] \in Keys
             /\ t.parent[t.child[d][x]] = x
             /\ sub[t.child[d][x]] \subseteq sub[x] /\ x \notin sub[t.child[d][x]]
             /\ t.child[d][x] # x
             /\ t.child[Other(d)][x] # t.child[d][x]
  <2> DEFINE c == t.child[d][x]
  <2>1. c \in S /\ c \in Keys /\ t.parent[c] = x
      BY <1>3 DEF Shape, Linked
  <2>2. c \in sub[c] /\ sub[c] \subseteq S
      BY <2>1 DEF Shape, Spans
  <2>3. sub[c] \subseteq sub[x]
      BY <1>2, <1>3, <2>2 DEF Under
  <2>4. \A z \in sub[c] : Before(d, z, x)
      BY <1>3, <2>2 DEF Shape, Sorted, Under
  <2>5. x \notin sub[c]
      BY <1>1, <2>4, BeforeOrder
  <2>6. t.child[Other(d)][x] # c
    <3> SUFFICES ASSUME t.child[Other(d)][x] = c PROVE FALSE
        OBVIOUS
    <3>1. Other(d) \in Dirs
        BY Directions
    <3>2. Before(Other(d), c, x)
        BY <1>3, <2>1, <2>2, <3>1 DEF Shape, Sorted, Under
    <3> QED BY <1>1, <2>1, <2>2, <2>4, <3>2, BeforeOrder
  <2> QED BY <2>1, <2>2, <2>3, <2>5, <2>6
<1> QED BY <1>1, <1>2, <1>3

\* ... and of its parent.
LEMMA ParentFacts ==
    ASSUME NEW t \in Trees, NEW S, NEW sub, Shape(t, S, sub), NEW x \in S
    PROVE  /\ t.parent[x] = Null <=> t.root = x
           /\ t.parent[x] # Null =>
                /\ t.parent[x] \in S /\ t.parent[x] \in Keys /\ t.parent[x] # x
                /\ \E d \in Dirs : /\ t.child[d][t.parent[x]] = x
                                   /\ t.child[Other(d)][t.parent[x]] # x
                /\ \A d \in Dirs, y \in S : t.child[d][y] = x => y = t.parent[x]
<1>1. x \in Keys /\ x # Null
    BY PointerFacts DEF Shape
<1>2. t.parent[x] = Null <=> t.root = x
    BY <1>1 DEF Shape, Linked, Rooted
<1>3. ASSUME t.parent[x] # Null
      PROVE  /\ t.parent[x] \in S /\ t.parent[x] \in Keys /\ t.parent[x] # x
             /\ \E d \in Dirs : /\ t.child[d][t.parent[x]] = x
                                /\ t.child[Other(d)][t.parent[x]] # x
             /\ \A d \in Dirs, y \in S : t.child[d][y] = x => y = t.parent[x]
  <2>1. t.parent[x] \in S /\ \E d \in Dirs : t.child[d][t.parent[x]] = x
      BY <1>3 DEF Shape, Linked
  <2>2. PICK d \in Dirs : t.child[d][t.parent[x]] = x
      BY <2>1
  <2>3. t.parent[x] \in Keys /\ t.parent[x] # x /\ t.child[Other(d)][t.parent[x]] # x
      BY <1>1, <2>1, <2>2, ChildFacts
  <2>4. \A e \in Dirs, y \in S : t.child[e][y] = x => y = t.parent[x]
      BY <1>1 DEF Shape, Linked
  <2> QED BY <2>1, <2>2, <2>3, <2>4
<1> QED BY <1>2, <1>3

LEMMA SizeFacts ==
    ASSUME NEW A \in SUBSET Keys
    PROVE  /\ IsFiniteSet(A) /\ Cardinality(A) \in Nat /\ Cardinality(A) <= Cardinality(Keys)
           /\ \A B \in SUBSET A, x \in A : x \notin B => Cardinality(B) < Cardinality(A)
           /\ A # {} => Cardinality(A) # 0
<1>1. IsFiniteSet(A) /\ Cardinality(A) <= Cardinality(Keys)
    BY TreeAssumption, FS_Subset
<1>2. Cardinality(A) \in Nat
    BY <1>1, FS_CardinalityType
<1>3. ASSUME NEW B \in SUBSET A, NEW x \in A, x \notin B
      PROVE  Cardinality(B) < Cardinality(A)
  <2>1. IsFiniteSet(B) /\ Cardinality(B) <= Cardinality(A) /\ (Cardinality(B) = Cardinality(A) => B = A)
      BY <1>1, FS_Subset
  <2>2. Cardinality(B) \in Nat
      BY <2>1, FS_CardinalityType
  <2> QED BY <1>2, <1>3, <2>1, <2>2
<1>4. A # {} => Cardinality(A) # 0
    BY <1>1, FS_EmptySet
<1> QED BY <1>1, <1>2, <1>3, <1>4

\* Among any nodes there is one with no child among them, and one whose parent
\* is not among them.
LEMMA LowestNode ==
    ASSUME NEW t \in Trees, NEW S, NEW sub, Shape(t, S, sub), NEW B \in SUBSET S, B # {}
    PROVE  \E x \in B : \A d \in Dirs : t.child[d][x] \notin B
<1> DEFINE m == [x \in B |-> Cardinality(sub[x])]
<1>1. \A x \in S : x \in Keys /\ sub[x] \in SUBSET Keys
    BY DEF Shape
<1>2. m \in [B -> Nat]
    BY <1>1, SizeFacts
<1>3. PICK x \in B : \A y \in B : m[x] <= m[y]
    BY <1>2, LeastMeasure
<1>4. ASSUME NEW d \in Dirs, t.child[d][x] \in B PROVE FALSE
  <2> DEFINE c == t.child[d][x]
  <2>1. c # Null
      BY <1>1, <1>4, PointerFacts
  <2>2. sub[c] \in SUBSET sub[x] /\ x \in sub[x] /\ x \notin sub[c]
      BY <2>1, ChildFacts
  <2>3. Cardinality(sub[c]) < Cardinality(sub[x])
      BY <1>1, <2>2, SizeFacts
  <2>4. m[c] \in Nat /\ m[x] \in Nat /\ m[x] <= m[c]
      BY <1>2, <1>3, <1>4
  <2> QED BY <1>4, <2>3, <2>4
<1> QED BY <1>4

LEMMA HighestNode ==
    ASSUME NEW t \in Trees, NEW S, NEW sub, Shape(t, S, sub), NEW B \in SUBSET S, B # {}
    PROVE  \E x \in B : t.parent[x] \notin B
<1> DEFINE m == [x \in B |-> Cardinality(Keys) - Cardinality(sub[x])]
<1>1. \A x \in S : x \in Keys /\ sub[x] \in SUBSET Keys
    BY DEF Shape
<1>2. \A x \in S : /\ Cardinality(sub[x]) \in Nat /\ Cardinality(Keys) \in Nat
                   /\ Cardinality(sub[x]) <= Cardinality(Keys)
    BY <1>1, SizeFacts
<1>3. m \in [B -> Nat]
    BY <1>2
<1>4. PICK x \in B : \A y \in B : m[x] <= m[y]
    BY <1>3, LeastMeasure
<1>5. ASSUME t.parent[x] \in B PROVE FALSE
  <2> DEFINE p == t.parent[x]
  <2>1. p # Null
      BY <1>1, <1>5, PointerFacts
  <2>2. PICK d \in Dirs : t.child[d][p] = x
      BY <2>1, ParentFacts
  <2>3. sub[x] \in SUBSET sub[p] /\ p \in sub[p] /\ p \notin sub[x]
      BY <1>1, <1>5, <2>2, ChildFacts, PointerFacts
  <2>4. Cardinality(sub[x]) < Cardinality(sub[p])
      BY <1>1, <1>5, <2>3, SizeFacts
  <2>5. m[x] <= m[p]
      BY <1>4, <1>5
  <2> QED BY <1>2, <1>5, <2>4, <2>5
<1> QED BY <1>5

\* Whatever is below a node is below it with all that is below it and with its parent.
LEMMA BelowFacts ==
    ASSUME NEW t \in Trees, NEW S, NEW sub, Shape(t, S, sub), NEW y \in S, NEW z \in sub[y]
    PROVE  /\ sub[z] \subseteq sub[y]
           /\ z # y => t.parent[z] # Null /\ t.parent[z] \in sub[y]
<1> DEFINE Good(x, k) == /\ sub[k] \subseteq sub[x]
                         /\ k # x => t.parent[k] # Null /\ t.parent[k] \in sub[x]
           B == {x \in S : \E k \in sub[x] : ~Good(x, k)}
<1> SUFFICES ASSUME B # {} PROVE FALSE
    OBVIOUS
<1>1. PICK x \in B : \A d \in Dirs : t.child[d][x] \notin B
    BY LowestNode
<1>2. PICK k \in sub[x] : ~Good(x, k)
    BY <1>1
<1>3. k # x /\ k \in S
    BY <1>1, <1>2, ChildFacts
<1>4. PICK d \in Dirs : Under(sub, k, t.child[d][x])
    BY <1>1, <1>2, <1>3, ChildFacts, Directions
<1> DEFINE c == t.child[d][x]
<1>5. /\ c \in S /\ c # Null /\ k \in sub[c] /\ t.parent[c] = x
      /\ sub[c] \subseteq sub[x] /\ x \in sub[x] /\ x # Null
    BY <1>1, <1>4, ChildFacts, PointerFacts DEF Under
<1>6. Good(c, k)
    BY <1>1, <1>5
<1>7. Good(x, k)
    BY <1>5, <1>6
<1> QED BY <1>2, <1>7

(***************************************************************************)
(* Rotations.                                                              *)
(***************************************************************************)
LEMMA PivotFound ==
    ASSUME NEW t \in Trees, NEW S, NEW sub, Shape(t, S, sub),
           NEW d \in Dirs, NEW x \in S, NEW up \in S, up = t.child[Other(d)][x]
    PROVE  /\ Pivot(t, d, x, up, t.child[d][up], t.parent[x])
           /\ up # t.child[d][x]
           /\ t.child[d][up] # Null => t.child[d][up] # t.child[d][x]
<1> DEFINE mid == t.child[d][up]
           p == t.parent[x]
<1>1. /\ x \in Keys /\ up \in Keys /\ up # Null /\ Other(d) \in Dirs /\ Other(Other(d)) = d
    BY ChildFacts, Directions, PointerFacts
<1>2. up # x /\ up # t.child[d][x] /\ t.parent[up] = x /\ x \notin sub[up]
    BY <1>1, ChildFacts
<1>3. mid # up
    BY <1>1, ChildFacts
<1>4. mid # Null => mid # x /\ t.parent[mid] = up
    BY <1>1, <1>2, ChildFacts
<1>5. p # Null => p # x /\ p # up
  <2> SUFFICES ASSUME p # Null PROVE p # x /\ p # up
      OBVIOUS
  <2>1. PICK e \in Dirs : t.child[e][p] = x
      BY ParentFacts
  <2>2. p # x
      BY ParentFacts
  <2>3. ASSUME p = up PROVE FALSE
    <3>1. x \in sub[x] /\ sub[x] \subseteq sub[up]
        BY <1>1, <2>1, <2>3, ChildFacts, PointerFacts
    <3> QED BY <1>2, <3>1
  <2> QED BY <2>2, <2>3
<1>6. p # Null => t.child["left"][p] = x \/ t.child["right"][p] = x
    BY ParentFacts DEF Dirs
<1>7. p # Null => \A e \in Dirs : t.child[e][p] = x => t.child[Other(e)][p] # x
    BY <1>1, ParentFacts, ChildFacts, PointerFacts
<1>8. mid # Null => mid # t.child[d][x]
    BY <1>1, <1>2, <1>4, ChildFacts
<1> QED BY <1>1, <1>2, <1>3, <1>4, <1>5, <1>6, <1>7, <1>8, PointerFacts DEF Pivot

\* The keys below the nodes after the rotation.
Turned(t, sub, d, x, up) ==
    [sub EXCEPT ![up] = sub[x],
                ![x] = {z \in Keys : \/ z = x
                                     \/ Under(sub, z, t.child[d][x])
                                     \/ Under(sub, z, t.child[d][up])}]

LEMMA RotateKeepsShape ==
    ASSUME NEW t \in Trees, NEW S, NEW sub, Shape(t, S, sub),
           NEW d \in Dirs, NEW x \in S, NEW up \in S, up = t.child[Other(d)][x],
           NEW r, Rotated(t, r, d, x, up, t.child[d][up], t.parent[x])
    PROVE  Shape(r, S, Turned(t, sub, d, x, up))
<1> DEFINE mid == t.child[d][up]
           p == t.parent[x]
           s2 == Turned(t, sub, d, x, up)
           low == t.child[d][x]
           far == t.child[Other(d)][up]
<1>1. Pivot(t, d, x, up, mid, p) /\ up # low /\ (mid # Null => mid # low)
    BY PivotFound
<1>2. /\ x \in Keys /\ up \in Keys /\ up # Null /\ x # Null
      /\ Other(d) \in Dirs /\ Other(d) # d /\ Other(Other(d)) = d
      /\ up # x /\ mid # x /\ mid # up /\ p # x /\ p # up
      /\ S \subseteq Keys
    BY <1>1, Directions, PointerFacts DEF Shape, Pivot
<1>3. /\ s2 \in [Keys -> SUBSET Keys]
      /\ \A y \in Keys : y # x /\ y # up => s2[y] = sub[y]
      /\ s2[up] = sub[x]
      /\ s2[x] = {z \in Keys : z = x \/ Under(sub, z, low) \/ Under(sub, z, mid)}
    BY <1>2 DEF Turned, Shape
<1>4. low # Null => low \in S /\ low # x /\ low # up /\ t.parent[low] = x
    BY <1>1, ChildFacts, SMTT(30)
<1>5. mid # Null => mid \in S /\ t.parent[mid] = up
    BY ChildFacts, SMTT(30)
<1>6. far # Null => far \in S /\ far # up /\ far # x /\ t.parent[far] = up /\ far # mid
    BY <1>2, ChildFacts, SMTT(30)
<1> HIDE DEF s2
<1>7. /\ r.child[d][x] = low /\ r.child[Other(d)][x] = mid
      /\ r.child[d][up] = x /\ r.child[Other(d)][up] = far
    BY <1>2, <1>4, <1>6 DEF Rotated
<1>8. \A y \in S \ {x, up}, e \in Dirs :
         \/ t.child[e][y] = x /\ y = p /\ r.child[e][y] = up
         \/ t.child[e][y] \notin {x, up} /\ r.child[e][y] = t.child[e][y]
  <2> TAKE y \in S \ {x, up}, e \in Dirs
  <2>1. r.child[e][y] = IF y = p /\ t.child[e][y] = x THEN up ELSE t.child[e][y]
      BY <1>2 DEF Rotated
  <2>2. t.child[e][y] = x => y = p
      BY <1>2, ChildFacts
  <2>3. t.child[e][y] # up
      BY <1>2, ChildFacts
  <2> QED BY <2>1, <2>2, <2>3
<1>9. \A y \in S \ {x, up}, e \in Dirs, z \in S :
         Under(s2, z, r.child[e][y]) <=> Under(sub, z, t.child[e][y])
  <2> TAKE y \in S \ {x, up}, e \in Dirs, z \in S
  <2> DEFINE c == t.child[e][y]
             b == r.child[e][y]
  <2>1. c = Null \/ c \in Keys
      BY <1>2, TreeFields DEF Pointers
  <2>2. (c = x /\ b = up) \/ (c \notin {x, up} /\ b = c)
      BY <1>8
  <2> HIDE DEF c, b
  <2>3. c = x /\ b = up => (Under(s2, z, b) <=> Under(sub, z, c))
      BY <1>2, <1>3 DEF Under
  <2>4. c \notin {x, up} /\ b = c => (Under(s2, z, b) <=> Under(sub, z, c))
      BY <1>3, <2>1 DEF Under
  <2>5. Under(s2, z, b) <=> Under(sub, z, c)
      BY <2>2, <2>3, <2>4
  <2> QED BY <2>5 DEF c, b
<1>10. \A z \in S : /\ Under(s2, z, low) <=> Under(sub, z, low)
                    /\ Under(s2, z, mid) <=> Under(sub, z, mid)
                    /\ Under(s2, z, far) <=> Under(sub, z, far)
                    /\ Under(s2, z, up) <=> z \in sub[x]
                    /\ Under(s2, z, x) <=> z = x \/ Under(sub, z, low) \/ Under(sub, z, mid)
    BY <1>2, <1>3, <1>4, <1>5, <1>6 DEF Under
<1>11. \A z \in S : /\ z \in sub[x] <=> z = x \/ Under(sub, z, low) \/ z \in sub[up]
                    /\ z \in sub[up] <=> z = up \/ Under(sub, z, mid) \/ Under(sub, z, far)
  <2> TAKE z \in S
  <2>1. z \in sub[x] <=> z = x \/ Under(sub, z, low) \/ Under(sub, z, up)
      BY ChildFacts
  <2>2. z \in sub[up] <=> z = up \/ Under(sub, z, mid) \/ Under(sub, z, far)
      BY ChildFacts
  <2> QED BY <1>2, <2>1, <2>2 DEF Under
<1>12. \A y \in S : s2[y] \subseteq S
  <2>1. \A y \in S : sub[y] \subseteq S
      BY DEF Shape
  <2>2. \A c \in {low, mid} : c # Null => sub[c] \subseteq S
      BY <1>4, <1>5, <2>1
  <2>3. s2[x] \subseteq S
      BY <1>3, <2>2 DEF Under
  <2> QED BY <1>2, <1>3, <2>1, <2>3
<1>13. Spans(r, S, s2)
  <2>1. ASSUME NEW y \in S, NEW z \in S
        PROVE  z \in s2[y] <=> \/ z = y
                               \/ Under(s2, z, r.child[d][y])
                               \/ Under(s2, z, r.child[Other(d)][y])
    <3>1. CASE y = x
        BY <1>2, <1>3, <1>7, <1>10, <3>1
    <3>2. CASE y = up
        BY <1>2, <1>3, <1>7, <1>10, <1>11, <3>2
    <3>3. CASE y \notin {x, up}
      <4>1. z \in sub[y] <=> \/ z = y
                             \/ Under(sub, z, t.child[d][y])
                             \/ Under(sub, z, t.child[Other(d)][y])
          BY ChildFacts
      <4>2. s2[y] = sub[y]
          BY <1>2, <1>3, <3>3
      <4>3. /\ Under(s2, z, r.child[d][y]) <=> Under(sub, z, t.child[d][y])
            /\ Under(s2, z, r.child[Other(d)][y]) <=> Under(sub, z, t.child[Other(d)][y])
          BY <1>2, <1>9, <3>3
      <4> QED BY <4>1, <4>2, <4>3
    <3> QED BY <3>1, <3>2, <3>3
  <2> QED BY <2>1 DEF Spans, Dirs, Other
<1>14. Sorted(r, S, s2)
  <2> SUFFICES ASSUME NEW y \in S, NEW e \in Dirs, NEW z \in S, Under(s2, z, r.child[e][y])
               PROVE  Before(e, z, y)
      BY DEF Sorted
  <2>1. \A v \in S, f \in Dirs, w \in S : Under(sub, w, t.child[f][v]) => Before(f, w, v)
      BY DEF Shape, Sorted
  <2>2. y \in Keys /\ z \in Keys /\ up \in sub[up]
      BY <1>2, ChildFacts
  <2>3. Before(Other(d), up, x) /\ Before(d, x, up)
      BY <1>2, <2>1, <2>2, BeforeOrder DEF Under
  <2>4. CASE y = x
    <3>1. CASE e = d
        BY <1>7, <1>10, <2>1, <2>4, <3>1
    <3>2. CASE e = Other(d)
      <4>1. z \in sub[up]
          BY <1>7, <1>10, <1>11, <2>4, <3>2
      <4> QED BY <1>2, <2>1, <2>4, <3>2, <4>1 DEF Under
    <3> QED BY <3>1, <3>2, Directions
  <2>5. CASE y = up
    <3>1. CASE e = d
      <4>1. CASE z = x
          BY <2>3, <2>5, <3>1, <4>1
      <4>2. CASE Under(sub, z, low)
        <5>1. Before(d, z, x)
            BY <2>1, <4>2
        <5> QED BY <1>2, <2>2, <2>3, <2>5, <3>1, <5>1, BeforeOrder
      <4>3. CASE Under(sub, z, mid)
          BY <2>1, <2>5, <3>1, <4>3
      <4> QED BY <1>7, <1>10, <2>5, <3>1, <4>1, <4>2, <4>3
    <3>2. CASE e = Other(d)
        BY <1>2, <1>7, <1>10, <2>1, <2>5, <3>2
    <3> QED BY <3>1, <3>2, Directions
  <2>6. CASE y \notin {x, up}
      BY <1>9, <2>1, <2>6
  <2> QED BY <2>4, <2>5, <2>6
<1>15. Rooted(r, S, s2)
  <2>1. CASE p = Null
    <3>1. t.root = x /\ r.root = up /\ r.parent[up] = Null
        BY <1>2, <2>1, ParentFacts DEF Rotated
    <3> QED BY <1>2, <1>3, <3>1 DEF Rooted, Shape
  <2>2. CASE p # Null
    <3>1. r.root = t.root /\ t.root # x
        BY <2>2, ParentFacts DEF Rotated
    <3>2. t.root # Null /\ t.root \in S /\ sub[t.root] = S /\ t.parent[t.root] = Null
        BY DEF Shape, Linked, Rooted
    <3>3. t.root # up /\ t.root # mid
        BY <1>2, <1>5, <3>2, ChildFacts, SMTT(30)
    <3> QED BY <1>2, <1>3, <3>1, <3>2, <3>3 DEF Rooted, Rotated
  <2> QED BY <2>1, <2>2
<1>16. Linked(r, S)
  <2>1. ASSUME NEW y \in S, NEW e \in Dirs, r.child[e][y] # Null
        PROVE  r.child[e][y] \in S /\ r.parent[r.child[e][y]] = y
    <3>1. CASE y = x
        BY <1>2, <1>4, <1>5, <1>7, <2>1, <3>1, Directions DEF Rotated
    <3>2. CASE y = up
        BY <1>2, <1>6, <1>7, <2>1, <3>2, Directions, SMTT(30) DEF Rotated
    <3>3. CASE y \notin {x, up}
      <4>1. CASE t.child[e][y] = x /\ y = p /\ r.child[e][y] = up
          BY <1>2, <4>1 DEF Rotated
      <4>2. CASE t.child[e][y] \notin {x, up} /\ r.child[e][y] = t.child[e][y]
        <5>1. t.child[e][y] \in S /\ t.parent[t.child[e][y]] = y
            BY <2>1, <4>2, ChildFacts
        <5>2. t.child[e][y] # mid
            BY <1>5, <2>1, <3>3, <4>2, <5>1
        <5> QED BY <1>2, <4>2, <5>1, <5>2 DEF Rotated
      <4> QED BY <1>8, <3>3, <4>1, <4>2
    <3> QED BY <3>1, <3>2, <3>3
  <2>2. ASSUME NEW y \in S
        PROVE  IF r.parent[y] = Null
               THEN r.root = y
               ELSE r.parent[y] \in S /\ \E e \in Dirs : r.child[e][r.parent[y]] = y
    <3>1. CASE y = x
        BY <1>2, <1>7, <3>1 DEF Rotated
    <3>2. CASE y = up
      <4>1. r.parent[y] = p
          BY <1>2, <3>2 DEF Rotated
      <4>2. CASE p = Null
          BY <3>2, <4>1, <4>2 DEF Rotated
      <4>3. CASE p # Null
        <5>1. p \in S /\ p \in Keys /\ \E e \in Dirs : t.child[e][p] = x
            BY <4>3, ParentFacts
        <5>2. \E e \in Dirs : r.child[e][p] = up
            BY <1>2, <5>1 DEF Rotated
        <5> QED BY <3>2, <4>1, <4>3, <5>1, <5>2
      <4> QED BY <4>2, <4>3
    <3>3. CASE y = mid
        BY <1>2, <1>7, <3>3 DEF Rotated
    <3>4. CASE y \notin {x, up, mid}
      <4>1. r.parent[y] = t.parent[y]
          BY <1>2, <3>4 DEF Rotated
      <4>2. CASE t.parent[y] = Null
        <5>1. t.root = y
            BY <4>2, ParentFacts
        <5>2. p # Null
            BY <3>4, <5>1, ParentFacts
        <5> QED BY <4>1, <4>2, <5>1, <5>2 DEF Rotated
      <4>3. CASE t.parent[y] # Null
        <5>1. PICK e \in Dirs : t.child[e][t.parent[y]] = y
            BY <4>3, ParentFacts
        <5>2. t.parent[y] \in S /\ t.parent[y] \in Keys
            BY <4>3, ParentFacts
        <5>3. \/ t.parent[y] \notin {x, up}
              \/ t.parent[y] = x /\ y = low
              \/ t.parent[y] = up /\ y = far
            BY <3>4, <5>1, Directions
        <5>4. \E f \in Dirs : r.child[f][t.parent[y]] = y
            BY <1>2, <1>7, <1>8, <3>4, <5>1, <5>2, <5>3
        <5> QED BY <4>1, <4>3, <5>2, <5>4
      <4> QED BY <4>2, <4>3
    <3> QED BY <3>1, <3>2, <3>3, <3>4
  <2>3. S = {} <=> r.root = Null
      BY <1>2, <1>15, ParentFacts DEF Rotated, Shape, Linked
  <2> QED BY <2>1, <2>2, <2>3 DEF Linked
<1>17. Unlinked(r, S)
  <2> SUFFICES ASSUME NEW k \in Keys \ S
               PROVE  r.parent[k] = Null /\ \A e \in Dirs : r.child[e][k] = Null
      BY DEF Unlinked
  <2>1. k # x /\ k # up /\ k # mid /\ k # p
    <3>1. p # Null => p \in S
        BY ParentFacts
    <3> QED BY <1>2, <1>5, <3>1, PointerFacts
  <2> QED BY <2>1 DEF Rotated, Shape, Unlinked
<1>18. Shape(r, S, s2)
    BY <1>2, <1>3, <1>12, <1>13, <1>14, <1>15, <1>16, <1>17 DEF Shape
<1> QED BY <1>18 DEF s2

(***************************************************************************)
(* Searching a place and linking a node there.                             *)
(***************************************************************************)

\* k, if it is in the tree at all, is at c or below, and if not its place is there.
Searching(t, S, sub, k, c) ==
    /\ k \in Keys
    /\ c = Null => S = {}
    /\ c # Null => /\ c \in S
                   /\ (k \in S => k \in sub[c])
                   /\ \A y \in S, e \in Dirs : Under(sub, c, t.child[e][y]) => Before(e, k, y)

LEMMA SearchStarts ==
    ASSUME NEW t \in Trees, NEW S, NEW sub, Shape(t, S, sub), NEW k \in Keys
    PROVE  Searching(t, S, sub, k, t.root)
<1>1. CASE t.root = Null
    BY <1>1 DEF Searching, Shape, Linked
<1>2. CASE t.root # Null
  <2>1. t.root \in S /\ sub[t.root] = S
      BY <1>2 DEF Shape, Rooted
  <2>2. ASSUME NEW y \in S, NEW e \in Dirs, Under(sub, t.root, t.child[e][y]) PROVE FALSE
    <3> DEFINE c == t.child[e][y]
    <3>1. c # Null /\ c \in S /\ t.root \in sub[c] /\ y \notin sub[c]
        BY <2>2, ChildFacts DEF Under
    <3>2. sub[t.root] \subseteq sub[c]
        BY <3>1, BelowFacts
    <3> QED BY <2>1, <3>1, <3>2
  <2> QED BY <1>2, <2>1, <2>2 DEF Searching
<1> QED BY <1>1, <1>2

LEMMA SearchGoesOn ==
    ASSUME NEW t \in Trees, NEW S, NEW sub, Shape(t, S, sub), NEW k, NEW c,
           Searching(t, S, sub, k, c), c # Null, c # k,
           NEW d \in Dirs, Before(d, k, c)
    PROVE  /\ t.child[d][c] # Null => Searching(t, S, sub, k, t.child[d][c])
           /\ t.child[d][c] = Null => k \notin S
<1>1. c \in S /\ k \in Keys /\ c \in Keys /\ Other(d) \in Dirs
    BY ChildFacts, Directions DEF Searching
<1>2. k \in S => Under(sub, k, t.child[d][c])
  <2> SUFFICES ASSUME k \in S PROVE Under(sub, k, t.child[d][c])
      OBVIOUS
  <2>1. Under(sub, k, t.child[d][c]) \/ Under(sub, k, t.child[Other(d)][c])
      BY <1>1, ChildFacts DEF Searching
  <2>2. ASSUME Under(sub, k, t.child[Other(d)][c]) PROVE FALSE
    <3>1. Before(Other(d), k, c)
        BY <1>1, <2>2 DEF Shape, Sorted
    <3> QED BY <1>1, <3>1, BeforeOrder
  <2> QED BY <2>1, <2>2
<1>3. ASSUME t.child[d][c] # Null PROVE Searching(t, S, sub, k, t.child[d][c])
  <2> DEFINE b == t.child[d][c]
  <2>1. b \in S /\ t.parent[b] = c /\ b # Null
      BY <1>1, <1>3, ChildFacts
  <2>2. ASSUME NEW y \in S, NEW e \in Dirs, Under(sub, b, t.child[e][y])
        PROVE  Before(e, k, y)
    <3>1. t.child[e][y] # Null /\ t.child[e][y] \in S /\ b \in sub[t.child[e][y]]
        BY <2>2, ChildFacts DEF Under
    <3>2. CASE b = t.child[e][y]
      <4>1. y = c
          BY <2>1, <3>1, <3>2, ChildFacts
      <4>2. e = d
          BY <1>1, <2>1, <3>2, <4>1, ChildFacts, Directions
      <4> QED BY <4>1, <4>2
    <3>3. CASE b # t.child[e][y]
      <4>1. c \in sub[t.child[e][y]]
          BY <2>1, <3>1, <3>3, BelowFacts
      <4> QED BY <1>1, <3>1, <4>1 DEF Searching, Under
    <3> QED BY <3>2, <3>3
  <2> QED BY <1>1, <1>2, <2>1, <2>2 DEF Searching, Under
<1>4. t.child[d][c] = Null => k \notin S
    BY <1>2 DEF Under
<1> QED BY <1>3, <1>4

\* r is t with k linked below c.
Hung(t, r, d, c, k) ==
    /\ r \in Trees
    /\ r.root = t.root
    /\ \A y \in Keys : r.parent[y] = IF y = k THEN c ELSE t.parent[y]
    /\ \A e \in Dirs, y \in Keys :
         r.child[e][y] = IF y = k THEN Null ELSE IF y = c /\ e = d THEN k ELSE t.child[e][y]

\* The keys below the nodes then.
Grown(S, sub, c, k) ==
    [y \in Keys |-> IF y = k THEN {k} ELSE IF y \in S /\ c \in sub[y] THEN sub[y] \union {k}
                   ELSE sub[y]]

LEMMA HangKeepsShape ==
    ASSUME NEW t \in Trees, NEW S, NEW sub, Shape(t, S, sub), NEW k, NEW c,
           Searching(t, S, sub, k, c), c # Null, k \notin S,
           NEW d \in Dirs, Before(d, k, c), t.child[d][c] = Null,
           NEW r, Hung(t, r, d, c, k)
    PROVE  Shape(r, S \union {k}, Grown(S, sub, c, k))
<1> DEFINE s2 == Grown(S, sub, c, k)
           S2 == S \union {k}
<1>1. /\ c \in S /\ k \in Keys /\ c \in Keys /\ Other(d) \in Dirs /\ c # k /\ k # Null
      /\ S \subseteq Keys /\ c \in sub[c]
  <2>1. c \in S /\ k \in Keys
      BY DEF Searching
  <2> QED BY <2>1, ChildFacts, Directions, PointerFacts DEF Shape
<1>2. /\ s2 \in [Keys -> SUBSET Keys] /\ s2[k] = {k}
      /\ \A y \in S : s2[y] = IF c \in sub[y] THEN sub[y] \union {k} ELSE sub[y]
      /\ \A y \in S : k \notin sub[y]
    BY <1>1 DEF Grown, Shape
<1>3. /\ \A e \in Dirs : r.child[e][k] = Null
      /\ \A y \in S, e \in Dirs : r.child[e][y] = IF y = c /\ e = d THEN k ELSE t.child[e][y]
      /\ r.parent[k] = c /\ \A y \in S : r.parent[y] = t.parent[y]
    BY <1>1 DEF Hung
<1> HIDE DEF s2
<1>4. \A y \in S2 : s2[y] \subseteq S2
    BY <1>2 DEF Shape
<1>5. \A y \in S, e \in Dirs, z \in S :
         Under(s2, z, r.child[e][y]) <=> Under(sub, z, t.child[e][y])
  <2> SUFFICES ASSUME NEW y \in S, NEW e \in Dirs, NEW z \in S
               PROVE  Under(s2, z, r.child[e][y]) <=> Under(sub, z, t.child[e][y])
      OBVIOUS
  <2>1. CASE y = c /\ e = d
      BY <1>1, <1>2, <1>3, <2>1 DEF Under
  <2>2. CASE ~(y = c /\ e = d)
    <3>1. r.child[e][y] = t.child[e][y] /\ (t.child[e][y] # Null => t.child[e][y] \in S)
        BY <1>3, <2>2, ChildFacts
    <3>2. z # k
        OBVIOUS
    <3> QED BY <1>2, <3>1, <3>2 DEF Under
  <2> QED BY <2>1, <2>2
<1>6. \A y \in S, e \in Dirs :
         Under(s2, k, r.child[e][y]) <=> (y = c /\ e = d) \/ Under(sub, c, t.child[e][y])
  <2> SUFFICES ASSUME NEW y \in S, NEW e \in Dirs
               PROVE  Under(s2, k, r.child[e][y])
                        <=> (y = c /\ e = d) \/ Under(sub, c, t.child[e][y])
      OBVIOUS
  <2>1. CASE y = c /\ e = d
      BY <1>1, <1>2, <1>3, <2>1 DEF Under
  <2>2. CASE ~(y = c /\ e = d)
    <3>1. r.child[e][y] = t.child[e][y] /\ (t.child[e][y] # Null => t.child[e][y] \in S)
        BY <1>3, <2>2, ChildFacts
    <3> QED BY <1>2, <2>2, <3>1 DEF Under
  <2> QED BY <2>1, <2>2
<1>7. \A y \in S : k \in s2[y] <=> c \in sub[y]
    BY <1>2
<1>8. Spans(r, S2, s2)
  <2>1. ASSUME NEW y \in S2, NEW z \in S2
        PROVE  z \in s2[y] <=> \/ z = y
                               \/ Under(s2, z, r.child[d][y])
                               \/ Under(s2, z, r.child[Other(d)][y])
    <3>1. CASE y = k
        BY <1>1, <1>2, <1>3, <3>1 DEF Under
    <3>2. CASE y \in S /\ z \in S
      <4>1. z \in s2[y] <=> z \in sub[y]
          BY <1>2, <3>2
      <4> QED BY <1>1, <1>5, <3>2, <4>1, ChildFacts
    <3>3. CASE y \in S /\ z = k
      <4>1. z \in s2[y] <=> c \in sub[y]
          BY <1>7, <3>3
      <4>2. c \in sub[y] <=> c = y \/ Under(sub, c, t.child[d][y])
                                   \/ Under(sub, c, t.child[Other(d)][y])
          BY <1>1, <3>3, ChildFacts
      <4> QED BY <1>1, <1>6, <3>3, <4>1, <4>2, Directions
    <3> QED BY <3>1, <3>2, <3>3
  <2> QED BY <2>1 DEF Spans, Dirs, Other
<1>9. Sorted(r, S2, s2)
  <2> SUFFICES ASSUME NEW y \in S2, NEW e \in Dirs, NEW z \in S2, Under(s2, z, r.child[e][y])
               PROVE  Before(e, z, y)
      BY DEF Sorted
  <2>1. y # k /\ y \in S
      BY <1>3 DEF Under
  <2>2. CASE z \in S
      BY <1>5, <2>1, <2>2 DEF Shape, Sorted
  <2>3. CASE z = k
      BY <1>1, <1>6, <2>1, <2>3 DEF Searching
  <2> QED BY <2>2, <2>3
<1>10. Rooted(r, S2, s2)
  <2>1. t.root # Null /\ t.root \in S /\ sub[t.root] = S /\ t.parent[t.root] = Null
      BY <1>1 DEF Shape, Linked, Rooted
  <2>2. r.root = t.root
      BY DEF Hung
  <2>3. s2[t.root] = S \union {k}
      BY <1>1, <1>2, <2>1
  <2>4. r.parent[t.root] = Null
      BY <1>3, <2>1
  <2>5. t.root \in S2 /\ s2[t.root] = S2
      BY <2>1, <2>3
  <2> HIDE DEF S2
  <2> QED BY <2>2, <2>4, <2>5 DEF Rooted
<1>11. Linked(r, S2)
  <2>1. ASSUME NEW y \in S2, NEW e \in Dirs, r.child[e][y] # Null
        PROVE  r.child[e][y] \in S2 /\ r.parent[r.child[e][y]] = y
    <3>1. y \in S
        BY <1>3, <2>1
    <3>2. CASE y = c /\ e = d
        BY <1>1, <1>3, <3>2
    <3>3. CASE ~(y = c /\ e = d)
      <4>1. r.child[e][y] = t.child[e][y]
          BY <1>3, <3>1, <3>3
      <4>2. t.child[e][y] \in S /\ t.parent[t.child[e][y]] = y
          BY <2>1, <3>1, <4>1, ChildFacts
      <4> QED BY <1>3, <4>1, <4>2
    <3> QED BY <3>2, <3>3
  <2>2. ASSUME NEW y \in S2
        PROVE  IF r.parent[y] = Null
               THEN r.root = y
               ELSE r.parent[y] \in S2 /\ \E e \in Dirs : r.child[e][r.parent[y]] = y
    <3>1. CASE y = k
        BY <1>1, <1>3, <3>1, PointerFacts
    <3>2. CASE y \in S /\ t.parent[y] = Null
        BY <1>3, <3>2, ParentFacts DEF Hung
    <3>3. CASE y \in S /\ t.parent[y] # Null
      <4>1. t.parent[y] \in S
          BY <3>3, ParentFacts
      <4>2. PICK e \in Dirs : t.child[e][t.parent[y]] = y
          BY <3>3, ParentFacts
      <4>3. r.child[e][t.parent[y]] = y
          BY <1>3, <3>3, <4>1, <4>2, PointerFacts, ChildFacts
      <4> QED BY <1>3, <3>3, <4>1, <4>3
    <3> QED BY <3>1, <3>2, <3>3
  <2>3. r.root # Null /\ S2 # {}
      BY <1>1 DEF Shape, Linked, Hung
  <2> QED BY <2>1, <2>2, <2>3 DEF Linked
<1>12. Unlinked(r, S2)
    BY <1>1 DEF Unlinked, Hung, Shape
<1>13. Shape(r, S2, s2)
    BY <1>1, <1>2, <1>4, <1>8, <1>9, <1>10, <1>11, <1>12 DEF Shape
<1> QED BY <1>13 DEF s2

(***************************************************************************)
(* What a search finds.                                                    *)
(***************************************************************************)
PathOf(f, a, g, N) == f[0] = a /\ \A i \in 1..N : f[i] = g[f[i - 1]]

LEMMA Iterated ==
    ASSUME NEW A, NEW a \in A, NEW g \in [A -> A], NEW N \in Nat
    PROVE  \E f \in [0..N -> A] : PathOf(f, a, g, N)
<1> DEFINE Path(m, f) == f[0] = a /\ \A i \in 1..m : f[i] = g[f[i - 1]]
           T == {m \in Nat : \E f \in [0..m -> A] : Path(m, f)}
<1>1. 0 \in T
  <2>1. [i \in 0..0 |-> a] \in [0..0 -> A] /\ Path(0, [i \in 0..0 |-> a])
      OBVIOUS
  <2> QED BY <2>1
<1>2. ASSUME NEW m \in T PROVE m + 1 \in T
  <2>1. PICK f \in [0..m -> A] : Path(m, f)
      BY <1>2
  <2> DEFINE h == [i \in 0..(m + 1) |-> IF i = m + 1 THEN g[f[m]] ELSE f[i]]
  <2>2. h \in [0..(m + 1) -> A]
      OBVIOUS
  <2>3. Path(m + 1, h)
    <3>1. h[0] = a
        BY <2>1
    <3>2. ASSUME NEW i \in 1..(m + 1) PROVE h[i] = g[h[i - 1]]
      <4>1. CASE i = m + 1
          BY <4>1
      <4>2. CASE i # m + 1
        <5>1. i \in 1..m /\ i - 1 \in 0..m /\ i \in 0..m /\ i - 1 # m + 1
            BY <4>2
        <5> QED BY <2>1, <5>1
      <4> QED BY <4>1, <4>2
    <3> QED BY <3>1, <3>2
  <2> HIDE DEF h, Path
  <2> QED BY <2>2, <2>3
<1>3. T = Nat
    BY <1>1, <1>2, Counted
<1> QED BY <1>3 DEF PathOf

\* One step of a search.
Turn(t, k, y) ==
    IF y \in {Null, k} THEN y ELSE t.child[IF k < y THEN "left" ELSE "right"][y]

LEMMA SearchSteps ==
    ASSUME NEW t \in Trees, NEW k \in Keys
    PROVE  /\ SearchPath(t, k)[0] = t.root
           /\ \A i \in 1..Cardinality(Keys) :
                SearchPath(t, k)[i] = Turn(t, k, SearchPath(t, k)[i - 1])
<1> DEFINE N == Cardinality(Keys)
           Good(at) == at = [i \in 0..N |->
                         IF i = 0 THEN t.root
                         ELSE IF at[i - 1] \in {Null, k} THEN at[i - 1]
                         ELSE t.child[IF k < at[i - 1] THEN "left" ELSE "right"][at[i - 1]]]
           g == [y \in Pointers |-> Turn(t, k, y)]
<1>1. N \in Nat
    BY TreeAssumption, FS_CardinalityType
<1>2. g \in [Pointers -> Pointers]
    BY TreeFields DEF Turn, Pointers, Dirs
<1>3. t.root \in Pointers
    BY TreeFields
<1>9. \A y \in Pointers : g[y] = Turn(t, k, y)
    OBVIOUS
<1> HIDE DEF g, N
<1>10. PICK f \in [0..N -> Pointers] : PathOf(f, t.root, g, N)
    BY <1>1, <1>2, <1>3, Iterated
<1>4. f[0] = t.root /\ \A i \in 1..N : f[i] = g[f[i - 1]]
    BY <1>10 DEF PathOf
<1>5. Good(f)
  <2>1. ASSUME NEW i \in 1..N PROVE f[i] = Turn(t, k, f[i - 1])
    <3>1. i - 1 \in 0..N
        BY <1>1
    <3> QED BY <1>4, <1>9, <3>1
  <2>2. \A i \in 0..N : i # 0 => i \in 1..N
      BY <1>1
  <2> QED BY <1>4, <2>1, <2>2 DEF Turn
<1>6. SearchPath(t, k) = CHOOSE at : Good(at)
    BY DEF SearchPath, N
<1>7. Good(SearchPath(t, k))
    BY <1>5, <1>6
<1> DEFINE p == SearchPath(t, k)
<1> HIDE DEF p
<1>8. p[0] = t.root /\ \A i \in 1..N : p[i] = Turn(t, k, p[i - 1])
  <2>1. Good(p)
      BY <1>7 DEF p
  <2>2. p[0] = t.root
      BY <1>1, <2>1
  <2>3. ASSUME NEW i \in 1..N PROVE p[i] = Turn(t, k, p[i - 1])
    <3>1. i \in 0..N /\ i # 0
        BY <1>1
    <3> QED BY <2>1, <3>1 DEF Turn
  <2> QED BY <2>2, <2>3
<1> QED BY <1>8 DEF p, N

\* A search finds the nodes of the tree and nothing else.
LEMMA SearchFinds ==
    ASSUME NEW t \in Trees, NEW S, NEW sub, Shape(t, S, sub)
    PROVE  Found(t) = S
<1> DEFINE N == Cardinality(Keys)
<1>1. N \in Nat /\ S \subseteq Keys
    BY TreeAssumption, FS_CardinalityType DEF Shape
<1>2. ASSUME NEW k \in Keys \ S, NEW j \in 0..N, SearchPath(t, k)[j] = k PROVE FALSE
  <2> DEFINE p == SearchPath(t, k)
             T == {i \in Nat : i <= N => p[i] \in S \union {Null}}
  <2>1. p[0] = t.root /\ \A i \in 1..N : p[i] = Turn(t, k, p[i - 1])
      BY SearchSteps
  <2> HIDE DEF p
  <2>2. 0 \in T
      BY <2>1 DEF Shape, Rooted
  <2>3. ASSUME NEW i \in T PROVE i + 1 \in T
    <3> SUFFICES ASSUME i + 1 <= N PROVE p[i + 1] \in S \union {Null}
        BY <2>3
    <3>1. p[i + 1] = Turn(t, k, p[i]) /\ p[i] \in S \union {Null}
        BY <1>1, <2>1, <2>3
    <3>2. CASE p[i] = Null
        BY <3>1, <3>2 DEF Turn
    <3>3. CASE p[i] \in S
      <4>1. \A d \in Dirs : t.child[d][p[i]] \in S \union {Null}
          BY <3>3, ChildFacts
      <4> QED BY <1>1, <3>1, <3>3, <4>1, PointerFacts DEF Turn, Dirs
    <3> QED BY <3>1, <3>2, <3>3
  <2>4. T = Nat
      BY <2>2, <2>3, Counted
  <2>5. j \in Nat /\ j <= N /\ p[j] = k
      BY <1>1, <1>2 DEF p
  <2> QED BY <2>4, <2>5, PointerFacts
<1>3. ASSUME NEW k \in S PROVE \E j \in 0..N : SearchPath(t, k)[j] = k
  <2> DEFINE p == SearchPath(t, k)
             Near(i) == /\ p[i] \in S /\ k \in sub[p[i]]
                        /\ p[i] = k \/ Cardinality(sub[p[i]]) + i <= N
             T == {i \in Nat : i <= N => Near(i)}
  <2>1. p[0] = t.root /\ \A i \in 1..N : p[i] = Turn(t, k, p[i - 1])
      BY <1>1, SearchSteps
  <2>2. k \in Keys /\ k # Null
      BY <1>1, PointerFacts
  <2>3. \A y \in S : /\ sub[y] \in SUBSET Keys
                     /\ Cardinality(sub[y]) \in Nat /\ Cardinality(sub[y]) <= N
      BY <1>1, SizeFacts DEF Shape
  <2> HIDE DEF p, N
  <2>4. 0 \in T
    <3>1. p[0] \in S /\ k \in sub[p[0]]
        BY <2>1 DEF Shape, Rooted, Linked
    <3> QED BY <1>1, <2>3, <3>1
  <2>5. ASSUME NEW i \in T PROVE i + 1 \in T
    <3> SUFFICES ASSUME i + 1 <= N PROVE Near(i + 1)
        BY <2>5
    <3>1. i + 1 \in 1..N /\ (i + 1) - 1 = i /\ Near(i)
        BY <1>1, <2>5
    <3>2. p[i + 1] = Turn(t, k, p[i])
        BY <2>1, <3>1
    <3>3. CASE p[i] = k
        BY <3>1, <3>2, <3>3 DEF Turn
    <3>4. CASE p[i] # k
      <4> DEFINE d == IF k < p[i] THEN "left" ELSE "right"
                 c == t.child[d][p[i]]
      <4>1. p[i] \in Keys /\ p[i] # Null /\ d \in Dirs /\ Other(d) \in Dirs
          BY <1>1, <3>1, PointerFacts, Directions DEF Dirs
      <4>2. p[i + 1] = c
          BY <3>2, <3>4, <4>1 DEF Turn
      <4>3. Before(d, k, p[i])
          BY <2>2, <3>4, <4>1, PointerFacts DEF Before
      <4> HIDE DEF d
      <4>4. Under(sub, k, c) \/ Under(sub, k, t.child[Other(d)][p[i]])
          BY <3>1, <3>4, <4>1, ChildFacts
      <4>5. ASSUME Under(sub, k, t.child[Other(d)][p[i]]) PROVE FALSE
        <5>1. Before(Other(d), k, p[i])
            BY <3>1, <4>1, <4>5 DEF Shape, Sorted
        <5> QED BY <2>2, <4>1, <4>3, <5>1, BeforeOrder
      <4>6. c \in S /\ k \in sub[c] /\ sub[c] \in SUBSET sub[p[i]]
            /\ p[i] \in sub[p[i]] /\ p[i] \notin sub[c]
          BY <3>1, <4>1, <4>4, <4>5, ChildFacts DEF Under
      <4>7. Cardinality(sub[c]) < Cardinality(sub[p[i]])
          BY <2>3, <3>1, <4>6, SizeFacts
      <4>8. Cardinality(sub[c]) + (i + 1) <= N
          BY <1>1, <2>3, <3>1, <3>4, <4>6, <4>7
      <4> QED BY <4>2, <4>6, <4>8
    <3> QED BY <3>3, <3>4
  <2>6. T = Nat
      BY <2>4, <2>5, Counted
  <2>7. Near(N)
      BY <1>1, <2>6
  <2>8. Cardinality(sub[p[N]]) # 0
      BY <2>3, <2>7, SizeFacts
  <2>9. p[N] = k
      BY <1>1, <2>3, <2>7, <2>8
  <2> QED BY <1>1, <2>9 DEF p
<1> QED BY <1>1, <1>2, <1>3 DEF Found

(***************************************************************************)
(* Colours.  h gives the black nodes on each way down from a node.         *)
(***************************************************************************)
Height(h, c) == IF c = Null THEN 0 ELSE h[c]
Ink(t, x) == IF t.color[x] = Black THEN 1 ELSE 0

Balanced(t, S, h) ==
    /\ h \in [Keys -> Nat]
    /\ \A x \in S, d \in Dirs : h[x] = Height(h, t.child[d][x]) + Ink(t, x)

\* No red node but e has a red parent.
Calm(t, S, e) ==
    \A k \in S \ {e} : t.parent[k] # Null => Black \in {t.color[k], t.color[t.parent[k]]}

\* r is t in other colours.
Painted(t, r, c) ==
    r \in Trees /\ r.root = t.root /\ r.parent = t.parent /\ r.child = t.child /\ r.color = c

LEMMA PaintView ==
    ASSUME NEW t \in Trees, NEW c \in [Keys -> {Red, Black}]
    PROVE  Painted(t, [t EXCEPT !.color = c], c)
BY DEF Painted, Trees

LEMMA PaintKeepsShape ==
    ASSUME NEW t \in Trees, NEW S, NEW sub, Shape(t, S, sub), NEW c, NEW r, Painted(t, r, c)
    PROVE  Shape(r, S, sub)
BY DEF Painted, Shape, Spans, Sorted, Rooted, Unlinked, Linked

LEMMA PaintKeepsSearch ==
    ASSUME NEW t \in Trees, NEW S, NEW sub, NEW k, NEW y, Searching(t, S, sub, k, y),
           NEW c, NEW r, Painted(t, r, c)
    PROVE  Searching(r, S, sub, k, y)
BY DEF Painted, Searching

LEMMA Inks ==
    ASSUME NEW t \in Trees, NEW x \in Keys
    PROVE  /\ t.color[x] = Black \/ t.color[x] = Red
           /\ t.color[x] = Black => Ink(t, x) = 1
           /\ t.color[x] = Red => Ink(t, x) = 0
           /\ Red # Black
BY TreeFields DEF Ink, Red, Black

\* The colours, and the heights, of x and of up are exchanged.
Repainted(c, x, up) == [c EXCEPT ![up] = c[x], ![x] = Red]
Exchanged(h, x, up) == [h EXCEPT ![x] = h[up], ![up] = h[x]]

\* A rotation of x and up, below it and red, that swaps their colours.
LEMMA TurnKeepsBalance ==
    ASSUME NEW t \in Trees, NEW S, NEW sub, Shape(t, S, sub), NEW h, Balanced(t, S, h),
           NEW d \in Dirs, NEW x \in S, NEW up \in S, up = t.child[Other(d)][x],
           t.color[up] = Red,
           NEW tc, Painted(t, tc, Repainted(t.color, x, up)),
           NEW r, Rotated(tc, r, d, x, up, t.child[d][up], t.parent[x])
    PROVE  Balanced(r, S, Exchanged(h, x, up))
<1> DEFINE mid == t.child[d][up]
           p == t.parent[x]
           low == t.child[d][x]
           far == t.child[Other(d)][up]
           h2 == Exchanged(h, x, up)
<1>1. Pivot(t, d, x, up, mid, p) /\ up # low
    BY PivotFound
<1>2. /\ x \in Keys /\ up \in Keys /\ x # up /\ mid \notin {x, up} /\ S \subseteq Keys
      /\ Other(d) \in Dirs /\ Other(d) # d /\ Other(Other(d)) = d /\ up # Null /\ x # Null
    BY <1>1, Directions, PointerFacts DEF Pivot, Shape
<1>3. (low # Null => low \notin {x, up}) /\ (far # Null => far \notin {x, up})
    BY <1>1, <1>2, ChildFacts, SMTT(30)
<1>4. /\ r.child[d][x] = low /\ r.child[Other(d)][x] = mid
      /\ r.child[d][up] = x /\ r.child[Other(d)][up] = far
    BY <1>2, <1>3 DEF Rotated, Painted
<1>5. /\ r.color[x] = Red /\ r.color[up] = t.color[x]
      /\ \A y \in S \ {x, up} : r.color[y] = t.color[y]
    BY <1>2, TreeFields DEF Rotated, Painted, Repainted
<1>6. /\ Ink(r, x) = 0 /\ Ink(r, up) = Ink(t, x) /\ Ink(t, up) = 0
      /\ \A y \in S \ {x, up} : Ink(r, y) = Ink(t, y)
    BY <1>5 DEF Ink, Red, Black
<1>7. /\ h2 \in [Keys -> Nat] /\ h2[x] = h[up] /\ h2[up] = h[x]
      /\ \A y \in Keys \ {x, up} : h2[y] = h[y]
    BY <1>2 DEF Balanced, Exchanged
<1>8. /\ h[up] = Height(h, mid) /\ h[up] = Height(h, far)
      /\ h[x] = Height(h, low) + Ink(t, x) /\ h[x] = h[up] + Ink(t, x)
      /\ h[x] \in Nat /\ h[up] \in Nat /\ Height(h, low) \in Nat /\ Ink(t, x) \in Nat
  <2>1. /\ h[up] = Height(h, mid) + Ink(t, up) /\ h[up] = Height(h, far) + Ink(t, up)
        /\ h[x] = Height(h, low) + Ink(t, x) /\ h[x] = Height(h, up) + Ink(t, x)
      BY <1>2 DEF Balanced
  <2>2. /\ h[x] \in Nat /\ h[up] \in Nat /\ Ink(t, x) \in Nat
        /\ Height(h, mid) \in Nat /\ Height(h, far) \in Nat /\ Height(h, low) \in Nat
      BY <1>2, TreeFields, SMTT(30) DEF Balanced, Ink, Height, Pointers
  <2>3. Height(h, up) = h[up]
      BY <1>2 DEF Height
  <2> QED BY <1>6, <2>1, <2>2, <2>3, SMTT(30)
<1> HIDE DEF h2
<1>9. \A c \in {low, mid, far} : Height(h2, c) = Height(h, c)
    BY <1>2, <1>3, <1>7, TreeFields, SMTT(30) DEF Height, Pointers
<1>10. Height(h2, x) = h[up]
    BY <1>2, <1>7 DEF Height
<1>11. Height(h, low) = h[up]
    BY <1>8
<1>12. ASSUME NEW y \in S, NEW e \in Dirs
       PROVE  h2[y] = Height(h2, r.child[e][y]) + Ink(r, y)
  <2>1. CASE y = x
    <3>1. Height(h2, r.child[e][x]) = h[up]
      <4>1. CASE e = d
          BY <1>4, <1>9, <1>11, <4>1
      <4>2. CASE e = Other(d)
          BY <1>4, <1>8, <1>9, <4>2
      <4> QED BY <4>1, <4>2, Directions
    <3> QED BY <1>6, <1>7, <1>8, <2>1, <3>1
  <2>2. CASE y = up
    <3>1. Height(h2, r.child[e][up]) = h[up]
      <4>1. CASE e = d
          BY <1>4, <1>10, <4>1
      <4>2. CASE e = Other(d)
          BY <1>4, <1>8, <1>9, <4>2
      <4> QED BY <4>1, <4>2, Directions
    <3> QED BY <1>6, <1>7, <1>8, <2>2, <3>1
  <2>3. CASE y \notin {x, up}
    <3>1. r.child[e][y] = IF y = p /\ t.child[e][y] = x THEN up ELSE t.child[e][y]
        BY <1>2, <2>3 DEF Rotated, Painted
    <3>2. t.child[e][y] # up
        BY <1>2, <2>3, ChildFacts
    <3>3. t.child[e][y] = x => y = p
        BY <1>2, ChildFacts
    <3>4. Height(h2, r.child[e][y]) = Height(h, t.child[e][y])
      <4>1. CASE t.child[e][y] = x
        <5>1. r.child[e][y] = up
            BY <3>1, <3>3, <4>1
        <5> QED BY <1>2, <1>7, <4>1, <5>1 DEF Height
      <4>2. CASE t.child[e][y] # x
          BY <1>2, <1>7, <3>1, <3>2, <4>2, TreeFields DEF Height, Pointers
      <4> QED BY <4>1, <4>2
    <3>5. h[y] = Height(h, t.child[e][y]) + Ink(t, y)
        BY DEF Balanced
    <3> QED BY <1>2, <1>6, <1>7, <2>3, <3>4, <3>5
  <2> QED BY <2>1, <2>2, <2>3
<1>13. Balanced(r, S, h2)
    BY <1>7, <1>12 DEF Balanced
<1> QED BY <1>13 DEF h2

\* The first rotation of the two: both are red, and their roles are exchanged.
LEMMA InnerTurnCalm ==
    ASSUME NEW t \in Trees, NEW S, NEW sub, Shape(t, S, sub),
           NEW d \in Dirs, NEW x \in S, NEW up \in S, up = t.child[Other(d)][x],
           t.color[up] = Red, t.color[x] = Red, Calm(t, S, up),
           NEW r, Rotated(t, r, d, x, up, t.child[d][up], t.parent[x])
    PROVE  Calm(r, S, x)
<1> DEFINE mid == t.child[d][up]
           p == t.parent[x]
<1>1. Pivot(t, d, x, up, mid, p)
    BY PivotFound
<1>2. /\ x \in Keys /\ up \in Keys /\ x # up /\ mid \notin {x, up} /\ S \subseteq Keys /\ p # up
    BY <1>1 DEF Pivot, Shape
<1> SUFFICES ASSUME NEW k \in S \ {x}, r.parent[k] # Null
             PROVE  Black \in {t.color[k], t.color[r.parent[k]]}
    BY DEF Calm, Rotated
<1>3. CASE k = up
    BY <1>2, <1>3 DEF Calm, Rotated, Red, Black
<1>4. CASE k = mid
  <2>0. mid # Null /\ up # Null
      BY <1>2, <1>4, PointerFacts
  <2>1. t.parent[mid] = up
      BY <2>0, ChildFacts, SMTT(30)
  <2>2. t.color[mid] = Black
    <3>1. mid \in S \ {up} /\ t.color[t.parent[mid]] # Black /\ t.parent[mid] # Null
        BY <1>2, <1>4, <2>0, <2>1 DEF Red, Black
    <3> QED BY <3>1 DEF Calm
  <2> QED BY <1>4, <2>2
<1>5. CASE k \notin {up, mid}
    BY <1>2, <1>5 DEF Calm, Rotated
<1> QED BY <1>3, <1>4, <1>5

\* The second one: the uncle is not red, and the red child e of up stays there.
LEMMA OuterTurnCalm ==
    ASSUME NEW t \in Trees, NEW S, NEW sub, Shape(t, S, sub),
           NEW d \in Dirs, NEW x \in S, NEW up \in S, up = t.child[Other(d)][x],
           t.color[up] = Red, t.color[x] = Black,
           t.child[d][x] # Null => t.color[t.child[d][x]] = Black,
           NEW e, e = t.child[Other(d)][up], e # Null, Calm(t, S, e),
           NEW tc, Painted(t, tc, Repainted(t.color, x, up)),
           NEW r, Rotated(tc, r, d, x, up, t.child[d][up], t.parent[x])
    PROVE  Calm(r, S, e)
<1> DEFINE mid == t.child[d][up]
           p == t.parent[x]
<1>1. Pivot(t, d, x, up, mid, p) /\ Other(d) \in Dirs /\ Other(Other(d)) = d
    BY PivotFound, Directions
<1>2. /\ x \in Keys /\ up \in Keys /\ x # up /\ mid \notin {x, up} /\ S \subseteq Keys /\ p # up
      /\ up # Null /\ x # Null
    BY <1>1, PointerFacts DEF Pivot, Shape
<1>3. mid # e
    BY <1>1, ChildFacts, SMTT(30)
<1>4. /\ r.color[x] = Red /\ r.color[up] = Black
      /\ \A y \in Keys \ {x, up} : r.color[y] = t.color[y]
    BY <1>2, TreeFields DEF Rotated, Painted, Repainted
<1>5. \A y \in Keys : r.parent[y] = IF y = x THEN up
                                    ELSE IF y = up THEN p
                                    ELSE IF y = mid THEN x ELSE t.parent[y]
    BY DEF Rotated, Painted
<1> SUFFICES ASSUME NEW k \in S \ {e}, r.parent[k] # Null
             PROVE  Black \in {r.color[k], r.color[r.parent[k]]}
    BY DEF Calm
<1>6. CASE k \in {x, up}
    BY <1>2, <1>4, <1>5, <1>6
<1>7. CASE k = mid
  <2>0. mid # Null
      BY <1>2, <1>7, PointerFacts
  <2>1. t.parent[mid] = up
      BY <2>0, ChildFacts, SMTT(30)
  <2>2. t.color[mid] = Black
    <3>1. mid \in S \ {e} /\ t.parent[mid] # Null
        BY <1>2, <1>7, <2>1
    <3>2. Black \in {t.color[mid], t.color[t.parent[mid]]}
        BY <3>1 DEF Calm
    <3>3. t.color[t.parent[mid]] # Black
        BY <2>1 DEF Red, Black
    <3> HIDE DEF mid
    <3> QED BY <3>2, <3>3
  <2>3. r.color[k] = t.color[k]
      BY <1>2, <1>4, <1>7
  <2> QED BY <1>7, <2>2, <2>3
<1>8. CASE k \notin {x, up, mid}
  <2>1. r.parent[k] = t.parent[k] /\ r.color[k] = t.color[k]
      BY <1>2, <1>4, <1>5, <1>8
  <2>2. CASE t.parent[k] = x
    <3>1. k = t.child[d][x]
      <4>1. PICK f \in Dirs : t.child[f][x] = k
          BY <1>2, <2>2, ParentFacts
      <4>2. f = d \/ f = Other(d)
          BY Directions
      <4> QED BY <1>8, <4>1, <4>2
    <3>2. k \in Keys /\ k # Null
        BY <1>2, PointerFacts
    <3>3. t.color[k] = Black
        BY <3>1, <3>2
    <3> QED BY <2>1, <3>3
  <2>3. CASE t.parent[k] = up
      BY <1>4, <2>1, <2>3
  <2>4. CASE t.parent[k] \notin {x, up}
    <3>1. t.parent[k] \in Keys
        BY <2>1, ParentFacts
    <3> QED BY <1>4, <2>1, <2>4, <3>1 DEF Calm
  <2> QED BY <2>2, <2>3, <2>4
<1> QED BY <1>6, <1>7, <1>8

(***************************************************************************)
(* The links alone: the first part of both inductive invariants.  An       *)
(* insertion keeps them in order whatever the colours are.                 *)
(***************************************************************************)
LinkInv ==
    /\ tree \in Trees /\ peak \in Nat /\ n \in Pointers /\ cur \in Pointers
    /\ pc \in {"idle", "search", "fix"}
    /\ pc = "fix" => n \in held /\ (tree.root # n => tree.color[tree.root] = Black)
    /\ \E sub \in [Keys -> SUBSET Keys] :
         /\ Shape(tree, held, sub)
         /\ pc = "search" => Searching(tree, held, sub, n, cur)

LEMMA LinksIntact == LinkInv => Intact
<1> SUFFICES ASSUME LinkInv PROVE Linked(tree, held) /\ Found(tree) = held
    BY DEF Intact
<1>1. PICK sub : Shape(tree, held, sub)
    BY DEF LinkInv
<1>2. tree \in Trees
    BY DEF LinkInv
<1>3. Linked(tree, held)
    BY <1>1 DEF Shape
<1>4. Found(tree) = held
    BY <1>1, <1>2, SearchFinds
<1> QED BY <1>3, <1>4

(***************************************************************************)
(* The inductive invariant, for trees from which nothing is popped.        *)
(***************************************************************************)
NoPops == Pinned = Keys

Exempt == IF pc = "fix" THEN n ELSE Null

TreeInv ==
    /\ tree \in Trees /\ peak \in Nat /\ n \in Pointers /\ cur \in Pointers
    /\ pc \in {"idle", "search", "fix"}
    /\ Calm(tree, held, Exempt)
    /\ pc = "fix" => /\ n \in held /\ tree.color[n] = Red
                     /\ tree.root # n => tree.color[tree.root] = Black
    /\ \E sub \in [Keys -> SUBSET Keys], h \in [Keys -> Nat] :
         /\ Shape(tree, held, sub) /\ Balanced(tree, held, h)
         /\ pc = "search" => Searching(tree, held, sub, n, cur)

LEMMA TreeLinks == TreeInv => LinkInv
BY DEF TreeInv, LinkInv

LEMMA InitTree == TreeInit => TreeInv
<1> SUFFICES ASSUME TreeInit PROVE TreeInv
    OBVIOUS
<1>1. tree \in Trees
    BY DEF TreeInit, Trees, Pointers
<1> DEFINE sub == [k \in Keys |-> {}]
           h == [k \in Keys |-> 0]
<1>2. Shape(tree, held, sub)
    BY DEF TreeInit, Shape, Spans, Sorted, Rooted, Linked, Unlinked
<1>3. Balanced(tree, held, h) /\ Calm(tree, held, Exempt)
    BY DEF TreeInit, Balanced, Calm
<1>4. sub \in [Keys -> SUBSET Keys] /\ h \in [Keys -> Nat]
    OBVIOUS
<1> HIDE DEF sub, h
<1> QED BY <1>1, <1>2, <1>3, <1>4 DEF TreeInit, TreeInv, Pointers

LEMMA InsertKeeps ==
    ASSUME TreeInv, NEW k \in Keys, Insert(k), peak' \in Nat
    PROVE  TreeInv'
<1>1. PICK sub \in [Keys -> SUBSET Keys], h \in [Keys -> Nat] :
         Shape(tree, held, sub) /\ Balanced(tree, held, h)
    BY DEF TreeInv
<1>2. Searching(tree, held, sub, k, tree.root)
    BY <1>1, SearchStarts DEF TreeInv
<1>3. Exempt = Null /\ Exempt' = Null /\ tree' = tree /\ held' = held
      /\ n' = k /\ cur' = tree.root /\ pc' = "search"
    BY DEF Insert, Exempt
<1>4. tree.root \in Pointers /\ k \in Pointers
    BY TreeFields DEF TreeInv, Pointers
<1> QED BY <1>1, <1>2, <1>3, <1>4 DEF TreeInv

LEMMA FoundKeeps ==
    ASSUME TreeInv, FoundAlready, peak' \in Nat
    PROVE  TreeInv'
<1>1. Exempt = Null /\ Exempt' = Null /\ tree' = tree /\ held' = held
      /\ n' = n /\ cur' = Null /\ pc' = "idle"
    BY DEF FoundAlready, Exempt
<1> QED BY <1>1 DEF TreeInv, Pointers

LEMMA DescendMoves ==
    ASSUME TreeInv, pc = "search", cur \notin {Null, n}
    PROVE  LET d == IF n < cur THEN "left" ELSE "right"
           IN  d \in Dirs /\ Before(d, n, cur) /\ n \in Keys /\ cur \in held /\ cur \in Keys
<1>1. PICK sub \in [Keys -> SUBSET Keys] :
         Shape(tree, held, sub) /\ Searching(tree, held, sub, n, cur)
    BY DEF TreeInv
<1>2. n \in Keys /\ cur \in held /\ cur \in Keys /\ n \in Int /\ cur \in Int /\ n # cur
    BY <1>1, PointerFacts DEF Searching, Shape
<1> QED BY <1>2 DEF Before, Dirs

LEMMA DescendKeeps ==
    ASSUME TreeInv, Descend, peak' \in Nat
    PROVE  TreeInv'
<1> DEFINE d == IF n < cur THEN "left" ELSE "right"
           next == tree.child[d][cur]
<1>1. PICK sub \in [Keys -> SUBSET Keys], h \in [Keys -> Nat] :
         /\ Shape(tree, held, sub) /\ Balanced(tree, held, h)
         /\ Searching(tree, held, sub, n, cur)
    BY DEF TreeInv, Descend
<1>2. /\ pc = "search" /\ cur # Null /\ cur # n /\ n' = n
      /\ d \in Dirs /\ Before(d, n, cur) /\ n \in Keys /\ cur \in held /\ cur \in Keys
      /\ tree \in Trees /\ n # Null
  <2>1. pc = "search" /\ cur \notin {Null, n} /\ n' = n
      BY DEF Descend
  <2> QED BY <2>1, DescendMoves, PointerFacts DEF TreeInv
<1>3. /\ next # Null => Searching(tree, held, sub, n, next)
      /\ next = Null => n \notin held
  <2> HIDE DEF d
  <2> QED BY <1>1, <1>2, SearchGoesOn
<1>4. CASE next # Null
  <2>1. tree' = tree /\ held' = held /\ pc' = "search" /\ cur' = next
      BY <1>2, <1>4 DEF Descend
  <2>2. next \in Pointers
    <3> HIDE DEF d
    <3> QED BY <1>2, TreeFields
  <2>3. Exempt' = Exempt
      BY <1>2, <2>1 DEF Exempt
  <2> HIDE DEF next
  <2> QED BY <1>1, <1>2, <1>3, <1>4, <2>1, <2>2, <2>3 DEF TreeInv
<1>5. CASE next = Null
  <2>1. /\ tree' = [tree EXCEPT
              !.child = [e \in Dirs |->
                 [tree.child[e] EXCEPT ![cur] = IF e = d THEN n ELSE tree.child[e][cur],
                                       ![n] = Null]],
              !.parent[n] = cur,
              !.color = [@ EXCEPT ![tree.root] = Black, ![n] = Red]]
        /\ held' = held \union {n} /\ pc' = "fix" /\ cur' = Null
      BY <1>2, <1>5 DEF Descend
  <2>2. tree.root \in held /\ tree.root \in Keys /\ tree.root # n /\ n \notin held
      BY <1>1, <1>2, <1>3, <1>5 DEF Shape, Linked, Rooted
  <2>3. Hung(tree, tree', d, cur, n)
    <3> DEFINE ch == [e \in Dirs |->
                 [tree.child[e] EXCEPT ![cur] = IF e = d THEN n ELSE tree.child[e][cur],
                                       ![n] = Null]]
               pa == [tree.parent EXCEPT ![n] = cur]
               co == [tree.color EXCEPT ![tree.root] = Black, ![n] = Red]
    <3>1. ch \in [Dirs -> [Keys -> Pointers]] /\ pa \in [Keys -> Pointers]
          /\ co \in [Keys -> {Red, Black}]
        BY <1>2, <2>2, TreeFields DEF Pointers
    <3>2. \A y \in Keys : pa[y] = IF y = n THEN cur ELSE tree.parent[y]
        BY <1>2, TreeFields
    <3>3. \A e \in Dirs, y \in Keys :
             ch[e][y] = IF y = n THEN Null ELSE IF y = cur /\ e = d THEN n ELSE tree.child[e][y]
        BY <1>2, TreeFields DEF Dirs
    <3>4. tree' = [root |-> tree.root, color |-> co, parent |-> pa, child |-> ch]
        BY <1>2, <2>1 DEF Trees
    <3> HIDE DEF ch, pa, co, d
    <3> QED BY <1>2, <3>1, <3>2, <3>3, <3>4 DEF Hung, Trees
  <2>4. /\ tree'.color[n] = Red /\ tree'.color[tree.root] = Black
        /\ \A y \in Keys \ {n, tree.root} : tree'.color[y] = tree.color[y]
    <3>1. tree'.color = [tree.color EXCEPT ![tree.root] = Black, ![n] = Red]
        BY <1>2, <2>1 DEF Trees
    <3> QED BY <1>2, <2>2, <3>1, TreeFields
  <2> HIDE DEF d
  <2>5. Shape(tree', held', Grown(held, sub, cur, n))
      BY <1>1, <1>2, <1>5, <2>1, <2>2, <2>3, HangKeepsShape
  <2>6. Grown(held, sub, cur, n) \in [Keys -> SUBSET Keys]
      BY <1>2 DEF Grown
  <2> DEFINE h2 == [h EXCEPT ![n] = 0,
                             ![tree.root] = h[tree.root] + 1 - Ink(tree, tree.root)]
  <2>7. /\ h2 \in [Keys -> Nat] /\ h2[n] = 0
        /\ h2[tree.root] = h[tree.root] + 1 - Ink(tree, tree.root)
        /\ \A y \in Keys \ {n, tree.root} : h2[y] = h[y]
      BY <1>2, <2>2 DEF Ink
  <2> HIDE DEF h2
  <2>8. Balanced(tree', held', h2)
    <3> SUFFICES ASSUME NEW y \in held', NEW e \in Dirs
                 PROVE  h2[y] = Height(h2, tree'.child[e][y]) + Ink(tree', y)
        BY <2>7 DEF Balanced
    <3>1. CASE y = n
        BY <1>2, <2>3, <2>4, <2>7, <3>1 DEF Hung, Height, Ink, Red, Black
    <3>2. CASE y # n
      <4>1. y \in held /\ y \in Keys
          BY <1>1, <2>1, <3>2 DEF Shape
      <4>2. h[y] = Height(h, tree.child[e][y]) + Ink(tree, y) /\ h[y] \in Nat
          BY <1>1, <4>1 DEF Balanced
      <4>3. /\ tree.child[e][y] # tree.root /\ tree.child[e][y] # n
            /\ tree.child[e][y] \in Keys \union {Null}
        <5>1. tree.child[e][y] # Null => tree.child[e][y] \in held
            BY <1>1, <1>2, <4>1, ChildFacts
        <5>2. tree.root # Null /\ tree.parent[tree.root] = Null /\ y # Null
            BY <1>1, <2>2, <4>1, PointerFacts DEF Shape, Rooted
        <5>3. tree.child[e][y] # tree.root
            BY <1>1, <1>2, <4>1, <5>2, ChildFacts
        <5> QED BY <1>1, <1>2, <2>2, <5>1, <5>3 DEF Shape
      <4>4. Height(h2, tree'.child[e][y]) = Height(h, tree.child[e][y])
        <5>1. CASE y = cur /\ e = d
            BY <1>2, <1>5, <2>3, <2>7, <4>1, <5>1 DEF Hung, Height
        <5>2. CASE ~(y = cur /\ e = d)
          <6>1. tree'.child[e][y] = tree.child[e][y]
              BY <2>3, <3>2, <4>1, <5>2 DEF Hung
          <6> QED BY <2>7, <4>3, <6>1 DEF Height
        <5> QED BY <5>1, <5>2
      <4>5. Height(h, tree.child[e][y]) \in Nat
          BY <4>3 DEF Height
      <4>6. CASE y = tree.root
        <5>1. Ink(tree', y) = 1 /\ Ink(tree, y) \in Nat
            BY <2>4, <4>6 DEF Ink
        <5>2. h2[y] = h[y] + 1 - Ink(tree, y)
            BY <2>7, <4>6
        <5> QED BY <4>2, <4>4, <4>5, <5>1, <5>2
      <4>7. CASE y # tree.root
          BY <2>4, <2>7, <3>2, <4>1, <4>2, <4>4, <4>7 DEF Ink
      <4> QED BY <4>6, <4>7
    <3> QED BY <3>1, <3>2
  <2>9. Calm(tree', held', Exempt')
    <3> SUFFICES ASSUME NEW k \in held' \ {n}, tree'.parent[k] # Null
                 PROVE  Black \in {tree'.color[k], tree'.color[tree'.parent[k]]}
        BY <1>2, <2>1 DEF Calm, Exempt
    <3>1. k \in held /\ k \in Keys /\ tree'.parent[k] = tree.parent[k]
        BY <1>1, <2>1, <2>3 DEF Shape, Hung
    <3>2. tree.parent[k] \in held /\ tree.parent[k] \in Keys
        BY <1>1, <1>2, <3>1, ParentFacts
    <3>3. Black \in {tree.color[k], tree.color[tree.parent[k]]}
        BY <1>2, <3>1, PointerFacts DEF TreeInv, Calm, Exempt
    <3> QED BY <2>2, <2>4, <3>1, <3>2, <3>3
  <2>10. tree'.root = tree.root /\ tree' \in Trees
      BY <2>3 DEF Hung
  <2>11. cur' \in Pointers /\ n' \in Pointers
      BY <1>2, <2>1 DEF Pointers
  <2> QED BY <1>2, <2>1, <2>4, <2>5, <2>6, <2>7, <2>8, <2>9, <2>10, <2>11 DEF TreeInv
<1> QED BY <1>4, <1>5

LEMMA InsertRootKeeps ==
    ASSUME TreeInv, InsertRoot, peak' \in Nat
    PROVE  TreeInv'
<1>1. PICK sub \in [Keys -> SUBSET Keys], h \in [Keys -> Nat] :
         /\ Shape(tree, held, sub) /\ Balanced(tree, held, h)
         /\ Searching(tree, held, sub, n, cur)
    BY DEF TreeInv, InsertRoot
<1>2. /\ n \in Keys /\ n # Null /\ tree \in Trees /\ held = {} /\ held' = {n} /\ n' = n /\ cur' = Null
      /\ pc' = "idle"
    BY <1>1, PointerFacts DEF TreeInv, InsertRoot, Searching
<1>3. tree' = [root   |-> n,
               color  |-> [tree.color EXCEPT ![n] = Red],
               parent |-> [tree.parent EXCEPT ![n] = Null],
               child  |-> [d \in Dirs |-> [tree.child[d] EXCEPT ![n] = Null]]]
    BY DEF InsertRoot
<1>4. /\ tree' \in Trees /\ tree'.root = n /\ tree'.color[n] = Red
      /\ \A y \in Keys : tree'.parent[y] = Null
      /\ \A d \in Dirs, y \in Keys : tree'.child[d][y] = Null
  <2>1. \A y \in Keys : tree.parent[y] = Null /\ \A d \in Dirs : tree.child[d][y] = Null
      BY <1>1, <1>2 DEF Shape, Unlinked
  <2> DEFINE ch == [d \in Dirs |-> [tree.child[d] EXCEPT ![n] = Null]]
             pa == [tree.parent EXCEPT ![n] = Null]
             co == [tree.color EXCEPT ![n] = Red]
  <2>2. ch \in [Dirs -> [Keys -> Pointers]] /\ pa \in [Keys -> Pointers]
        /\ co \in [Keys -> {Red, Black}] /\ co[n] = Red
      BY <1>2, TreeFields DEF Pointers
  <2>3. /\ \A y \in Keys : pa[y] = Null
        /\ \A d \in Dirs, y \in Keys : ch[d][y] = Null
      BY <1>2, <2>1, TreeFields
  <2>4. tree' = [root |-> n, color |-> co, parent |-> pa, child |-> ch] /\ n \in Pointers
      BY <1>2, <1>3 DEF Pointers
  <2> HIDE DEF ch, pa, co
  <2> QED BY <2>2, <2>3, <2>4 DEF Trees
<1> DEFINE s2 == [sub EXCEPT ![n] = {n}]
           h2 == [h EXCEPT ![n] = 0]
<1>5. s2 \in [Keys -> SUBSET Keys] /\ s2[n] = {n} /\ h2 \in [Keys -> Nat] /\ h2[n] = 0
    BY <1>2
<1> HIDE DEF s2, h2
<1>6. Shape(tree', held', s2)
  <2>1. Spans(tree', held', s2) /\ Sorted(tree', held', s2)
      BY <1>2, <1>4, <1>5, Directions DEF Spans, Sorted, Under
  <2>2. Rooted(tree', held', s2) /\ Unlinked(tree', held')
      BY <1>2, <1>4, <1>5 DEF Rooted, Unlinked
  <2>3. Linked(tree', held')
      BY <1>2, <1>4 DEF Linked
  <2> QED BY <1>2, <1>5, <2>1, <2>2, <2>3 DEF Shape
<1>7. Balanced(tree', held', h2)
    BY <1>2, <1>4, <1>5 DEF Balanced, Height, Ink, Red, Black
<1>8. Calm(tree', held', Exempt')
    BY <1>2, <1>4 DEF Calm
<1> QED BY <1>2, <1>4, <1>5, <1>6, <1>7, <1>8 DEF TreeInv, Pointers

\* The nodes the fix-up looks at.
LEMMA FixNodes ==
    ASSUME TreeInv, pc = "fix", RedParent,
           NEW sub, Shape(tree, held, sub)
    PROVE  /\ n \in held /\ Parent \in held /\ Grand \in held /\ held \subseteq Keys
           /\ n # Parent /\ n # Grand /\ Parent # Grand
           /\ tree.parent[n] = Parent /\ tree.parent[Parent] = Grand
           /\ tree.color[n] = Red /\ tree.color[Parent] = Red /\ tree.color[Grand] = Black
           /\ Side \in Dirs /\ tree.child[Side][Grand] = Parent
           /\ tree.child[Other(Side)][Grand] = Uncle
           /\ Uncle # Null => /\ Uncle \in held /\ Uncle \notin {n, Parent, Grand}
                              /\ tree.parent[Uncle] = Grand
           /\ \A d \in Dirs : tree.child[d][Parent] # n => tree.child[Other(d)][Parent] = n
<1>1. /\ n \in held /\ held \subseteq Keys /\ Parent # Null /\ tree.parent[n] = Parent
      /\ tree.color[n] = Red /\ tree.color[Parent] = Red /\ tree \in Trees /\ Exempt = n
    BY DEF TreeInv, Shape, RedParent, Parent, Exempt
<1>2. Parent \in held /\ Parent # n /\ tree.root # n
    BY <1>1, ParentFacts
<1>3. tree.root # Parent
    BY <1>1, <1>2 DEF TreeInv, Red, Black
<1>4. Grand \in held /\ Grand # Parent /\ tree.parent[Parent] = Grand /\ Grand # Null
    BY <1>1, <1>2, <1>3, ParentFacts DEF Grand
<1>5. tree.color[Grand] = Black
    BY <1>1, <1>2, <1>4 DEF TreeInv, Calm, Red, Black
<1>6. Side \in Dirs /\ tree.child[Side][Grand] = Parent
    BY <1>1, <1>2, <1>4, ParentFacts DEF Side, Dirs
<1>7. Other(Side) \in Dirs /\ Other(Other(Side)) = Side
    BY <1>6, Directions
<1>8. tree.child[Other(Side)][Grand] = Uncle
    BY DEF Uncle
<1>9. Uncle # Null => Uncle \in held /\ Uncle # Grand /\ tree.parent[Uncle] = Grand /\ Uncle # Parent
    BY <1>1, <1>4, <1>6, <1>7, <1>8, ChildFacts
<1>10. n # Grand
    BY <1>1, <1>5 DEF Red, Black
<1>11. Uncle # n
    BY <1>1, <1>2, <1>4, <1>9, PointerFacts
<1>12. \A d \in Dirs : tree.child[d][Parent] # n => tree.child[Other(d)][Parent] = n
    BY <1>1, <1>2, ParentFacts, Directions
<1> QED BY <1>1, <1>2, <1>4, <1>5, <1>6, <1>8, <1>9, <1>10, <1>11, <1>12

LEMMA RecolorKeeps ==
    ASSUME TreeInv, Recolor, peak' \in Nat
    PROVE  TreeInv'
<1>1. PICK sub \in [Keys -> SUBSET Keys], h \in [Keys -> Nat] :
         Shape(tree, held, sub) /\ Balanced(tree, held, h)
    BY DEF TreeInv
<1>2. /\ pc = "fix" /\ RedParent /\ RedUncle /\ tree \in Trees
      /\ held' = held /\ pc' = "fix" /\ n' = Grand /\ cur' = cur /\ cur \in Pointers
    BY DEF Recolor, TreeInv
<1>3. /\ n \in held /\ Parent \in held /\ Grand \in held /\ held \subseteq Keys
      /\ n # Parent /\ n # Grand /\ Parent # Grand
      /\ tree.parent[n] = Parent /\ tree.parent[Parent] = Grand
      /\ tree.color[n] = Red /\ tree.color[Parent] = Red /\ tree.color[Grand] = Black
      /\ Side \in Dirs /\ tree.child[Side][Grand] = Parent
      /\ tree.child[Other(Side)][Grand] = Uncle
      /\ Uncle # Null => /\ Uncle \in held /\ Uncle \notin {n, Parent, Grand}
                         /\ tree.parent[Uncle] = Grand
    BY <1>1, <1>2, FixNodes
<1>4. /\ Uncle \in held /\ Uncle \notin {n, Parent, Grand} /\ tree.parent[Uncle] = Grand
      /\ tree.color[Uncle] = Red
    BY <1>2, <1>3 DEF RedUncle
<1> DEFINE c == [tree.color EXCEPT ![Uncle] = Black, ![Parent] = Black, ![Grand] = Red]
           h2 == [h EXCEPT ![Uncle] = h[Uncle] + 1, ![Parent] = h[Parent] + 1]
<1>5. /\ c \in [Keys -> {Red, Black}] /\ c[Uncle] = Black /\ c[Parent] = Black /\ c[Grand] = Red
      /\ \A y \in Keys \ {Uncle, Parent, Grand} : c[y] = tree.color[y]
    BY <1>2, <1>3, <1>4, TreeFields
<1>6. tree' = [tree EXCEPT !.color = c]
    BY DEF Recolor
<1> HIDE DEF c
<1>7. Painted(tree, tree', c)
    BY <1>2, <1>5, <1>6, PaintView
<1>8. Shape(tree', held', sub)
    BY <1>1, <1>2, <1>7, PaintKeepsShape
<1>9. /\ h2 \in [Keys -> Nat] /\ h2[Uncle] = h[Uncle] + 1 /\ h2[Parent] = h[Parent] + 1
      /\ \A y \in Keys \ {Uncle, Parent} : h2[y] = h[y]
      /\ \A y \in Keys : h[y] \in Nat
    BY <1>3, <1>4
<1> HIDE DEF h2
<1>10. Balanced(tree', held', h2)
  <2> SUFFICES ASSUME NEW y \in held, NEW e \in Dirs
               PROVE  h2[y] = Height(h2, tree.child[e][y]) + Ink(tree', y)
      BY <1>2, <1>7, <1>9 DEF Balanced, Painted
  <2>1. h[y] = Height(h, tree.child[e][y]) + Ink(tree, y) /\ y \in Keys
      BY <1>1, <1>3 DEF Balanced
  <2>2. tree.child[e][y] # Null => tree.child[e][y] \in Keys /\ tree.parent[tree.child[e][y]] = y
      BY <1>1, <1>2, ChildFacts
  <2>3. Height(h, tree.child[e][y]) \in Nat
      BY <1>9, <2>2 DEF Height
  <2>4. /\ Ink(tree', Uncle) = 1 /\ Ink(tree', Parent) = 1 /\ Ink(tree', Grand) = 0
        /\ Ink(tree, Uncle) = 0 /\ Ink(tree, Parent) = 0 /\ Ink(tree, Grand) = 1
        /\ (y \notin {Uncle, Parent, Grand} => Ink(tree', y) = Ink(tree, y))
      BY <1>3, <1>4, <1>5, <1>7, <2>1 DEF Painted, Ink, Red, Black
  <2>5. CASE y \in {Uncle, Parent}
    <3>1. tree.child[e][y] \notin {Uncle, Parent}
        BY <1>3, <1>4, <2>2, <2>5, PointerFacts
    <3>2. Height(h2, tree.child[e][y]) = Height(h, tree.child[e][y])
        BY <1>9, <2>2, <3>1 DEF Height
    <3> QED BY <1>9, <2>1, <2>3, <2>4, <2>5, <3>2
  <2>6. CASE y = Grand
    <3>1. tree.child[e][y] \in {Uncle, Parent}
        BY <1>3, <2>6, Directions
    <3>2. Height(h2, tree.child[e][y]) = Height(h, tree.child[e][y]) + 1
        BY <1>3, <1>4, <1>9, <3>1, PointerFacts DEF Height
    <3>3. h2[y] = h[y]
        BY <1>3, <1>4, <1>9, <2>6
    <3> QED BY <2>1, <2>3, <2>4, <2>6, <3>2, <3>3
  <2>7. CASE y \notin {Uncle, Parent, Grand}
    <3>1. tree.child[e][y] \notin {Uncle, Parent}
        BY <1>3, <1>4, <2>2, <2>7, PointerFacts
    <3>2. Height(h2, tree.child[e][y]) = Height(h, tree.child[e][y])
        BY <1>9, <2>2, <3>1 DEF Height
    <3> QED BY <1>9, <2>1, <2>4, <2>7, <3>2
  <2> QED BY <2>5, <2>6, <2>7
<1>11. Calm(tree', held', Exempt')
  <2> SUFFICES ASSUME NEW k \in held \ {Grand}, tree.parent[k] # Null
               PROVE  Black \in {c[k], c[tree.parent[k]]}
      BY <1>2, <1>7 DEF Calm, Painted, Exempt
  <2>1. k \in Keys /\ tree.parent[k] \in Keys
      BY <1>1, <1>2, <1>3, ParentFacts
  <2>2. CASE k \in {Uncle, Parent}
      BY <1>5, <2>2
  <2>3. CASE k \notin {Uncle, Parent} /\ tree.parent[k] \in {Uncle, Parent}
      BY <1>5, <2>3
  <2>4. CASE k \notin {Uncle, Parent} /\ tree.parent[k] = Grand
    <3>1. \E e \in Dirs : tree.child[e][Grand] = k
        BY <1>1, <1>2, <2>4, ParentFacts
    <3> QED BY <1>3, <2>4, <3>1, Directions
  <2>5. CASE k \notin {Uncle, Parent} /\ tree.parent[k] \notin {Uncle, Parent, Grand}
    <3>1. k # n
        BY <1>3, <2>5
    <3> QED BY <1>2, <1>5, <2>1, <2>5, <3>1 DEF TreeInv, Calm, Exempt
  <2> QED BY <2>2, <2>3, <2>4, <2>5
<1>12. tree'.color[Grand] = Red /\ (tree'.root # Grand => tree'.color[tree'.root] = Black)
  <2>1. tree.root \in Keys /\ tree.root # n
    <3>1. tree.parent[n] # Null /\ tree.root # Null
        BY <1>1, <1>3, PointerFacts DEF Shape, Linked
    <3> QED BY <1>1, <1>2, <1>3, <3>1, ParentFacts DEF Shape, Rooted
  <2>2. tree.color[tree.root] = Black
      BY <1>2, <2>1 DEF TreeInv
  <2> QED BY <1>5, <1>7, <2>1, <2>2 DEF Painted
<1>13. tree' \in Trees /\ n' \in Pointers
    BY <1>2, <1>3, <1>7 DEF Painted, Pointers
<1> QED BY <1>1, <1>2, <1>3, <1>8, <1>9, <1>10, <1>11, <1>12, <1>13 DEF TreeInv

LEMMA InsertedKeeps ==
    ASSUME TreeInv, Inserted, peak' \in Nat
    PROVE  TreeInv'
<1>1. PICK sub \in [Keys -> SUBSET Keys], h \in [Keys -> Nat] :
         Shape(tree, held, sub) /\ Balanced(tree, held, h)
    BY DEF TreeInv
<1>2. /\ pc = "fix" /\ ~RedParent /\ tree \in Trees /\ n \in held
      /\ held' = held /\ pc' = "idle" /\ n' = n /\ cur' = cur
    BY DEF Inserted, TreeInv
<1>3. /\ tree.root \in held /\ tree.root \in Keys /\ held \subseteq Keys
      /\ tree.parent[tree.root] = Null
    BY <1>1, <1>2 DEF Shape, Linked, Rooted
<1> DEFINE c == [tree.color EXCEPT ![tree.root] = Black]
           h2 == [h EXCEPT ![tree.root] = h[tree.root] + 1 - Ink(tree, tree.root)]
<1>4. /\ c \in [Keys -> {Red, Black}] /\ c[tree.root] = Black
      /\ \A y \in Keys \ {tree.root} : c[y] = tree.color[y]
    BY <1>2, <1>3, TreeFields
<1>5. tree' = [tree EXCEPT !.color = c]
    BY DEF Inserted
<1> HIDE DEF c
<1>6. Painted(tree, tree', c)
    BY <1>2, <1>4, <1>5, PaintView
<1>7. Shape(tree', held', sub)
    BY <1>1, <1>2, <1>6, PaintKeepsShape
<1>8. /\ h2 \in [Keys -> Nat] /\ h2[tree.root] = h[tree.root] + 1 - Ink(tree, tree.root)
      /\ \A y \in Keys \ {tree.root} : h2[y] = h[y]
      /\ \A y \in Keys : h[y] \in Nat
    BY <1>3 DEF Ink
<1> HIDE DEF h2
<1>9. Balanced(tree', held', h2)
  <2> SUFFICES ASSUME NEW y \in held, NEW e \in Dirs
               PROVE  h2[y] = Height(h2, tree.child[e][y]) + Ink(tree', y)
      BY <1>2, <1>6, <1>8 DEF Balanced, Painted
  <2>1. h[y] = Height(h, tree.child[e][y]) + Ink(tree, y) /\ y \in Keys
      BY <1>1, <1>3 DEF Balanced
  <2>2. tree.child[e][y] # Null =>
           tree.child[e][y] \in Keys /\ tree.parent[tree.child[e][y]] = y /\ y # Null
      BY <1>1, <1>2, <2>1, ChildFacts, PointerFacts
  <2>3. Height(h2, tree.child[e][y]) = Height(h, tree.child[e][y])
        /\ Height(h, tree.child[e][y]) \in Nat
      BY <1>3, <1>8, <2>2 DEF Height
  <2>4. CASE y = tree.root
    <3>1. Ink(tree', y) = 1 /\ Ink(tree, y) \in Nat
        BY <1>4, <1>6, <2>4 DEF Ink, Painted
    <3> QED BY <1>8, <2>1, <2>3, <2>4, <3>1
  <2>5. CASE y # tree.root
    <3>1. Ink(tree', y) = Ink(tree, y)
        BY <1>4, <1>6, <2>1, <2>5 DEF Ink, Painted
    <3> QED BY <1>8, <2>1, <2>3, <2>5, <3>1
  <2> QED BY <2>4, <2>5
<1>10. Calm(tree', held', Exempt')
  <2> SUFFICES ASSUME NEW k \in held, tree.parent[k] # Null
               PROVE  Black \in {c[k], c[tree.parent[k]]}
      BY <1>2, <1>6 DEF Calm, Painted
  <2>1. k \in Keys /\ tree.parent[k] \in Keys
      BY <1>1, <1>2, <1>3, ParentFacts
  <2>2. Black \in {tree.color[k], tree.color[tree.parent[k]]}
    <3>1. CASE k = n
        BY <1>2, <2>1, <3>1, TreeFields DEF RedParent
    <3>2. CASE k # n
        BY <1>2, <3>2 DEF TreeInv, Calm, Exempt
    <3> QED BY <3>1, <3>2
  <2> QED BY <1>4, <2>1, <2>2
<1>11. tree' \in Trees
    BY <1>6 DEF Painted
<1> QED BY <1>1, <1>2, <1>7, <1>8, <1>9, <1>10, <1>11 DEF TreeInv

\* Below, t1 is the tree after the first rotation, if there is one.
LEMMA InnerTurn ==
    ASSUME TreeInv, pc = "fix", RedParent, tree.child[Other(Side)][Parent] = n,
           NEW sub \in [Keys -> SUBSET Keys], Shape(tree, held, sub),
           NEW h \in [Keys -> Nat], Balanced(tree, held, h),
           NEW t1, t1 = Rotate(tree, Side, Parent)
    PROVE  /\ \E s1 \in [Keys -> SUBSET Keys], h1 \in [Keys -> Nat] :
                Shape(t1, held, s1) /\ Balanced(t1, held, h1)
           /\ t1 \in Trees /\ t1.color = tree.color /\ t1.root = tree.root
           /\ Calm(t1, held, Parent)
           /\ t1.child[Side][Grand] = n /\ t1.child[Other(Side)][Grand] = Uncle
           /\ t1.child[Side][n] = Parent /\ t1.parent[Parent] = n
<1> DEFINE x == Parent
           mid == tree.child[Side][n]
<1>1. /\ n \in held /\ x \in held /\ Grand \in held /\ held \subseteq Keys
      /\ n # x /\ n # Grand /\ x # Grand
      /\ tree.parent[n] = x /\ tree.parent[x] = Grand
      /\ tree.color[n] = Red /\ tree.color[x] = Red
      /\ Side \in Dirs /\ tree.child[Side][Grand] = x
      /\ tree.child[Other(Side)][Grand] = Uncle
      /\ tree \in Trees /\ Calm(tree, held, n)
    BY FixNodes DEF TreeInv, Exempt
<1>2. Pivot(tree, Side, x, n, mid, Grand)
    BY <1>1, PivotFound
<1>3. Rotated(tree, t1, Side, x, n, mid, Grand)
    BY <1>1, <1>2, RotateView
<1> DEFINE s1 == Turned(tree, sub, Side, x, n)
           h1 == Exchanged(h, x, n)
           c  == Repainted(tree.color, x, n)
<1>4. Shape(t1, held, s1)
    BY <1>1, <1>3, RotateKeepsShape
<1>5. Painted(tree, tree, c)
  <2>1. c = tree.color
      BY <1>1, TreeFields DEF Repainted
  <2> QED BY <1>1, <2>1 DEF Painted
<1>6. Balanced(t1, held, h1)
    BY <1>1, <1>3, <1>5, TurnKeepsBalance
<1>7. s1 \in [Keys -> SUBSET Keys] /\ h1 \in [Keys -> Nat]
    BY <1>4, <1>6 DEF Shape, Balanced
<1>8. Calm(t1, held, x)
    BY <1>1, <1>3, InnerTurnCalm
<1>9. Grand # Null /\ Other(Side) \in Dirs /\ Other(Side) # Side
    BY <1>1, Directions, PointerFacts
<1>10. tree.child[Other(Side)][Grand] # x
    BY <1>1, <1>9, ChildFacts, PointerFacts
<1>11. /\ t1 \in Trees /\ t1.color = tree.color /\ t1.root = tree.root
       /\ t1.child[Side][Grand] = n /\ t1.child[Other(Side)][Grand] = Uncle
       /\ t1.child[Side][n] = x /\ t1.parent[x] = n
    BY <1>1, <1>3, <1>9, <1>10 DEF Rotated
<1> HIDE DEF s1, h1
<1> QED BY <1>4, <1>6, <1>7, <1>8, <1>11

\* The colours for the second rotation.
Swapped(t, p, x) == [t EXCEPT !.color = [t.color EXCEPT ![p] = Black, ![x] = Red]]

LEMMA OuterTurn ==
    ASSUME TreeInv, pc = "fix", RedParent, ~RedUncle,
           NEW m, NEW p, NEW t1 \in Trees, NEW tc, NEW t2,
           NEW s1 \in [Keys -> SUBSET Keys], Shape(t1, held, s1),
           NEW h1 \in [Keys -> Nat], Balanced(t1, held, h1),
           t1.color = tree.color, t1.root = tree.root, Calm(t1, held, m),
           m \in held, p \in held, tree.color[m] = Red, tree.color[p] = Red,
           t1.child[Side][Grand] = p, t1.child[Other(Side)][Grand] = Uncle,
           t1.child[Side][p] = m,
           tc = Swapped(t1, p, Grand),
           t2 = Rotate(tc, Other(Side), Grand)
    PROVE  /\ \E s2 \in [Keys -> SUBSET Keys], h2 \in [Keys -> Nat] :
                Shape(t2, held, s2) /\ Balanced(t2, held, h2)
           /\ t2 \in Trees /\ Calm(t2, held, m) /\ t2.color[m] = Red
           /\ t2.root # m => t2.color[t2.root] = Black
<1> DEFINE x == Grand
           d == Other(Side)
           mid == t1.child[d][p]
           g == t1.parent[x]
           c == [t1.color EXCEPT ![p] = Black, ![x] = Red]
<1>1. PICK sub \in [Keys -> SUBSET Keys] : Shape(tree, held, sub)
    BY DEF TreeInv
<1>2. /\ x \in held /\ held \subseteq Keys /\ tree.color[x] = Black /\ Side \in Dirs
      /\ Uncle # Null => Uncle \in held
    BY <1>1, FixNodes
<1>3. d \in Dirs /\ Other(d) = Side /\ d # Side
    BY <1>2, Directions
<1>4. p # x /\ p \in Keys /\ x \in Keys /\ m \in Keys /\ p # Null /\ m # Null /\ m # p
  <2>1. p # x
      BY <1>2 DEF Red, Black
  <2>2. p \in Keys /\ x \in Keys /\ m \in Keys /\ p # Null /\ m # Null
      BY <1>2, PointerFacts
  <2> QED BY <1>2, <2>1, <2>2, ChildFacts
<1>5. Painted(t1, tc, c) /\ c = Repainted(t1.color, x, p)
  <2>1. c \in [Keys -> {Red, Black}] /\ c = Repainted(t1.color, x, p)
      BY <1>2, <1>4, TreeFields DEF Repainted
  <2> HIDE DEF c
  <2>2. tc = [t1 EXCEPT !.color = c]
      BY DEF c, Swapped
  <2> QED BY <2>1, <2>2, PaintView
<1> HIDE DEF c
<1>6. Shape(tc, held, s1) /\ tc \in Trees
    BY <1>5, PaintKeepsShape DEF Painted
<1>7. /\ tc.child[Other(d)][x] = p /\ tc.child[d][p] = mid /\ tc.parent[x] = g
      /\ tc.child[d][x] = Uncle /\ t1.child[Other(d)][x] = p /\ t1.child[d][x] = Uncle
      /\ m = t1.child[Other(d)][p]
    BY <1>3, <1>5 DEF Painted
<1> HIDE DEF x, d, mid, g
<1>8. Pivot(tc, d, x, p, mid, g)
  <2>1. Pivot(tc, d, x, p, tc.child[d][p], tc.parent[x])
      BY <1>2, <1>3, <1>6, <1>7, PivotFound DEF x
  <2> QED BY <1>7, <2>1
<1>9. Rotated(tc, t2, d, x, p, mid, g)
    BY <1>6, <1>8, RotateView DEF d, x
<1>10. Shape(t2, held, Turned(tc, s1, d, x, p))
    BY <1>2, <1>3, <1>6, <1>7, <1>9, RotateKeepsShape DEF x
<1>11. Balanced(t2, held, Exchanged(h1, x, p))
    BY <1>2, <1>3, <1>5, <1>7, <1>9, TurnKeepsBalance DEF x, mid, g
<1>12. Calm(t2, held, m)
  <2>1. Uncle # Null => t1.color[Uncle] = Black
      BY <1>2, TreeFields DEF RedUncle
  <2> QED BY <1>2, <1>3, <1>4, <1>5, <1>7, <1>9, <2>1, OuterTurnCalm DEF x, mid, g
<1>13. /\ t2 \in Trees /\ t2.color = c /\ t2.root = IF g = Null THEN p ELSE t1.root
    BY <1>5, <1>9 DEF Rotated, Painted
<1>14. c[m] = Red /\ c[p] = Black /\ \A y \in Keys \ {p, x} : c[y] = tree.color[y]
    BY <1>2, <1>4, TreeFields DEF c, x, Red, Black
<1>15. t2.root # m => t2.color[t2.root] = Black
  <2>1. CASE g = Null
      BY <1>13, <1>14, <2>1
  <2>2. CASE g # Null
    <3>1. t2.root = tree.root /\ t1.root # x
        BY <1>2, <1>13, <2>2, ParentFacts DEF g, x
    <3>2. t1.root # p /\ t1.root \in Keys
      <4>1. t1.parent[p] = x /\ x # Null
          BY <1>2, <1>4, ChildFacts, PointerFacts DEF x
      <4>2. t1.root # Null /\ t1.parent[t1.root] = Null /\ t1.root \in held
          BY DEF Shape, Linked, Rooted
      <4> QED BY <1>2, <4>1, <4>2
    <3>3. tree.root # n => tree.color[tree.root] = Black
        BY DEF TreeInv
    <3>4. tree.root # n
      <4>1. n \in held /\ tree.parent[n] # Null /\ tree \in Trees
          BY DEF TreeInv, RedParent
      <4> QED BY <1>1, <4>1, ParentFacts
    <3> QED BY <1>13, <1>14, <3>1, <3>2, <3>3, <3>4
  <2> QED BY <2>1, <2>2
<1>16. Turned(tc, s1, d, x, p) \in [Keys -> SUBSET Keys]
       /\ Exchanged(h1, x, p) \in [Keys -> Nat]
    BY <1>10, <1>11 DEF Shape, Balanced
<1> QED BY <1>10, <1>11, <1>12, <1>13, <1>14, <1>15, <1>16

LEMMA RotateUpKeeps ==
    ASSUME TreeInv, RotateUp, peak' \in Nat
    PROVE  TreeInv'
<1>1. PICK sub \in [Keys -> SUBSET Keys], h \in [Keys -> Nat] :
         Shape(tree, held, sub) /\ Balanced(tree, held, h)
    BY DEF TreeInv
<1> DEFINE inner == tree.child[Other(Side)][Parent] = n
           t1 == IF inner THEN Rotate(tree, Side, Parent) ELSE tree
           m  == IF inner THEN Parent ELSE n
           p  == t1.parent[m]
           tc == Swapped(t1, p, Grand)
<1>2. /\ pc = "fix" /\ RedParent /\ ~RedUncle /\ pc' = "fix" /\ held' = held /\ cur' = cur
      /\ n' = m /\ tree' = Rotate(tc, Other(Side), Grand)
    BY DEF RotateUp, Swapped
<1>3. /\ n \in held /\ Parent \in held /\ held \subseteq Keys
      /\ tree.parent[n] = Parent
      /\ tree.color[n] = Red /\ tree.color[Parent] = Red
      /\ Side \in Dirs /\ tree.child[Side][Grand] = Parent
      /\ tree.child[Other(Side)][Grand] = Uncle
      /\ \A d \in Dirs : tree.child[d][Parent] # n => tree.child[Other(d)][Parent] = n
      /\ tree \in Trees /\ Calm(tree, held, n) /\ cur \in Pointers
    BY <1>1, <1>2, FixNodes DEF TreeInv, Exempt
<1>4. /\ \E s1 \in [Keys -> SUBSET Keys], h1 \in [Keys -> Nat] :
           Shape(t1, held, s1) /\ Balanced(t1, held, h1)
      /\ t1 \in Trees /\ t1.color = tree.color /\ t1.root = tree.root /\ Calm(t1, held, m)
      /\ t1.child[Side][Grand] = p /\ t1.child[Other(Side)][Grand] = Uncle
      /\ t1.child[Side][p] = m
      /\ m \in held /\ p \in held /\ tree.color[m] = Red /\ tree.color[p] = Red
  <2>1. CASE inner
    <3>1. /\ t1 = Rotate(tree, Side, Parent) /\ m = Parent
        BY <2>1
    <3> HIDE DEF t1, m
    <3>2. /\ \E s1 \in [Keys -> SUBSET Keys], h1 \in [Keys -> Nat] :
                Shape(t1, held, s1) /\ Balanced(t1, held, h1)
          /\ t1 \in Trees /\ t1.color = tree.color /\ t1.root = tree.root
          /\ Calm(t1, held, Parent)
          /\ t1.child[Side][Grand] = n /\ t1.child[Other(Side)][Grand] = Uncle
          /\ t1.child[Side][n] = Parent /\ t1.parent[Parent] = n
        BY <1>1, <1>2, <2>1, <3>1, InnerTurn
    <3> QED BY <1>3, <3>1, <3>2
  <2>2. CASE ~inner
    <3>1. Other(Side) \in Dirs /\ Other(Other(Side)) = Side
        BY <1>3, Directions
    <3>2. t1 = tree /\ m = n /\ p = Parent
        BY <1>3, <2>2
    <3>3. tree.child[Side][Parent] = n
        BY <1>3, <2>2, <3>1
    <3> HIDE DEF t1, m, p
    <3> QED BY <1>1, <1>3, <3>2, <3>3
  <2> QED BY <2>1, <2>2
<1>5. tc = Swapped(t1, p, Grand)
    OBVIOUS
<1> HIDE DEF inner, t1, m, p, tc
<1>6. PICK s1 \in [Keys -> SUBSET Keys], h1 \in [Keys -> Nat] :
         Shape(t1, held, s1) /\ Balanced(t1, held, h1)
    BY <1>4
<1>7. /\ \E s2 \in [Keys -> SUBSET Keys], h2 \in [Keys -> Nat] :
             Shape(tree', held, s2) /\ Balanced(tree', held, h2)
      /\ tree' \in Trees /\ Calm(tree', held, m) /\ tree'.color[m] = Red
      /\ tree'.root # m => tree'.color[tree'.root] = Black
    BY <1>2, <1>4, <1>5, <1>6, OuterTurn
<1>8. m \in Pointers /\ Exempt' = m
    BY <1>2, <1>3, <1>4 DEF Pointers, Exempt
<1> QED BY <1>2, <1>3, <1>4, <1>7, <1>8 DEF TreeInv

LEMMA StepKeepsTree ==
    ASSUME NoPops, TreeInv, [TreeNext]_allVars
    PROVE  TreeInv'
<1>1. held \subseteq Keys
    BY DEF TreeInv, Shape
<1>2. CASE UNCHANGED allVars
  <2>1. tree' = tree /\ held' = held /\ pc' = pc /\ n' = n /\ cur' = cur /\ peak' = peak
      BY <1>2 DEF allVars, treeVars
  <2>2. Exempt' = Exempt
      BY <2>1 DEF Exempt
  <2> QED BY <2>1, <2>2 DEF TreeInv
<1>3. CASE TreeNext
  <2>1. \A k \in Keys : ~Pop(k)
      BY <1>1 DEF Pop, NoPops
  <2>2. PICK step \in {"insert", "descend", "found", "root", "recolor", "rotate", "done"} :
           \/ step = "insert" /\ \E k \in Keys : Insert(k)
           \/ step = "descend" /\ Descend
           \/ step = "found" /\ FoundAlready
           \/ step = "root" /\ InsertRoot
           \/ step = "recolor" /\ Recolor
           \/ step = "rotate" /\ RotateUp
           \/ step = "done" /\ Inserted
      BY <1>3, <2>1 DEF TreeNext
  <2>3. held' \subseteq Keys
    <3>1. held' = held \/ (held' = held \union {n} /\ pc = "search")
        BY <2>2 DEF Insert, Descend, FoundAlready, InsertRoot, Recolor, RotateUp, Inserted
    <3>2. pc = "search" => n \in Keys
        BY DEF TreeInv, Searching
    <3> QED BY <1>1, <3>1, <3>2
  <2>4. peak' \in Nat
    <3>1. Cardinality(held') \in Nat
        BY <2>3, SizeFacts
    <3> QED BY <1>3, <3>1 DEF TreeNext, TreeInv
  <2> QED BY <2>2, <2>4, InsertKeeps, DescendKeeps, FoundKeeps, InsertRootKeeps,
             RecolorKeeps, RotateUpKeeps, InsertedKeeps
<1> QED BY <1>2, <1>3

\* The inductive invariant: what a loop leaves at the head of each of its turns.
THEOREM TreeInvariant ==
    ASSUME NoPops
    PROVE  TreeSpec => []TreeInv
<1>1. TreeInit => TreeInv
    BY InitTree
<1>2. TreeInv /\ [TreeNext]_allVars => TreeInv'
    BY StepKeepsTree
<1> QED BY <1>1, <1>2, PTL DEF TreeSpec

\* Between any two turns, rotations included, the pointers agree and a search
\* finds exactly the keys inserted, for any number of keys in any order.
THEOREM IntactCorrect ==
    ASSUME NoPops
    PROVE  TreeSpec => []AlwaysIntact
<1>1. TreeInv => AlwaysIntact
    BY TreeLinks, LinksIntact DEF AlwaysIntact
<1> QED BY <1>1, TreeInvariant, PTL

\* To its users, a tree that is only inserted into is a set of keys.
THEOREM InsertionsImplementSet ==
    ASSUME NoPops
    PROVE  TreeSpec => Registry!SetSpec
<1>1. TreeInv => Found(tree) = held
    BY SearchFinds DEF TreeInv
<1>2. TreeInit => Registry!SetInit
  <2> SUFFICES ASSUME TreeInit PROVE Found(tree) = {}
      BY DEF Registry!SetInit
  <2> QED BY <1>1, InitTree DEF TreeInit
<1>3. TreeInv /\ TreeInv' /\ [TreeNext]_allVars => [Registry!SetNext]_(Found(tree))
  <2> SUFFICES ASSUME TreeInv, TreeInv', [TreeNext]_allVars
               PROVE  Registry!SetNext \/ Found(tree)' = Found(tree)
      OBVIOUS
  <2>1. Found(tree) = held /\ Found(tree)' = held'
    <3>1. Found(tree) = held
        BY <1>1
    <3>2. Found(tree)' = held'
      <4>1. PICK sub : Shape(tree', held', sub)
          BY DEF TreeInv
      <4>2. tree' \in Trees
          BY DEF TreeInv
      <4> QED BY <4>1, <4>2, SearchFinds
    <3> QED BY <3>1, <3>2
  <2>2. held' = held \/ \E k \in Keys : held' = held \union {k}
    <3>1. held \subseteq Keys
        BY DEF TreeInv, Shape
    <3>2. \A k \in Keys : ~Pop(k)
        BY <3>1 DEF Pop, NoPops
    <3>3. held' = held \/ (held' = held \union {n} /\ pc = "search")
        BY <3>2 DEF TreeNext, allVars, treeVars, Insert, Descend, FoundAlready, InsertRoot, Recolor,
                    RotateUp, Inserted
    <3>4. pc = "search" => n \in Keys
        BY DEF TreeInv, Searching
    <3> QED BY <3>3, <3>4
  <2> QED BY <2>1, <2>2 DEF Registry!SetNext, Registry!Insert
<1> QED BY <1>2, <1>3, TreeInvariant, PTL DEF TreeSpec, Registry!SetSpec

(***************************************************************************)
(* The black nodes on the ways down.                                       *)
(***************************************************************************)
LEMMA HeightsAgree ==
    ASSUME NEW t \in Trees, NEW S, NEW sub, Shape(t, S, sub), NEW h, Balanced(t, S, h)
    PROVE  BlackHeights(t, S) \subseteq {h[t.root]}
<1> DEFINE Solves(f) == f = [k \in Keys \union {Null} |->
                          IF k = Null THEN 0
                          ELSE f[t.parent[k]] + (IF t.color[k] = Black THEN 1 ELSE 0)]
           depth == CHOOSE f : Solves(f)
           D == [k \in Keys \union {Null} |->
                   IF k = Null THEN 0
                   ELSE IF k \in S THEN h[t.root] - h[k] + Ink(t, k) ELSE Ink(t, k)]
<1>1. /\ S \subseteq Keys /\ (S # {} => t.root \in S)
      /\ \A k \in Keys : h[k] \in Nat /\ Ink(t, k) \in Nat
    BY DEF Shape, Linked, Rooted, Balanced, Ink
<1>2. \A k \in S : IF t.parent[k] = Null THEN D[k] = Ink(t, k)
                   ELSE D[k] = D[t.parent[k]] + Ink(t, k)
  <2> SUFFICES ASSUME NEW k \in S
               PROVE  IF t.parent[k] = Null THEN D[k] = Ink(t, k)
                      ELSE D[k] = D[t.parent[k]] + Ink(t, k)
      OBVIOUS
  <2>1. D[k] = h[t.root] - h[k] + Ink(t, k)
      BY <1>1, PointerFacts
  <2>2. CASE t.parent[k] = Null
    <3>1. t.root = k
        BY <2>2, ParentFacts
    <3> QED BY <1>1, <2>1, <2>2, <3>1
  <2>3. CASE t.parent[k] # Null
    <3>1. /\ t.parent[k] \in S /\ t.parent[k] \in Keys
          /\ \E d \in Dirs : t.child[d][t.parent[k]] = k
        BY <2>3, ParentFacts
    <3>2. h[t.parent[k]] = h[k] + Ink(t, t.parent[k])
        BY <1>1, <3>1, PointerFacts DEF Balanced, Height
    <3>3. D[t.parent[k]] = h[t.root] - h[t.parent[k]] + Ink(t, t.parent[k])
        BY <3>1, PointerFacts
    <3> HIDE DEF D
    <3> QED BY <1>1, <2>1, <2>3, <3>1, <3>2, <3>3
  <2> QED BY <2>2, <2>3
<1>3. Solves(D)
  <2>1. D[Null] = 0
      OBVIOUS
  <2>2. \A k \in Keys : D[k] = D[t.parent[k]] + Ink(t, k)
    <3> TAKE k \in Keys
    <3>1. CASE k \in S
        BY <1>1, <1>2, <2>1, <3>1
    <3>2. CASE k \notin S
      <4>1. t.parent[k] = Null /\ k # Null
          BY <3>2, PointerFacts DEF Shape, Unlinked
      <4>2. D[k] = Ink(t, k)
          BY <3>2, <4>1
      <4> QED BY <1>1, <2>1, <4>1, <4>2
    <3> QED BY <3>1, <3>2
  <2> QED BY <2>1, <2>2 DEF Ink
<1>4. Solves(depth)
    BY <1>3
<1>5. \A k \in S : D[k] = IF t.parent[k] = Null THEN Ink(t, k) ELSE D[t.parent[k]] + Ink(t, k)
    BY <1>2
<1>6. BlackHeights(t, S) = {depth[k] : k \in {k \in S : \E d \in Dirs : t.child[d][k] = Null}}
    BY DEF BlackHeights
<1>7. \A k \in S : D[k] = h[t.root] - h[k] + Ink(t, k)
    BY <1>1, PointerFacts
<1> HIDE DEF D
<1>8. depth[Null] = 0 /\ \A k \in S : depth[k] = depth[t.parent[k]] + Ink(t, k)
  <2> HIDE DEF depth
  <2> QED BY <1>1, <1>4, PointerFacts DEF Ink
<1> HIDE DEF depth
<1>9. \A k \in S : depth[k] = D[k]
  <2> DEFINE B == {k \in S : depth[k] # D[k]}
  <2> SUFFICES ASSUME B # {} PROVE FALSE
      OBVIOUS
  <2>1. PICK k \in B : t.parent[k] \notin B
      BY HighestNode
  <2>2. CASE t.parent[k] = Null
    <3>1. depth[k] = Ink(t, k)
        BY <1>1, <1>8, <2>1, <2>2
    <3> QED BY <1>5, <2>1, <2>2, <3>1
  <2>3. CASE t.parent[k] # Null
    <3>1. t.parent[k] \in S
        BY <2>1, <2>3, ParentFacts
    <3> QED BY <1>5, <1>8, <2>1, <2>3, <3>1
  <2> QED BY <2>2, <2>3
<1>10. ASSUME NEW k \in S, NEW d \in Dirs, t.child[d][k] = Null PROVE depth[k] = h[t.root]
  <2>1. h[k] = Ink(t, k)
      BY <1>1, <1>10 DEF Balanced, Height
  <2>2. depth[k] = h[t.root] - h[k] + Ink(t, k) /\ h[t.root] \in Nat
      BY <1>1, <1>7, <1>9
  <2> QED BY <1>1, <2>1, <2>2
<1> QED BY <1>6, <1>10

LEMMA ColorsHold == TreeInv => RedBlack
<1> SUFFICES ASSUME TreeInv PROVE RedBlack
    OBVIOUS
<1>1. PICK sub, h : tree \in Trees /\ Shape(tree, held, sub) /\ Balanced(tree, held, h)
    BY DEF TreeInv
<1>2. BlackHeights(tree, held) \in SUBSET {h[tree.root]}
    BY <1>1, HeightsAgree
<1>3. Cardinality(BlackHeights(tree, held)) <= 1
  <2> DEFINE top == {h[tree.root]}
             B == BlackHeights(tree, held)
  <2>1. IsFiniteSet(top) /\ Cardinality(top) = 1
      BY FS_Singleton
  <2>2. B \subseteq top
      BY <1>2
  <2> HIDE DEF top, B
  <2>3. IsFiniteSet(B) /\ Cardinality(B) <= Cardinality(top)
      BY <2>1, <2>2, FS_Subset
  <2> QED BY <2>1, <2>3 DEF B
<1>4. \A k \in held : tree.parent[k] # Null /\ ~(pc = "fix" /\ k = n) =>
         Black \in {tree.color[k], tree.color[tree.parent[k]]}
  <2>1. held \subseteq Keys
      BY <1>1 DEF Shape
  <2> QED BY <2>1, PointerFacts DEF TreeInv, Calm, Exempt
<1> QED BY <1>3, <1>4 DEF RedBlack

\* The red-black invariants between any two turns of an insertion, for any
\* number of keys in any order.
THEOREM RedBlackCorrect ==
    ASSUME NoPops
    PROVE  TreeSpec => []RedBlack
BY ColorsHold, TreeInvariant, PTL

(***************************************************************************)
(* Scanning a tree in order.                                               *)
(***************************************************************************)

\* e is the key at the end d of the subtree at y.
Foremost(sub, d, y, e) == e \in sub[y] /\ \A z \in sub[y] : z = e \/ Before(d, e, z)

LEMMA ForemostFound ==
    ASSUME NEW t \in Trees, NEW S, NEW sub, Shape(t, S, sub), NEW d \in Dirs, NEW y \in S
    PROVE  /\ t.child[d][y] = Null => Foremost(sub, d, y, y)
           /\ t.child[d][y] # Null =>
                \A e : Foremost(sub, d, t.child[d][y], e) => Foremost(sub, d, y, e)
<1> DEFINE c == t.child[d][y]
           o == t.child[Other(d)][y]
<1>1. y \in Keys /\ y \in sub[y] /\ sub[y] \subseteq S /\ S \subseteq Keys /\ Other(d) \in Dirs
    BY ChildFacts, Directions DEF Shape
<1>2. \A z \in sub[y] : z = y \/ Under(sub, z, c) \/ Under(sub, z, o)
    BY <1>1, ChildFacts
<1>3. \A z \in S : Under(sub, z, o) => Before(d, y, z)
  <2> TAKE z \in S
  <2>1. Under(sub, z, o) => Before(Other(d), z, y)
      BY <1>1 DEF Shape, Sorted
  <2> QED BY <1>1, <2>1, BeforeOrder
<1>4. \A z \in S : Under(sub, z, c) => Before(d, z, y)
    BY DEF Shape, Sorted
<1>5. ASSUME c = Null PROVE Foremost(sub, d, y, y)
    BY <1>1, <1>2, <1>3, <1>5 DEF Foremost, Under
<1>6. ASSUME c # Null, NEW e, Foremost(sub, d, c, e) PROVE Foremost(sub, d, y, e)
  <2>1. e \in sub[c] /\ e \in sub[y] /\ Under(sub, e, c)
      BY <1>6, ChildFacts DEF Foremost, Under
  <2>2. Before(d, e, y) /\ e \in Keys
      BY <1>1, <1>4, <2>1
  <2>3. ASSUME NEW z \in sub[y] PROVE z = e \/ Before(d, e, z)
    <3>1. CASE z = y
        BY <2>2, <3>1
    <3>2. CASE Under(sub, z, c)
        BY <1>6, <3>2 DEF Foremost, Under
    <3>3. CASE Under(sub, z, o)
      <4>1. Before(d, y, z) /\ z \in Keys
          BY <1>1, <1>3, <3>3
      <4> QED BY <1>1, <2>2, <4>1, BeforeOrder
    <3> QED BY <1>2, <3>1, <3>2, <3>3
  <2> QED BY <2>1, <2>3 DEF Foremost
<1> QED BY <1>5, <1>6

LEMMA ExtremeFound ==
    ASSUME NEW t \in Trees, NEW S, NEW sub, Shape(t, S, sub), NEW d \in Dirs, NEW x \in S
    PROVE  Foremost(sub, d, x, Extreme(t, d, x))
<1> DEFINE Solves(f) == f = [y \in Keys |-> IF t.child[d][y] = Null THEN y ELSE f[t.child[d][y]]]
           walk == CHOOSE f : Solves(f)
           E == [y \in Keys |-> IF y \in S THEN CHOOSE e : Foremost(sub, d, y, e) ELSE y]
<1>1. S \subseteq Keys /\ x \in Keys /\ x # Null
    BY PointerFacts DEF Shape
<1>2. \A y \in S : t.child[d][y] # Null => t.child[d][y] \in S
    BY ChildFacts
<1>3. \A y \in S : \E e : Foremost(sub, d, y, e)
  <2> DEFINE B == {y \in S : ~\E e : Foremost(sub, d, y, e)}
  <2> SUFFICES ASSUME B # {} PROVE FALSE
      OBVIOUS
  <2>1. PICK y \in B : \A f \in Dirs : t.child[f][y] \notin B
      BY LowestNode
  <2> QED BY <1>2, <2>1, ForemostFound
<1>4. \A y \in S : Foremost(sub, d, y, E[y])
    BY <1>1, <1>3
<1>5. ASSUME NEW y \in S, NEW e, NEW f, Foremost(sub, d, y, e), Foremost(sub, d, y, f)
      PROVE  e = f
  <2>1. e \in Keys /\ f \in Keys
      BY <1>1, <1>5, ChildFacts DEF Foremost
  <2>2. (e = f \/ Before(d, e, f)) /\ (e = f \/ Before(d, f, e))
      BY <1>5 DEF Foremost
  <2> QED BY <2>1, <2>2, BeforeOrder
<1>6. Solves(E)
  <2>1. \A y \in Keys : E[y] = IF t.child[d][y] = Null THEN y ELSE E[t.child[d][y]]
    <3> TAKE y \in Keys
    <3>1. CASE y \notin S
      <4>1. t.child[d][y] = Null
          BY <3>1 DEF Shape, Unlinked
      <4> QED BY <3>1, <4>1
    <3>2. CASE y \in S
      <4>1. Foremost(sub, d, y, E[y])
          BY <1>4, <3>2
      <4>2. CASE t.child[d][y] = Null
        <5>1. Foremost(sub, d, y, y)
            BY <3>2, <4>2, ForemostFound
        <5> HIDE DEF E
        <5> QED BY <1>5, <3>2, <4>1, <4>2, <5>1
      <4>3. CASE t.child[d][y] # Null
        <5>1. Foremost(sub, d, t.child[d][y], E[t.child[d][y]])
            BY <1>2, <1>4, <3>2, <4>3
        <5> HIDE DEF E
        <5>2. Foremost(sub, d, y, E[t.child[d][y]])
            BY <3>2, <4>3, <5>1, ForemostFound
        <5> QED BY <1>5, <3>2, <4>1, <4>3, <5>2
      <4> QED BY <4>2, <4>3
    <3> QED BY <3>1, <3>2
  <2>2. E = [y \in Keys |-> E[y]]
      OBVIOUS
  <2> HIDE DEF E
  <2> QED BY <2>1, <2>2
<1>7. Solves(walk)
    BY <1>6
<1>8. Extreme(t, d, x) = walk[x]
    BY <1>1 DEF Extreme
<1> HIDE DEF E
<1>9. \A y \in S : walk[y] = IF t.child[d][y] = Null THEN y ELSE walk[t.child[d][y]]
  <2> HIDE DEF walk
  <2> QED BY <1>1, <1>7
<1> HIDE DEF walk
<1>10. \A y \in S : Foremost(sub, d, y, walk[y])
  <2> DEFINE B == {y \in S : ~Foremost(sub, d, y, walk[y])}
  <2> SUFFICES ASSUME B # {} PROVE FALSE
      OBVIOUS
  <2>1. PICK y \in B : \A f \in Dirs : t.child[f][y] \notin B
      BY LowestNode
  <2>2. CASE t.child[d][y] = Null
      BY <1>9, <2>1, <2>2, ForemostFound
  <2>3. CASE t.child[d][y] # Null
    <3>1. Foremost(sub, d, t.child[d][y], walk[t.child[d][y]])
        BY <1>2, <2>1, <2>3
    <3> QED BY <1>9, <2>1, <2>3, <3>1, ForemostFound
  <2> QED BY <2>2, <2>3
<1> QED BY <1>8, <1>10

\* The keys outside a subtree are on one side of all of it.
LEMMA SubtreeInterval ==
    ASSUME NEW t \in Trees, NEW S, NEW sub, Shape(t, S, sub),
           NEW y \in S, NEW z \in S \ sub[y], NEW a \in sub[y], NEW d \in Dirs
    PROVE  Before(d, z, y) <=> Before(d, z, a)
<1> DEFINE Apart(x, k, b) == Before(d, k, x) <=> Before(d, k, b)
           B == {x \in S : \E k \in S \ sub[x], b \in sub[x] : ~Apart(x, k, b)}
<1> SUFFICES ASSUME B # {} PROVE FALSE
    OBVIOUS
<1>1. PICK x \in B : t.parent[x] \notin B
    BY HighestNode
<1>2. PICK k \in S \ sub[x], b \in sub[x] : ~Apart(x, k, b)
    BY <1>1
<1>3. S \subseteq Keys /\ x \in sub[x] /\ sub[x] \subseteq S
    BY <1>1, ChildFacts DEF Shape
<1>4. t.parent[x] # Null
  <2> SUFFICES ASSUME t.parent[x] = Null PROVE FALSE
      OBVIOUS
  <2>1. t.root = x /\ x # Null
      BY <1>1, <1>3, ParentFacts, PointerFacts
  <2> QED BY <1>2, <2>1 DEF Shape, Rooted
<1> DEFINE p == t.parent[x]
<1>5. p \in S
    BY <1>1, <1>4, ParentFacts
<1>6. PICK e \in Dirs : t.child[e][p] = x
    BY <1>1, <1>4, ParentFacts
<1>7. x # Null /\ sub[x] \subseteq sub[p] /\ Other(e) \in Dirs
    BY <1>1, <1>3, <1>5, <1>6, ChildFacts, PointerFacts, Directions
<1>8. CASE k \notin sub[p]
    BY <1>1, <1>2, <1>3, <1>5, <1>7, <1>8
<1>9. CASE k \in sub[p]
  <2>1. Before(e, x, p) /\ Before(e, b, p)
      BY <1>2, <1>3, <1>5, <1>6, <1>7 DEF Shape, Sorted, Under
  <2>2. k = p \/ Before(Other(e), k, p)
    <3>1. k = p \/ Under(sub, k, t.child[Other(e)][p])
        BY <1>2, <1>5, <1>6, <1>9, ChildFacts DEF Under
    <3> QED BY <1>2, <1>5, <1>7, <3>1 DEF Shape, Sorted
  <2>3. k \in Keys /\ p \in Keys /\ x \in Keys /\ b \in Keys
      BY <1>2, <1>3, <1>5
  <2>4. Before(e, x, k) /\ Before(e, b, k)
      BY <2>1, <2>2, <2>3, BeforeOrder
  <2>5. d = e \/ d = Other(e)
      BY Directions
  <2>6. ~Before(e, k, x) /\ ~Before(e, k, b) /\ Before(Other(e), k, x) /\ Before(Other(e), k, b)
      BY <2>3, <2>4, BeforeOrder
  <2> QED BY <1>2, <2>5, <2>6
<1> QED BY <1>8, <1>9

\* j is the first of the keys of U seen from the other end, or null.
FirstOf(d, U, j) ==
    IF U = {} THEN j = Null ELSE j \in U /\ \A z \in U : z = j \/ Before(Other(d), j, z)

LEMMA FirstUnique ==
    ASSUME NEW d \in Dirs, NEW U \in SUBSET Keys, NEW i, NEW j,
           FirstOf(d, U, i), FirstOf(d, U, j)
    PROVE  i = j
<1>1. CASE U = {}
    BY <1>1 DEF FirstOf
<1>2. CASE U # {}
  <2>1. i \in Keys /\ j \in Keys
      BY <1>2 DEF FirstOf
  <2>2. (i = j \/ Before(Other(d), i, j)) /\ (i = j \/ Before(Other(d), j, i)) /\ Other(d) \in Dirs
      BY <1>2, Directions DEF FirstOf
  <2> QED BY <2>1, <2>2, BeforeOrder
<1> QED BY <1>1, <1>2

\* The nodes of the tree past the whole subtree at y.
Past(S, sub, d, y) == {z \in S \ sub[y] : Before(d, z, y)}

LEMMA PastFound ==
    ASSUME NEW t \in Trees, NEW S, NEW sub, Shape(t, S, sub), NEW d \in Dirs, NEW y \in S
    PROVE  /\ t.parent[y] = Null => Past(S, sub, d, y) = {}
           /\ t.parent[y] # Null =>
                IF t.child[Other(d)][t.parent[y]] = y
                THEN FirstOf(d, Past(S, sub, d, y), t.parent[y])
                ELSE Past(S, sub, d, y) = Past(S, sub, d, t.parent[y])
<1> DEFINE p == t.parent[y]
           U == Past(S, sub, d, y)
<1>1. S \subseteq Keys /\ y \in Keys /\ y # Null /\ y \in sub[y] /\ sub[y] \subseteq S
    BY ChildFacts, PointerFacts DEF Shape
<1>2. ASSUME p = Null PROVE U = {}
  <2>1. t.root = y
      BY <1>2, ParentFacts
  <2> QED BY <1>1, <2>1 DEF Shape, Rooted, Past
<1>3. ASSUME p # Null
      PROVE  IF t.child[Other(d)][p] = y THEN FirstOf(d, U, p) ELSE U = Past(S, sub, d, p)
  <2>1. p \in S /\ p \in Keys
      BY <1>3, ParentFacts
  <2>2. Other(d) \in Dirs /\ Other(d) # d /\ Other(Other(d)) = d
      BY Directions
  <2>3. sub[y] \subseteq sub[p] /\ p \in sub[p] /\ sub[p] \subseteq S /\ p \notin sub[y]
    <3>1. PICK e \in Dirs : t.child[e][p] = y
        BY <1>3, ParentFacts
    <3> QED BY <1>1, <2>1, <3>1, ChildFacts
  <2>4. \A z \in S \ sub[p] : Before(d, z, p) <=> Before(d, z, y)
      BY <1>1, <2>1, <2>3, SubtreeInterval
  <2>5. CASE t.child[Other(d)][p] = y
    <3>1. Before(Other(d), y, p)
        BY <1>1, <2>1, <2>2, <2>5 DEF Shape, Sorted, Under
    <3>2. Before(d, p, y)
        BY <1>1, <2>1, <3>1, BeforeOrder
    <3>3. p \in U
        BY <2>1, <2>3, <3>2 DEF Past
    <3>4. ASSUME NEW z \in U PROVE z = p \/ Before(Other(d), p, z)
      <4>1. z \in S /\ z \notin sub[y] /\ z \in Keys
          BY <1>1 DEF Past
      <4>2. CASE z \notin sub[p]
        <5>1. Before(d, z, p)
            BY <2>4, <4>1, <4>2 DEF Past
        <5> QED BY <2>1, <4>1, <5>1, BeforeOrder
      <4>3. CASE z \in sub[p]
        <5>1. z = p \/ Under(sub, z, t.child[d][p])
            BY <2>1, <2>5, <4>1, <4>3, ChildFacts DEF Under
        <5>2. z = p \/ Before(d, z, p)
            BY <2>1, <4>1, <5>1 DEF Shape, Sorted
        <5> QED BY <2>1, <4>1, <5>2, BeforeOrder
      <4> QED BY <4>2, <4>3
    <3> QED BY <2>5, <3>3, <3>4 DEF FirstOf
  <2>6. CASE t.child[Other(d)][p] # y
    <3>1. t.child[d][p] = y
        BY <1>3, <2>6, ParentFacts, Directions
    <3>2. Before(d, y, p)
        BY <1>1, <2>1, <3>1 DEF Shape, Sorted, Under
    <3>3. ASSUME NEW z \in S \ sub[y], z \in sub[p] PROVE ~Before(d, z, y)
      <4>1. z \in Keys
          BY <1>1, <3>3
      <4>2. z = p \/ Under(sub, z, t.child[Other(d)][p])
          BY <2>1, <3>1, <3>3, ChildFacts DEF Under
      <4>3. z = p \/ Before(Other(d), z, p)
          BY <2>1, <2>2, <3>3, <4>2 DEF Shape, Sorted
      <4>4. Before(d, y, z)
          BY <1>1, <2>1, <3>2, <4>1, <4>3, BeforeOrder
      <4> QED BY <1>1, <4>1, <4>4, BeforeOrder
    <3>4. \A z : z \in U <=> z \in Past(S, sub, d, p)
        BY <2>3, <2>4, <3>3 DEF Past
    <3>5. U = Past(S, sub, d, p)
      <4> HIDE DEF U
      <4> QED BY <3>4
    <3> QED BY <2>6, <3>5
  <2> QED BY <2>5, <2>6
<1> QED BY <1>2, <1>3

\* Climbing from a subtree comes to the first node past it.
LEMMA ClimbFound ==
    ASSUME NEW t \in Trees, NEW S, NEW sub, Shape(t, S, sub), NEW d \in Dirs, NEW x \in S,
           t.child[d][x] = Null
    PROVE  FirstOf(d, Past(S, sub, d, x), Neighbour(t, d, x))
<1> DEFINE Turns(y) == t.parent[y] = Null \/ t.child[Other(d)][t.parent[y]] = y
           Solves(f) == f = [y \in Keys |->
                               IF t.parent[y] = Null \/ t.child[Other(d)][t.parent[y]] = y
                               THEN t.parent[y] ELSE f[t.parent[y]]]
           climb == CHOOSE f : Solves(f)
           C == [y \in Keys |-> IF y \in S THEN CHOOSE j : FirstOf(d, Past(S, sub, d, y), j) ELSE Null]
<1>1. S \subseteq Keys /\ \A y \in S : Past(S, sub, d, y) \in SUBSET Keys
    BY DEF Shape, Past
<1>2. \A y \in S : t.parent[y] # Null => t.parent[y] \in S
    BY ParentFacts
<1>3. \A y \in S : IF Turns(y) THEN FirstOf(d, Past(S, sub, d, y), t.parent[y])
                   ELSE Past(S, sub, d, y) = Past(S, sub, d, t.parent[y]) /\ t.parent[y] \in S
    BY <1>2, PastFound DEF FirstOf
<1>4. \A y \in Keys \ S : t.parent[y] = Null
    BY DEF Shape, Unlinked
<1> HIDE DEF Turns
<1>5. \A y \in S : \E j : FirstOf(d, Past(S, sub, d, y), j)
  <2> DEFINE B == {y \in S : ~\E j : FirstOf(d, Past(S, sub, d, y), j)}
  <2> SUFFICES ASSUME B # {} PROVE FALSE
      OBVIOUS
  <2>1. PICK y \in B : t.parent[y] \notin B
      BY HighestNode
  <2> QED BY <1>3, <2>1
<1>6. \A y \in S : FirstOf(d, Past(S, sub, d, y), C[y])
    BY <1>1, <1>5
<1>7. \A y \in Keys : C[y] = IF Turns(y) THEN t.parent[y] ELSE C[t.parent[y]]
  <2> TAKE y \in Keys
  <2>1. CASE y \notin S
    <3>1. C[y] = Null /\ t.parent[y] = Null
        BY <1>4, <2>1
    <3> QED BY <3>1 DEF Turns
  <2>2. CASE y \in S
    <3>1. FirstOf(d, Past(S, sub, d, y), C[y]) /\ Past(S, sub, d, y) \in SUBSET Keys
        BY <1>1, <1>6, <2>2
    <3>2. CASE Turns(y)
      <4>1. FirstOf(d, Past(S, sub, d, y), t.parent[y])
          BY <1>3, <2>2, <3>2
      <4> HIDE DEF C
      <4>2. C[y] = t.parent[y]
          BY <3>1, <4>1, FirstUnique
      <4> QED BY <3>2, <4>2
    <3>3. CASE ~Turns(y)
      <4>1. FirstOf(d, Past(S, sub, d, y), C[t.parent[y]])
          BY <1>3, <1>6, <2>2, <3>3
      <4> HIDE DEF C
      <4>2. C[y] = C[t.parent[y]]
          BY <3>1, <4>1, FirstUnique
      <4> QED BY <3>3, <4>2
    <3> QED BY <3>2, <3>3
  <2> QED BY <2>1, <2>2
<1>8. C = [y \in Keys |-> C[y]]
    OBVIOUS
<1> HIDE DEF C
<1>9. Solves(C)
    BY <1>7, <1>8 DEF Turns
<1>10. Solves(climb)
    BY <1>9
<1>11. Neighbour(t, d, x) = climb[x]
    BY DEF Neighbour
<1> HIDE DEF climb
<1>12. \A y \in S : climb[y] = IF Turns(y) THEN t.parent[y] ELSE climb[t.parent[y]]
    BY <1>1, <1>10 DEF Turns
<1>13. \A y \in S : FirstOf(d, Past(S, sub, d, y), climb[y])
  <2> DEFINE B == {y \in S : ~FirstOf(d, Past(S, sub, d, y), climb[y])}
  <2> SUFFICES ASSUME B # {} PROVE FALSE
      OBVIOUS
  <2>1. PICK y \in B : t.parent[y] \notin B
      BY HighestNode
  <2> QED BY <1>3, <1>12, <2>1
<1> QED BY <1>11, <1>13

\* rbt_next and rbt_prev of a node: the first node past it.
LEMMA NeighbourFound ==
    ASSUME NEW t \in Trees, NEW S, NEW sub, Shape(t, S, sub), NEW d \in Dirs, NEW x \in S
    PROVE  FirstOf(d, {z \in S : Before(d, z, x)}, Neighbour(t, d, x))
<1> DEFINE U == {z \in S : Before(d, z, x)}
           c == t.child[d][x]
<1>1. S \subseteq Keys /\ x \in Keys /\ x \in sub[x] /\ Other(d) \in Dirs
    BY ChildFacts, Directions DEF Shape
<1>2. \A z \in sub[x] : Before(d, z, x) => Under(sub, z, c)
  <2> SUFFICES ASSUME NEW z \in sub[x], Before(d, z, x) PROVE Under(sub, z, c)
      OBVIOUS
  <2>1. z \in S /\ z \in Keys
      BY <1>1, ChildFacts
  <2>2. z # x /\ ~Before(Other(d), z, x)
      BY <1>1, <2>1, BeforeOrder, Directions
  <2> QED BY <1>1, <2>1, <2>2, ChildFacts DEF Shape, Sorted
<1>3. CASE c = Null
  <2>1. \A z : z \in U <=> z \in Past(S, sub, d, x)
      BY <1>2, <1>3 DEF Past, Under
  <2>2. U = Past(S, sub, d, x)
    <3> HIDE DEF U
    <3> QED BY <2>1
  <2> QED BY <1>3, <2>2, ClimbFound
<1>4. CASE c # Null
  <2> DEFINE e == Extreme(t, Other(d), c)
  <2>1. c \in S /\ sub[c] \subseteq sub[x] /\ sub[x] \subseteq S
      BY <1>4, ChildFacts
  <2>2. Foremost(sub, Other(d), c, e)
      BY <1>1, <2>1, ExtremeFound
  <2>3. Neighbour(t, d, x) = e
      BY <1>4 DEF Neighbour
  <2> HIDE DEF e
  <2>4. e \in sub[c] /\ e \in S /\ e \in Keys /\ e \in sub[x]
      BY <1>1, <2>1, <2>2 DEF Foremost
  <2>5. Before(d, e, x)
      BY <1>4, <2>4 DEF Shape, Sorted, Under
  <2>6. ASSUME NEW z \in U PROVE z = e \/ Before(Other(d), e, z)
    <3>1. z \in S /\ z \in Keys /\ Before(d, z, x)
        BY <1>1
    <3>2. CASE z \in sub[x]
        BY <1>2, <2>2, <3>1, <3>2 DEF Foremost, Under
    <3>3. CASE z \notin sub[x]
      <4>1. Before(d, z, e)
          BY <2>4, <3>1, <3>3, SubtreeInterval
      <4> QED BY <2>4, <3>1, <4>1, BeforeOrder
    <3> QED BY <3>2, <3>3
  <2> QED BY <2>3, <2>4, <2>5, <2>6 DEF FirstOf
<1> QED BY <1>3, <1>4

LEMMA ScansHold == LinkInv => ScansInOrder
<1> SUFFICES ASSUME LinkInv, held # {} PROVE ScansInOrder
    BY DEF ScansInOrder
<1>1. PICK sub : Shape(tree, held, sub)
    BY DEF LinkInv
<1>2. tree \in Trees
    BY DEF LinkInv
<1>3. held \subseteq Int /\ held \subseteq Keys
    BY <1>1, PointerFacts DEF Shape
<1>4. ASSUME NEW k \in held
      PROVE  Neighbour(tree, "right", k) =
                IF \E j \in held : j > k
                THEN CHOOSE j \in held : j > k /\ \A i \in held : i > k => i >= j
                ELSE Null
  <2> DEFINE U == {z \in held : Before("right", z, k)}
             b == Neighbour(tree, "right", k)
  <2>1. FirstOf("right", U, b)
      BY <1>1, <1>2, Directions, NeighbourFound
  <2>2. \A z \in held : z \in U <=> z > k
      BY <1>3 DEF Before
  <2>3. \A z \in held : z > k => b \in held /\ b > k /\ (z = b \/ b < z)
      BY <2>1, <2>2 DEF FirstOf, Before, Other
  <2>4. (~\E j \in held : j > k) => b = Null
      BY <2>1, <2>2 DEF FirstOf
  <2> HIDE DEF b, U
  <2>5. ASSUME \E j \in held : j > k
        PROVE  b = CHOOSE j \in held : j > k /\ \A i \in held : i > k => i >= j
    <3>1. b \in held /\ b > k
        BY <2>3, <2>5
    <3>2. b \in Int /\ \A i \in held : i \in Int
        BY <1>3, <3>1
    <3>3. b \in held /\ b > k /\ \A i \in held : i > k => i >= b
        BY <2>3, <3>1, <3>2
    <3>4. \A j \in held : (j > k /\ \A i \in held : i > k => i >= j) => j = b
        BY <1>3, <3>3
    <3> QED BY <3>3, <3>4
  <2> QED BY <2>4, <2>5 DEF b
<1>5. ASSUME NEW k \in held
      PROVE  Neighbour(tree, "left", k) =
                IF \E j \in held : j < k
                THEN CHOOSE j \in held : j < k /\ \A i \in held : i < k => i <= j
                ELSE Null
  <2> DEFINE U == {z \in held : Before("left", z, k)}
             b == Neighbour(tree, "left", k)
  <2>1. FirstOf("left", U, b)
      BY <1>1, <1>2, Directions, NeighbourFound
  <2>2. \A z \in held : z \in U <=> z < k
      BY <1>3 DEF Before
  <2>3. \A z \in held : z < k => b \in held /\ b < k /\ (z = b \/ z < b)
      BY <2>1, <2>2 DEF FirstOf, Before, Other
  <2>4. (~\E j \in held : j < k) => b = Null
      BY <2>1, <2>2 DEF FirstOf
  <2> HIDE DEF b, U
  <2>5. ASSUME \E j \in held : j < k
        PROVE  b = CHOOSE j \in held : j < k /\ \A i \in held : i < k => i <= j
    <3>1. b \in held /\ b < k
        BY <2>3, <2>5
    <3>2. b \in Int /\ \A i \in held : i \in Int
        BY <1>3, <3>1
    <3>3. b \in held /\ b < k /\ \A i \in held : i < k => i <= b
        BY <2>3, <3>1, <3>2
    <3>4. \A j \in held : (j < k /\ \A i \in held : i < k => i <= j) => j = b
        BY <1>3, <3>3
    <3> QED BY <3>3, <3>4
  <2> QED BY <2>4, <2>5 DEF b
<1>6. tree.root \in held /\ sub[tree.root] = held
    BY <1>1 DEF Shape, Linked, Rooted
<1>7. \A d \in Dirs : Foremost(sub, d, tree.root, Extreme(tree, d, tree.root))
    BY <1>1, <1>2, <1>6, ExtremeFound
<1>8. \A k \in held : Extreme(tree, "left", tree.root) <= k
  <2> DEFINE e == Extreme(tree, "left", tree.root)
  <2>1. Foremost(sub, "left", tree.root, e)
      BY <1>7, Directions
  <2> HIDE DEF e
  <2>2. e \in held /\ \A z \in held : z = e \/ e < z
      BY <1>6, <2>1 DEF Foremost, Before
  <2>3. \A z \in held : e <= z
      BY <1>3, <2>2
  <2> QED BY <2>3 DEF e
<1>9. \A k \in held : k <= Extreme(tree, "right", tree.root)
  <2> DEFINE e == Extreme(tree, "right", tree.root)
  <2>1. Foremost(sub, "right", tree.root, e)
      BY <1>7, Directions
  <2> HIDE DEF e
  <2>2. e \in held /\ \A z \in held : z = e \/ z < e
      BY <1>6, <2>1 DEF Foremost, Before
  <2>3. \A z \in held : z <= e
      BY <1>3, <2>2
  <2> QED BY <2>3 DEF e
<1> QED BY <1>4, <1>5, <1>8, <1>9 DEF ScansInOrder

\* Between any two turns a scan with rbt_next and rbt_prev visits the keys in
\* order, between those rbt_min and rbt_max give.
THEOREM ScansCorrect ==
    ASSUME NoPops
    PROVE  TreeSpec => []ScansInOrder
<1>1. TreeInv => ScansInOrder
    BY TreeLinks, ScansHold
<1> QED BY <1>1, TreeInvariant, PTL

(***************************************************************************)
(* Trees that are popped from: the steps of an insertion keep LinkInv,     *)
(* with colours that say nothing any more.                                 *)
(***************************************************************************)
LEMMA InsertKeepsLinks ==
    ASSUME LinkInv, NEW k \in Keys, Insert(k), peak' \in Nat
    PROVE  LinkInv'
<1>1. PICK sub \in [Keys -> SUBSET Keys] : Shape(tree, held, sub)
    BY DEF LinkInv
<1>2. Searching(tree, held, sub, k, tree.root)
    BY <1>1, SearchStarts DEF LinkInv
<1>3. tree' = tree /\ held' = held /\ n' = k /\ cur' = tree.root /\ pc' = "search"
    BY DEF Insert
<1>4. tree.root \in Pointers /\ k \in Pointers
    BY TreeFields DEF LinkInv, Pointers
<1> QED BY <1>1, <1>2, <1>3, <1>4 DEF LinkInv

LEMMA FoundKeepsLinks ==
    ASSUME LinkInv, FoundAlready, peak' \in Nat
    PROVE  LinkInv'
<1>1. tree' = tree /\ held' = held /\ n' = n /\ cur' = Null /\ pc' = "idle"
    BY DEF FoundAlready
<1> QED BY <1>1 DEF LinkInv, Pointers

LEMMA DescendKeepsLinks ==
    ASSUME LinkInv, Descend, peak' \in Nat
    PROVE  LinkInv'
<1> DEFINE d == IF n < cur THEN "left" ELSE "right"
           next == tree.child[d][cur]
<1>1. PICK sub \in [Keys -> SUBSET Keys] :
         Shape(tree, held, sub) /\ Searching(tree, held, sub, n, cur)
    BY DEF LinkInv, Descend
<1>2. /\ pc = "search" /\ cur # Null /\ cur # n /\ n' = n
      /\ d \in Dirs /\ Before(d, n, cur) /\ n \in Keys /\ cur \in held /\ cur \in Keys
      /\ tree \in Trees /\ n # Null
  <2>1. pc = "search" /\ cur \notin {Null, n} /\ n' = n
      BY DEF Descend
  <2>2. n \in Keys /\ cur \in held /\ cur \in Keys /\ n \in Int /\ cur \in Int
      BY <1>1, <2>1, PointerFacts DEF Searching, Shape
  <2>3. d \in Dirs /\ Before(d, n, cur)
      BY <2>1, <2>2 DEF Before, Dirs
  <2> QED BY <2>1, <2>2, <2>3, PointerFacts DEF LinkInv
<1>3. /\ next # Null => Searching(tree, held, sub, n, next)
      /\ next = Null => n \notin held
  <2> HIDE DEF d
  <2> QED BY <1>1, <1>2, SearchGoesOn
<1>4. CASE next # Null
  <2>1. tree' = tree /\ held' = held /\ pc' = "search" /\ cur' = next
      BY <1>2, <1>4 DEF Descend
  <2>2. next \in Pointers
    <3> HIDE DEF d
    <3> QED BY <1>2, TreeFields
  <2> HIDE DEF next
  <2> QED BY <1>1, <1>2, <1>3, <1>4, <2>1, <2>2 DEF LinkInv
<1>5. CASE next = Null
  <2>1. /\ tree' = [tree EXCEPT
              !.child = [e \in Dirs |->
                 [tree.child[e] EXCEPT ![cur] = IF e = d THEN n ELSE tree.child[e][cur],
                                       ![n] = Null]],
              !.parent[n] = cur,
              !.color = [@ EXCEPT ![tree.root] = Black, ![n] = Red]]
        /\ held' = held \union {n} /\ pc' = "fix" /\ cur' = Null
      BY <1>2, <1>5 DEF Descend
  <2>2. tree.root \in held /\ tree.root \in Keys /\ tree.root # n /\ n \notin held
      BY <1>1, <1>2, <1>3, <1>5 DEF Shape, Linked, Rooted
  <2>3. Hung(tree, tree', d, cur, n) /\ tree'.color[tree.root] = Black
    <3> DEFINE ch == [e \in Dirs |->
                 [tree.child[e] EXCEPT ![cur] = IF e = d THEN n ELSE tree.child[e][cur],
                                       ![n] = Null]]
               pa == [tree.parent EXCEPT ![n] = cur]
               co == [tree.color EXCEPT ![tree.root] = Black, ![n] = Red]
    <3>1. ch \in [Dirs -> [Keys -> Pointers]] /\ pa \in [Keys -> Pointers]
          /\ co \in [Keys -> {Red, Black}] /\ co[tree.root] = Black
        BY <1>2, <2>2, TreeFields DEF Pointers
    <3>2. \A y \in Keys : pa[y] = IF y = n THEN cur ELSE tree.parent[y]
        BY <1>2, TreeFields
    <3>3. \A e \in Dirs, y \in Keys :
             ch[e][y] = IF y = n THEN Null ELSE IF y = cur /\ e = d THEN n ELSE tree.child[e][y]
        BY <1>2, TreeFields DEF Dirs
    <3>4. tree' = [root |-> tree.root, color |-> co, parent |-> pa, child |-> ch]
        BY <1>2, <2>1 DEF Trees
    <3> HIDE DEF ch, pa, co, d
    <3> QED BY <1>2, <3>1, <3>2, <3>3, <3>4 DEF Hung, Trees
  <2> HIDE DEF d
  <2>4. Shape(tree', held', Grown(held, sub, cur, n))
      BY <1>1, <1>2, <1>5, <2>1, <2>2, <2>3, HangKeepsShape
  <2>5. Grown(held, sub, cur, n) \in [Keys -> SUBSET Keys]
      BY <1>2 DEF Grown
  <2>6. tree'.root = tree.root /\ tree' \in Trees
      BY <2>3 DEF Hung
  <2>7. cur' \in Pointers /\ n' \in Pointers
      BY <1>2, <2>1 DEF Pointers
  <2> QED BY <1>2, <2>1, <2>3, <2>4, <2>5, <2>6, <2>7 DEF LinkInv
<1> QED BY <1>4, <1>5

\* Without nodes the colours and the heights are in order.
LEMMA InsertRootKeepsLinks ==
    ASSUME LinkInv, InsertRoot, peak' \in Nat
    PROVE  LinkInv'
<1>1. PICK sub \in [Keys -> SUBSET Keys] :
         Shape(tree, held, sub) /\ Searching(tree, held, sub, n, cur)
    BY DEF LinkInv, InsertRoot
<1>2. held = {} /\ pc = "search" /\ cur = Null
    BY <1>1 DEF InsertRoot, Searching
<1> DEFINE h == [k \in Keys |-> 0]
<1>3. Balanced(tree, held, h) /\ h \in [Keys -> Nat] /\ Calm(tree, held, Exempt)
    BY <1>2 DEF Balanced, Calm
<1> HIDE DEF h
<1>4. TreeInv
    BY <1>1, <1>2, <1>3 DEF TreeInv, LinkInv
<1>5. TreeInv'
    BY <1>4, InsertRootKeeps
<1> QED BY <1>5 DEF TreeInv, LinkInv

LEMMA InsertedKeepsLinks ==
    ASSUME LinkInv, Inserted, peak' \in Nat
    PROVE  LinkInv'
<1>1. PICK sub \in [Keys -> SUBSET Keys] : Shape(tree, held, sub)
    BY DEF LinkInv
<1>2. /\ tree \in Trees /\ held' = held /\ pc' = "idle" /\ n' = n /\ cur' = cur /\ n \in held
    BY DEF Inserted, LinkInv
<1>3. tree.root \in Keys
    BY <1>1, <1>2 DEF Shape, Linked, Rooted
<1> DEFINE c == [tree.color EXCEPT ![tree.root] = Black]
<1>4. c \in [Keys -> {Red, Black}]
    BY <1>2, TreeFields
<1>5. tree' = [tree EXCEPT !.color = c]
    BY DEF Inserted
<1> HIDE DEF c
<1>6. Painted(tree, tree', c)
    BY <1>2, <1>4, <1>5, PaintView
<1>7. Shape(tree', held', sub)
    BY <1>1, <1>2, <1>6, PaintKeepsShape
<1> QED BY <1>1, <1>2, <1>6, <1>7 DEF LinkInv, Painted

\* The nodes the fix-up looks at are there whatever the colours.
LEMMA FixLinks ==
    ASSUME LinkInv, pc = "fix", RedParent,
           NEW sub, Shape(tree, held, sub)
    PROVE  /\ n \in held /\ Parent \in held /\ Grand \in held /\ held \subseteq Keys
           /\ n # Parent /\ Parent # Grand /\ n # Grand
           /\ tree.parent[n] = Parent /\ tree.parent[Parent] = Grand
           /\ Side \in Dirs /\ tree.child[Side][Grand] = Parent
           /\ tree.child[Other(Side)][Grand] = Uncle
           /\ Uncle # Null => Uncle \in held /\ tree.parent[Uncle] = Grand
           /\ \A d \in Dirs : tree.child[d][Parent] # n => tree.child[Other(d)][Parent] = n
           /\ tree.root # n /\ tree.root # Parent
           /\ tree.root \in held /\ tree.color[tree.root] = Black
           /\ tree.parent[tree.root] = Null
<1>1. /\ n \in held /\ held \subseteq Keys /\ Parent # Null /\ tree.parent[n] = Parent
      /\ tree.color[Parent] = Red /\ tree \in Trees
    BY DEF LinkInv, Shape, RedParent, Parent
<1>2. Parent \in held /\ Parent # n /\ tree.root # n
    BY <1>1, ParentFacts
<1>3. tree.root # Parent /\ tree.color[tree.root] = Black
    BY <1>1, <1>2 DEF LinkInv, Red, Black
<1>4. Grand \in held /\ Grand # Parent /\ tree.parent[Parent] = Grand /\ Grand # Null
    BY <1>1, <1>2, <1>3, ParentFacts DEF Grand
<1>5. Side \in Dirs /\ tree.child[Side][Grand] = Parent
    BY <1>1, <1>2, <1>4, ParentFacts DEF Side, Dirs
<1>6. Other(Side) \in Dirs /\ Other(Other(Side)) = Side
    BY <1>5, Directions
<1>7. tree.child[Other(Side)][Grand] = Uncle
    BY DEF Uncle
<1>8. Uncle # Null => Uncle \in held /\ tree.parent[Uncle] = Grand
    BY <1>1, <1>4, <1>6, <1>7, ChildFacts
<1>9. n # Grand
  <2>1. PICK d \in Dirs : tree.child[d][Parent] = n
      BY <1>1, ParentFacts
  <2>2. n \in sub[n] /\ sub[n] \subseteq sub[Parent] /\ Grand \notin sub[Parent]
      BY <1>1, <1>2, <1>4, <1>5, <2>1, ChildFacts, PointerFacts
  <2> QED BY <2>2
<1>10. \A d \in Dirs : tree.child[d][Parent] # n => tree.child[Other(d)][Parent] = n
    BY <1>1, <1>2, ParentFacts, Directions
<1>11. tree.root \in held /\ tree.parent[tree.root] = Null
    BY <1>1 DEF Shape, Linked, Rooted
<1> QED BY <1>1, <1>2, <1>3, <1>4, <1>5, <1>7, <1>8, <1>9, <1>10, <1>11

LEMMA RecolorKeepsLinks ==
    ASSUME LinkInv, Recolor, peak' \in Nat
    PROVE  LinkInv'
<1>1. PICK sub \in [Keys -> SUBSET Keys] : Shape(tree, held, sub)
    BY DEF LinkInv
<1>2. /\ pc = "fix" /\ RedParent /\ RedUncle /\ tree \in Trees
      /\ held' = held /\ pc' = "fix" /\ n' = Grand /\ cur' = cur /\ cur \in Pointers
    BY DEF Recolor, LinkInv
<1>3. /\ Parent \in held /\ Grand \in held /\ held \subseteq Keys
      /\ Uncle \in held /\ tree.parent[Uncle] = Grand /\ tree.root # Parent
      /\ tree.root \in held /\ tree.color[tree.root] = Black /\ tree.parent[tree.root] = Null
    BY <1>1, <1>2, FixLinks DEF RedUncle
<1> DEFINE c == [tree.color EXCEPT ![Uncle] = Black, ![Parent] = Black, ![Grand] = Red]
<1>4. /\ c \in [Keys -> {Red, Black}]
      /\ \A y \in Keys \ {Uncle, Parent, Grand} : c[y] = tree.color[y]
    BY <1>2, <1>3, TreeFields
<1>5. tree' = [tree EXCEPT !.color = c]
    BY DEF Recolor
<1> HIDE DEF c
<1>6. Painted(tree, tree', c)
    BY <1>2, <1>4, <1>5, PaintView
<1>7. Shape(tree', held', sub)
    BY <1>1, <1>2, <1>6, PaintKeepsShape
<1>8. tree'.root # Grand => tree'.color[tree'.root] = Black
  <2>1. tree.root # Uncle
      BY <1>3, PointerFacts
  <2> QED BY <1>3, <1>4, <1>6, <2>1 DEF Painted
<1> QED BY <1>1, <1>2, <1>3, <1>6, <1>7, <1>8 DEF LinkInv, Painted, Pointers

LEMMA RotateUpKeepsLinks ==
    ASSUME LinkInv, RotateUp, peak' \in Nat
    PROVE  /\ LinkInv'
           /\ tree.parent[Grand] = Null =>
                \E p \in {n, Parent} :
                    /\ tree'.color = [tree.color EXCEPT ![p] = Black, ![Grand] = Red]
                    /\ tree'.parent[p] = Null
<1> DEFINE inner == tree.child[Other(Side)][Parent] = n
           t1 == IF inner THEN Rotate(tree, Side, Parent) ELSE tree
           m  == IF inner THEN Parent ELSE n
           p  == t1.parent[m]
           tc == Swapped(t1, p, Grand)
           d  == Other(Side)
           g  == t1.parent[Grand]
           mid == t1.child[d][p]
<1>1. PICK sub \in [Keys -> SUBSET Keys] : Shape(tree, held, sub)
    BY DEF LinkInv
<1>2. /\ pc = "fix" /\ RedParent /\ pc' = "fix" /\ held' = held /\ cur' = cur
      /\ n' = m /\ tree' = Rotate(tc, d, Grand) /\ tree \in Trees /\ cur \in Pointers
    BY DEF RotateUp, Swapped, LinkInv
<1>3. /\ n \in held /\ Parent \in held /\ Grand \in held /\ held \subseteq Keys
      /\ n # Parent /\ Parent # Grand /\ n # Grand
      /\ tree.parent[n] = Parent /\ tree.parent[Parent] = Grand
      /\ Side \in Dirs /\ tree.child[Side][Grand] = Parent
      /\ \A e \in Dirs : tree.child[e][Parent] # n => tree.child[Other(e)][Parent] = n
      /\ tree.root # n /\ tree.root # Parent
      /\ tree.root \in held /\ tree.color[tree.root] = Black /\ tree.parent[tree.root] = Null
    BY <1>1, <1>2, FixLinks
<1>4. d \in Dirs /\ Other(d) = Side /\ d # Side
    BY <1>3, Directions
<1>5. /\ \E s1 \in [Keys -> SUBSET Keys] : Shape(t1, held, s1)
      /\ t1 \in Trees /\ t1.color = tree.color /\ t1.root = tree.root
      /\ m \in held /\ p \in held /\ p \in {n, Parent} /\ m \in {n, Parent}
      /\ t1.child[Side][Grand] = p
  <2>1. CASE inner
    <3>1. t1 = Rotate(tree, Side, Parent) /\ m = Parent
        BY <2>1
    <3>2. Pivot(tree, Side, Parent, n, tree.child[Side][n], Grand)
        BY <1>1, <1>2, <1>3, <2>1, PivotFound
    <3>3. Rotated(tree, t1, Side, Parent, n, tree.child[Side][n], Grand)
      <4> HIDE DEF t1
      <4> QED BY <1>2, <3>1, <3>2, RotateView
    <3> HIDE DEF t1, m
    <3>4. Shape(t1, held, Turned(tree, sub, Side, Parent, n))
        BY <1>1, <1>2, <1>3, <2>1, <3>3, RotateKeepsShape
    <3>5. Turned(tree, sub, Side, Parent, n) \in [Keys -> SUBSET Keys]
        BY <3>4 DEF Shape
    <3>6. Grand # Null
        BY <1>3, PointerFacts
    <3>7. /\ t1 \in Trees /\ t1.color = tree.color /\ t1.root = tree.root
          /\ t1.parent[Parent] = n /\ t1.child[Side][Grand] = n
        BY <1>3, <3>3, <3>6 DEF Rotated
    <3> QED BY <1>3, <3>1, <3>4, <3>5, <3>7
  <2>2. CASE ~inner
    <3>1. t1 = tree /\ m = n /\ p = Parent
        BY <1>3, <2>2
    <3> HIDE DEF t1, m, p
    <3> QED BY <1>1, <1>2, <1>3, <3>1
  <2> QED BY <2>1, <2>2
<1>6. tc = Swapped(t1, p, Grand) /\ g = t1.parent[Grand] /\ mid = t1.child[d][p]
    OBVIOUS
<1> HIDE DEF inner, t1, m, p, tc, d, g, mid
<1>7. PICK s1 \in [Keys -> SUBSET Keys] : Shape(t1, held, s1)
    BY <1>5
<1> DEFINE c == [t1.color EXCEPT ![p] = Black, ![Grand] = Red]
<1>8. /\ c \in [Keys -> {Red, Black}] /\ p # Grand /\ c[p] = Black
      /\ \A y \in Keys \ {p, Grand} : c[y] = tree.color[y]
    BY <1>3, <1>5, TreeFields
<1> HIDE DEF c
<1>9. Painted(t1, tc, c)
    BY <1>5, <1>6, <1>8, PaintView DEF Swapped, c
<1>10. Shape(tc, held, s1) /\ tc \in Trees
    BY <1>5, <1>7, <1>9, PaintKeepsShape DEF Painted
<1>11. tc.child[Other(d)][Grand] = p /\ tc.child[d][p] = mid /\ tc.parent[Grand] = g
    BY <1>4, <1>5, <1>6, <1>9 DEF Painted
<1>12. Pivot(tc, d, Grand, p, mid, g)
  <2>1. Pivot(tc, d, Grand, p, tc.child[d][p], tc.parent[Grand])
      BY <1>3, <1>4, <1>5, <1>10, <1>11, PivotFound
  <2> QED BY <1>11, <2>1
<1>13. Rotated(tc, tree', d, Grand, p, mid, g)
    BY <1>2, <1>10, <1>12, RotateView
<1>14. Shape(tree', held', Turned(tc, s1, d, Grand, p))
    BY <1>2, <1>3, <1>4, <1>5, <1>10, <1>11, <1>13, RotateKeepsShape
<1>15. Turned(tc, s1, d, Grand, p) \in [Keys -> SUBSET Keys]
    BY <1>14 DEF Shape
<1>16. tree' \in Trees /\ tree'.color = c /\ tree'.root = IF g = Null THEN p ELSE t1.root
    BY <1>9, <1>13 DEF Rotated, Painted
<1>17. tree'.color[tree'.root] = Black
  <2>1. CASE g = Null
      BY <1>8, <1>16, <2>1
  <2>2. CASE g # Null
    <3>1. t1.root # Grand
        BY <1>3, <1>5, <1>6, <1>7, <2>2, ParentFacts
    <3> QED BY <1>3, <1>5, <1>8, <1>16, <2>2, <3>1
  <2> QED BY <2>1, <2>2
<1>18. LinkInv'
    BY <1>2, <1>3, <1>5, <1>14, <1>15, <1>16, <1>17 DEF LinkInv, Pointers
<1>19. ASSUME tree.parent[Grand] = Null PROVE tree'.parent[p] = Null
  <2>1. t1.root = Grand
      BY <1>1, <1>2, <1>3, <1>5, <1>19, ParentFacts
  <2>2. g = Null
      BY <1>3, <1>5, <1>6, <1>7, <2>1, ParentFacts
  <2> QED BY <1>3, <1>5, <1>8, <1>13, <2>2 DEF Rotated
<1>20. tree'.color = [tree.color EXCEPT ![p] = Black, ![Grand] = Red]
    BY <1>5, <1>16 DEF c
<1> QED BY <1>5, <1>18, <1>19, <1>20

\* The steps of an insertion, and what they do to the nodes.
Growth == Descend \/ FoundAlready \/ InsertRoot \/ Recolor \/ RotateUp \/ Inserted

LEMMA GrowthKeepsLinks ==
    ASSUME LinkInv, Growth \/ \E k \in Keys : Insert(k), peak' \in Nat
    PROVE  LinkInv'
BY InsertKeepsLinks, DescendKeepsLinks, FoundKeepsLinks, InsertRootKeepsLinks, RecolorKeepsLinks,
   RotateUpKeepsLinks, InsertedKeepsLinks DEF Growth

LEMMA GrowthKeepsNodes ==
    ASSUME Growth \/ \E k \in Keys : Insert(k)
    PROVE  held' = held \/ (pc = "search" /\ held' = held \union {n})
BY DEF Growth, Insert, Descend, FoundAlready, InsertRoot, Recolor, RotateUp, Inserted

(***************************************************************************)
(* A pop.  First x, which has one child at most, leaves its place.         *)
(***************************************************************************)

\* r is t with x replaced by its only child c, if any, on x's side.
Spliced(t, r, x, c) ==
    /\ r \in Trees /\ r.color = t.color
    /\ r.root = IF t.parent[x] = Null THEN c ELSE t.root
    /\ \A y \in Keys : r.parent[y] = IF y = c THEN t.parent[x] ELSE t.parent[y]
    /\ \A e \in Dirs, y \in Keys :
         r.child[e][y] = IF y = t.parent[x] /\ t.child[e][y] = x THEN c ELSE t.child[e][y]

\* r is t with all fields of k cleared.
Cleared(t, r, k) ==
    /\ r \in Trees
    /\ r.root = t.root
    /\ r.color[k] = Red /\ \A y \in Keys \ {k} : r.color[y] = t.color[y]
    /\ \A y \in Keys : r.parent[y] = IF y = k THEN Null ELSE t.parent[y]
    /\ \A e \in Dirs, y \in Keys : r.child[e][y] = IF y = k THEN Null ELSE t.child[e][y]

LEMMA DetachView ==
    ASSUME NEW t \in Trees, NEW k \in Keys
    PROVE  Cleared(t, Detach(t, k), k)
<1> DEFINE ch == [d \in Dirs |-> [t.child[d] EXCEPT ![k] = Null]]
           pa == [t.parent EXCEPT ![k] = Null]
           co == [t.color EXCEPT ![k] = Red]
<1>1. ch \in [Dirs -> [Keys -> Pointers]] /\ pa \in [Keys -> Pointers] /\ co \in [Keys -> {Red, Black}]
    BY TreeFields DEF Pointers
<1>2. /\ \A y \in Keys : pa[y] = IF y = k THEN Null ELSE t.parent[y]
      /\ \A e \in Dirs, y \in Keys : ch[e][y] = IF y = k THEN Null ELSE t.child[e][y]
      /\ co[k] = Red /\ \A y \in Keys \ {k} : co[y] = t.color[y]
    BY TreeFields
<1>3. Detach(t, k) = [t EXCEPT !.parent = pa, !.color = co, !.child = ch]
  <2>1. ch = [d \in Dirs |-> [[t EXCEPT !.parent = pa, !.color = co].child[d] EXCEPT ![k] = Null]]
      BY DEF Trees
  <2> QED BY <2>1 DEF Detach, Trees
<1> HIDE DEF ch, pa, co
<1>4. Detach(t, k) = [root |-> t.root, color |-> co, parent |-> pa, child |-> ch]
    BY <1>3 DEF Trees
<1> QED BY <1>1, <1>2, <1>4, TreeFields DEF Cleared, Trees

LEMMA SpliceView ==
    ASSUME NEW t \in Trees, NEW S, NEW sub, Shape(t, S, sub), NEW x \in S,
           OwnSide(t, x), \E d \in Dirs : t.child[d][x] = Null
    PROVE  Spliced(t, Splice(t, x), x, t.child[OnlySide(t, x)][x])
<1> DEFINE s == OnlySide(t, x)
           c == t.child[s][x]
           p == t.parent[x]
           t1 == SetParent(t, c, p)
           r == Splice(t, x)
<1>1. s \in Dirs /\ x \in Keys /\ c \in Pointers /\ p \in Pointers /\ Other(s) \in Dirs
    BY TreeFields, Directions DEF OnlySide, Dirs, Shape
<1>2. ParentSet(t, t1, c, p)
    BY <1>1, SetParentView
<1>3. t1 \in Trees /\ t1.root = t.root /\ t1.color = t.color /\ t1.child = t.child
      /\ \A y \in Keys : t1.parent[y] = IF y = c THEN p ELSE t.parent[y]
    BY <1>2 DEF ParentSet
<1>4. r = IF c = Null \/ p = Null THEN Relink(t1, p, x, c) ELSE SetChild(t1, s, p, c)
    BY DEF Splice, SetChild
<1>5. p # Null => \A e \in Dirs : t.child[e][p] = x <=> e = (IF t.child["left"][p] = x THEN "left" ELSE "right")
  <2> SUFFICES ASSUME p # Null PROVE \A e \in Dirs : t.child[e][p] = x <=> e = (IF t.child["left"][p] = x THEN "left" ELSE "right")
      OBVIOUS
  <2>1. \E d \in Dirs : t.child[d][p] = x /\ t.child[Other(d)][p] # x
      BY ParentFacts
  <2> QED BY <2>1, Directions DEF Dirs, Other
<1>6. CASE c = Null \/ p = Null
  <2>1. r = Relink(t1, p, x, c)
      BY <1>4, <1>6
  <2> HIDE DEF r, t1
  <2>2. Relinked(t1, r, p, x, c)
      BY <1>1, <1>3, <2>1, RelinkView
  <2>3. p # Null => t1.child["left"][p] = t.child["left"][p]
      BY <1>3
  <2>4. \A e \in Dirs, y \in Keys :
           r.child[e][y] = IF y = p /\ t.child[e][y] = x THEN c ELSE t.child[e][y]
    <3> TAKE e \in Dirs, y \in Keys
    <3>1. r.child[e][y] = IF y = p /\ e = (IF t.child["left"][p] = x THEN "left" ELSE "right")
                          THEN c ELSE t.child[e][y]
        BY <1>3, <2>2, <2>3 DEF Relinked
    <3>2. y # Null
        BY PointerFacts
    <3> QED BY <1>5, <3>1, <3>2
  <2> QED BY <1>3, <2>2, <2>4 DEF Relinked, Spliced, r
<1>7. CASE c # Null /\ p # Null
  <2>1. r = SetChild(t1, s, p, c) /\ p \in Keys
      BY <1>1, <1>4, <1>7 DEF Pointers
  <2> HIDE DEF r, t1
  <2>2. ChildSet(t1, r, s, p, c)
      BY <1>1, <1>3, <2>1, SetChildView
  <2>3. t.child[s][p] = x
      BY <1>1, <1>7 DEF OwnSide
  <2>4. \A e \in Dirs : t.child[e][p] = x <=> e = s
      BY <1>1, <1>5, <1>7, <2>3
  <2>5. \A e \in Dirs, y \in Keys :
           r.child[e][y] = IF y = p /\ t.child[e][y] = x THEN c ELSE t.child[e][y]
    <3> TAKE e \in Dirs, y \in Keys
    <3>1. r.child[e][y] = IF e = s /\ y = p THEN c ELSE t.child[e][y]
        BY <1>3, <2>2 DEF ChildSet
    <3> QED BY <2>4, <3>1
  <2> QED BY <1>3, <1>7, <2>2, <2>5 DEF ChildSet, Spliced, r
<1> QED BY <1>6, <1>7

Without(sub, x) == [y \in Keys |-> sub[y] \ {x}]

LEMMA SpliceKeepsShape ==
    ASSUME NEW t \in Trees, NEW S, NEW sub, Shape(t, S, sub), NEW x \in S,
           NEW s \in Dirs, t.child[Other(s)][x] = Null,
           NEW r1, Spliced(t, r1, x, t.child[s][x]),
           NEW r, Cleared(r1, r, x)
    PROVE  Shape(r, S \ {x}, Without(sub, x))
<1> DEFINE c == t.child[s][x]
           p == t.parent[x]
           R == S \ {x}
           s2 == Without(sub, x)
<1>1. /\ S \subseteq Keys /\ x \in Keys /\ x # Null /\ x \in sub[x] /\ sub[x] \subseteq S
      /\ \A y \in S : y # Null /\ y \in sub[y]
    BY ChildFacts, PointerFacts DEF Shape
<1>2. /\ s2 \in [Keys -> SUBSET Keys]
      /\ \A y \in Keys : s2[y] = sub[y] \ {x}
      /\ \A y \in S : s2[y] \subseteq R
    BY <1>1 DEF Without, Shape
<1>3. /\ c # Null => c \in R /\ t.parent[c] = x /\ x \notin sub[c] /\ sub[c] \subseteq S /\ c # p
      /\ \A z \in S : z \in sub[x] <=> z = x \/ Under(sub, z, c)
      /\ \A y \in S : t.parent[y] = x => y = c
  <2>1. \A z \in S : z \in sub[x] <=> z = x \/ Under(sub, z, c)
      BY ChildFacts DEF Under
  <2>2. ASSUME c # Null
        PROVE  c \in R /\ t.parent[c] = x /\ x \notin sub[c] /\ sub[c] \subseteq S
      BY <1>1, <2>2, ChildFacts
  <2>3. ASSUME c # Null, c = p PROVE FALSE
    <3>1. PICK e \in Dirs : t.child[e][c] = x
        BY <2>2, <2>3, <1>1, ParentFacts
    <3> QED BY <1>1, <2>2, <2>3, <3>1, ChildFacts
  <2>4. ASSUME NEW y \in S, t.parent[y] = x PROVE y = c
    <3>1. PICK e \in Dirs : t.child[e][x] = y
        BY <1>1, <2>4, ParentFacts
    <3> QED BY <1>1, <2>4, <3>1, Directions
  <2> QED BY <2>1, <2>2, <2>3, <2>4
<1>4. /\ \A y \in R : r.parent[y] = IF y = c THEN p ELSE t.parent[y]
      /\ \A e \in Dirs, y \in R : r.child[e][y] = IF y = p /\ t.child[e][y] = x THEN c ELSE t.child[e][y]
      /\ r.root = IF p = Null THEN c ELSE t.root
    BY <1>1 DEF Spliced, Cleared
<1>5. p # Null => p \in R /\ p \in S
    BY ParentFacts
<1>6. \A y \in R, e \in Dirs : t.child[e][y] = x => y = p /\ p # Null
    BY <1>1, ChildFacts
<1> HIDE DEF s2, c, p
<1>7. ASSUME NEW y \in R, NEW e \in Dirs, NEW z \in R
      PROVE  Under(s2, z, r.child[e][y]) <=> Under(sub, z, t.child[e][y])
  <2>1. CASE t.child[e][y] = x
    <3>1. r.child[e][y] = c
        BY <1>4, <1>6, <2>1
    <3>2. Under(sub, z, x) <=> Under(sub, z, c)
        BY <1>1, <1>3 DEF Under
    <3>3. Under(s2, z, c) <=> Under(sub, z, c)
        BY <1>1, <1>2, <1>3 DEF Under
    <3> QED BY <2>1, <3>1, <3>2, <3>3
  <2>2. CASE t.child[e][y] # x
    <3>1. r.child[e][y] = t.child[e][y]
        BY <1>4, <2>2
    <3>2. t.child[e][y] # Null => t.child[e][y] \in Keys
        BY ChildFacts
    <3> QED BY <1>2, <3>1, <3>2 DEF Under
  <2> QED BY <2>1, <2>2
<1>8. Spans(r, R, s2)
  <2>1. ASSUME NEW y \in R, NEW z \in R
        PROVE  z \in s2[y] <=> \/ z = y
                               \/ Under(s2, z, r.child["left"][y])
                               \/ Under(s2, z, r.child["right"][y])
    <3>1. z \in s2[y] <=> z \in sub[y]
        BY <1>1, <1>2
    <3>2. "left" \in Dirs /\ "right" \in Dirs
        BY Directions
    <3> QED BY <1>7, <3>1, <3>2 DEF Shape, Spans
  <2> QED BY <2>1 DEF Spans
<1>9. Sorted(r, R, s2)
    BY <1>7 DEF Shape, Sorted
<1>10. Rooted(r, R, s2)
  <2>1. CASE p = Null
    <3>1. t.root = x /\ sub[x] = S
        BY <1>1, <2>1, ParentFacts DEF p, Shape, Rooted
    <3>2. ASSUME c # Null PROVE s2[c] = R /\ c \in R /\ r.parent[c] = Null
      <4>1. \A z \in S : z # x => z \in sub[c]
          BY <1>3, <3>1 DEF Under
      <4>2. c \in R /\ c \in Keys /\ sub[c] \subseteq R
          BY <1>1, <1>3, <3>2
      <4>3. s2[c] = R
          BY <1>2, <4>1, <4>2
      <4> QED BY <1>4, <2>1, <4>2, <4>3
    <3> QED BY <1>4, <2>1, <3>2 DEF Rooted
  <2>2. CASE p # Null
    <3>1. t.root # Null /\ t.root # x /\ t.root \in S /\ sub[t.root] = S /\ t.parent[t.root] = Null
        BY <1>1, <2>2, ParentFacts DEF p, Shape, Linked, Rooted
    <3>2. t.root # c
        BY <1>1, <1>3, <3>1
    <3>3. s2[t.root] = R
        BY <1>1, <1>2, <3>1
    <3>4. r.root = t.root /\ r.parent[t.root] = Null
        BY <1>4, <2>2, <3>1, <3>2
    <3> QED BY <3>1, <3>3, <3>4 DEF Rooted
  <2> QED BY <2>1, <2>2
<1>11. Linked(r, R)
  <2>1. ASSUME NEW y \in R, NEW e \in Dirs, r.child[e][y] # Null
        PROVE  r.child[e][y] \in R /\ r.parent[r.child[e][y]] = y
    <3>1. CASE t.child[e][y] = x
        BY <1>3, <1>4, <1>6, <2>1, <3>1
    <3>2. CASE t.child[e][y] # x
      <4>1. r.child[e][y] = t.child[e][y]
          BY <1>4, <3>2
      <4>2. t.child[e][y] \in R /\ t.parent[t.child[e][y]] = y
          BY <2>1, <3>2, <4>1, ChildFacts
      <4>3. t.child[e][y] # c
          BY <1>3, <2>1, <4>1, <4>2
      <4> QED BY <1>4, <4>1, <4>2, <4>3
    <3> QED BY <3>1, <3>2
  <2>2. ASSUME NEW y \in R
        PROVE  IF r.parent[y] = Null
               THEN r.root = y
               ELSE r.parent[y] \in R /\ \E e \in Dirs : r.child[e][r.parent[y]] = y
    <3>1. CASE y = c /\ p = Null
        BY <1>4, <3>1
    <3>2. CASE y = c /\ p # Null
      <4>1. PICK e \in Dirs : t.child[e][p] = x
          BY <3>2, ParentFacts DEF p
      <4>2. r.child[e][p] = c
          BY <1>4, <1>5, <3>2, <4>1
      <4> QED BY <1>4, <1>5, <3>2, <4>2
    <3>3. CASE y # c /\ t.parent[y] = Null
      <4>1. t.root = y
          BY <3>3, ParentFacts
      <4>2. p # Null
          BY <4>1, ParentFacts DEF p
      <4> QED BY <1>4, <3>3, <4>1, <4>2
    <3>4. CASE y # c /\ t.parent[y] # Null
      <4> DEFINE q == t.parent[y]
      <4>1. q \in R
          BY <1>3, <3>4, ParentFacts
      <4>2. PICK e \in Dirs : t.child[e][q] = y
          BY <3>4, ParentFacts
      <4>3. r.child[e][q] = y
          BY <1>4, <4>1, <4>2
      <4> QED BY <1>4, <3>4, <4>1, <4>3
    <3> QED BY <3>1, <3>2, <3>3, <3>4
  <2>3. R = {} <=> r.root = Null
    <3>1. CASE p = Null
      <4>1. sub[x] = S
          BY <1>1, <3>1, ParentFacts DEF p, Shape, Rooted
      <4>2. c = Null => R = {}
          BY <1>3, <4>1 DEF Under
      <4> QED BY <1>3, <1>4, <3>1, <4>2
    <3>2. CASE p # Null
      <4>1. t.root # Null
          BY <1>1 DEF Shape, Linked
      <4> QED BY <1>4, <1>5, <3>2, <4>1
    <3> QED BY <3>1, <3>2
  <2> QED BY <2>1, <2>2, <2>3 DEF Linked
<1>12. Unlinked(r, R)
  <2> SUFFICES ASSUME NEW k \in Keys \ R
               PROVE  r.parent[k] = Null /\ \A d \in Dirs : r.child[d][k] = Null
      BY DEF Unlinked
  <2>1. CASE k = x
      BY <1>1, <2>1 DEF Cleared
  <2>2. CASE k # x
    <3>1. t.parent[k] = Null /\ \A d \in Dirs : t.child[d][k] = Null
        BY <2>2 DEF Shape, Unlinked
    <3>2. k # c
        BY <1>3, <2>2, PointerFacts
    <3> QED BY <1>1, <2>2, <3>1, <3>2 DEF Cleared, Spliced, c
  <2> QED BY <2>1, <2>2
<1>13. R \subseteq Keys /\ \A y \in R : s2[y] \subseteq R
    BY <1>1, <1>2
<1>14. Shape(r, R, s2)
  <2> HIDE DEF R
  <2> QED BY <1>2, <1>8, <1>9, <1>10, <1>11, <1>12, <1>13 DEF Shape
<1> QED BY <1>14 DEF s2

(***************************************************************************)
(* Then x, which is in no place any more, takes that of k.                 *)
(***************************************************************************)

\* r is t with x in the place of k.
Replaced(t, r, k, x) ==
    /\ r \in Trees
    /\ r.root = IF t.parent[k] = Null THEN x ELSE t.root
    /\ \A y \in Keys : r.color[y] = IF y = x THEN t.color[k] ELSE t.color[y]
    /\ \A y \in Keys : r.parent[y] = IF \E d \in Dirs : y = t.child[d][k] THEN x
                                     ELSE IF y = x THEN t.parent[k] ELSE t.parent[y]
    /\ \A e \in Dirs, y \in Keys :
         r.child[e][y] = IF y = t.parent[k] /\ t.child[e][y] = k THEN x
                         ELSE IF y = x THEN t.child[e][k] ELSE t.child[e][y]

\* What Replace relies on: k is one child of its parent.
Placed(t, k, x) ==
    /\ t.parent[k] \notin {k, x}
    /\ t.parent[k] # Null => \E d \in Dirs : /\ t.child[d][t.parent[k]] = k
                                             /\ t.child[Other(d)][t.parent[k]] # k
    /\ \A d \in Dirs : t.child[d][k] # x

LEMMA ReplaceView ==
    ASSUME NEW t \in Trees, NEW k \in Keys, NEW x \in Keys, Placed(t, k, x)
    PROVE  Replaced(t, Replace(t, k, x), k, x)
<1> DEFINE ch == [d \in Dirs |-> [t.child[d] EXCEPT ![x] = t.child[d][k]]]
           pa == [t.parent EXCEPT ![x] = t.parent[k]]
           co == [t.color EXCEPT ![x] = t.color[k]]
           p  == t.parent[k]
           a  == [t EXCEPT !.parent = pa, !.color = co, !.child = ch]
           t1 == Relink(a, p, k, x)
           t2 == SetParent(t1, t.child["left"][k], x)
           r  == SetParent(t2, t.child["right"][k], x)
<1>1. ch \in [Dirs -> [Keys -> Pointers]] /\ pa \in [Keys -> Pointers] /\ co \in [Keys -> {Red, Black}]
    BY TreeFields
<1>2. /\ \A y \in Keys : pa[y] = IF y = x THEN p ELSE t.parent[y]
      /\ \A e \in Dirs, y \in Keys : ch[e][y] = IF y = x THEN t.child[e][k] ELSE t.child[e][y]
      /\ \A y \in Keys : co[y] = IF y = x THEN t.color[k] ELSE t.color[y]
    BY TreeFields
<1>3. Replace(t, k, x) = r
  <2>1. ch = [d \in Dirs |-> [[t EXCEPT !.parent = pa, !.color = co].child[d] EXCEPT ![x] = t.child[d][k]]]
      BY DEF Trees
  <2>2. a = [t EXCEPT !.parent[x] = t.parent[k], !.color[x] = t.color[k],
                      !.child = [d \in Dirs |-> [@[d] EXCEPT ![x] = t.child[d][k]]]]
      BY <2>1 DEF Trees
  <2> HIDE DEF a
  <2> QED BY <2>2 DEF Replace
<1>4. a = [root |-> t.root, color |-> co, parent |-> pa, child |-> ch]
  <2>1. a = [t EXCEPT !.parent = pa, !.color = co, !.child = ch]
      OBVIOUS
  <2> HIDE DEF a, ch, pa, co
  <2> QED BY <2>1 DEF Trees
<1> HIDE DEF ch, pa, co
<1>5. a \in Trees /\ a.root = t.root /\ a.color = co /\ a.parent = pa /\ a.child = ch
    BY <1>1, <1>4, TreeFields DEF Trees
<1>6. /\ p \in Pointers /\ x \in Pointers /\ "left" \in Dirs /\ "right" \in Dirs
      /\ t.child["left"][k] \in Pointers /\ t.child["right"][k] \in Pointers
    BY TreeFields, Directions DEF Pointers
<1>7. t1 = Relink(a, p, k, x) /\ t2 = SetParent(t1, t.child["left"][k], x)
      /\ r = SetParent(t2, t.child["right"][k], x)
    OBVIOUS
<1> HIDE DEF a, t1, t2, r
<1>8. Relinked(a, t1, p, k, x)
    BY <1>5, <1>6, <1>7, RelinkView
<1>9. t1 \in Trees
    BY <1>8 DEF Relinked
<1>10. ParentSet(t1, t2, t.child["left"][k], x)
    BY <1>6, <1>7, <1>9, SetParentView
<1>11. t2 \in Trees
    BY <1>10 DEF ParentSet
<1>12. ParentSet(t2, r, t.child["right"][k], x)
    BY <1>6, <1>7, <1>11, SetParentView
<1>13. /\ r \in Trees /\ r.color = co /\ r.child = t1.child
       /\ r.root = IF p = Null THEN x ELSE t.root
    BY <1>5, <1>8, <1>10, <1>12 DEF Relinked, ParentSet
<1>14. \A y \in Keys : r.parent[y] = IF \E d \in Dirs : y = t.child[d][k] THEN x
                                     ELSE IF y = x THEN p ELSE t.parent[y]
  <2> TAKE y \in Keys
  <2>1. r.parent[y] = IF y = t.child["right"][k] THEN x ELSE t2.parent[y]
      BY <1>12 DEF ParentSet
  <2>2. t2.parent[y] = IF y = t.child["left"][k] THEN x ELSE t1.parent[y]
      BY <1>10 DEF ParentSet
  <2>3. t1.parent[y] = IF y = x THEN p ELSE t.parent[y]
      BY <1>2, <1>5, <1>8 DEF Relinked
  <2> QED BY <2>1, <2>2, <2>3 DEF Dirs
<1>15. p # Null => \A e \in Dirs : t.child[e][p] = k
                     <=> e = (IF a.child["left"][p] = k THEN "left" ELSE "right")
  <2> SUFFICES ASSUME p # Null
               PROVE  \A e \in Dirs : t.child[e][p] = k
                        <=> e = (IF a.child["left"][p] = k THEN "left" ELSE "right")
      OBVIOUS
  <2>1. a.child["left"][p] = t.child["left"][p]
      BY <1>2, <1>5, <1>6 DEF Placed, Pointers
  <2>2. \E d \in Dirs : t.child[d][p] = k /\ t.child[Other(d)][p] # k
      BY DEF Placed
  <2> QED BY <2>1, <2>2 DEF Dirs, Other
<1>16. \A e \in Dirs, y \in Keys :
         r.child[e][y] = IF y = p /\ t.child[e][y] = k THEN x
                         ELSE IF y = x THEN t.child[e][k] ELSE t.child[e][y]
  <2> TAKE e \in Dirs, y \in Keys
  <2>1. t1.child[e][y] = IF y = p /\ e = (IF a.child["left"][p] = k THEN "left" ELSE "right")
                         THEN x ELSE a.child[e][y]
      BY <1>8 DEF Relinked
  <2>2. a.child[e][y] = IF y = x THEN t.child[e][k] ELSE t.child[e][y]
      BY <1>2, <1>5
  <2>3. y # Null
      BY PointerFacts
  <2> QED BY <1>13, <1>15, <2>1, <2>2, <2>3
<1>17. Replaced(t, r, k, x)
    BY <1>2, <1>13, <1>14, <1>16 DEF Replaced
<1> QED BY <1>3, <1>17

\* x instead of k.
As(z, k, x) == IF z = k THEN x ELSE z

Renamed(sub, k, x) ==
    [y \in Keys |-> {z \in Keys : z # k /\ As(z, x, k) \in sub[As(y, x, k)]}]

LEMMA ReplaceKeepsShape ==
    ASSUME NEW t \in Trees, NEW u \in Trees, NEW R, NEW sub, Shape(u, R, sub),
           NEW k \in R, NEW x \in Keys \ R, Cleared(t, u, x),
           \A z \in R \ {k}, d \in Dirs : Before(d, z, k) <=> Before(d, z, x),
           NEW r1, Replaced(t, r1, k, x), NEW r, Cleared(r1, r, k)
    PROVE  Shape(r, (R \ {k}) \union {x}, Renamed(sub, k, x))
<1> DEFINE Q == (R \ {k}) \union {x}
           s2 == Renamed(sub, k, x)
           Old(y) == As(y, x, k)
           Now(z) == As(z, k, x)
<1>1. /\ R \subseteq Keys /\ Q \subseteq Keys /\ k \in Keys /\ x \in Keys /\ k # x /\ k # Null /\ x # Null
      /\ \A y \in R : y # Null /\ y # x
    BY PointerFacts DEF Shape
<1>2. /\ \A y \in Q : Old(y) \in R /\ Now(Old(y)) = y /\ y # k
      /\ \A z \in R : Now(z) \in Q /\ Old(Now(z)) = z
      /\ Now(Null) = Null
    BY <1>1 DEF As
<1>3. /\ s2 \in [Keys -> SUBSET Keys]
      /\ \A y \in Keys, z \in Keys : z \in s2[y] <=> z # k /\ Old(z) \in sub[Old(y)]
    BY DEF Renamed
<1>4. \A y \in R, d \in Dirs : u.child[d][y] # Null => u.child[d][y] \in R /\ u.child[d][y] # y
    BY ChildFacts
<1>5. \A y \in Q, d \in Dirs : r.child[d][y] = Now(u.child[d][Old(y)])
  <2> TAKE y \in Q, d \in Dirs
  <2>1. /\ y \in Keys /\ y # k
        /\ r.child[d][y] = IF y = t.parent[k] /\ t.child[d][y] = k THEN x
                           ELSE IF y = x THEN t.child[d][k] ELSE t.child[d][y]
      BY <1>1 DEF Replaced, Cleared
  <2>2. \A z \in R : u.child[d][z] = t.child[d][z] /\ u.parent[z] = t.parent[z]
      BY <1>1 DEF Cleared
  <2>3. x # t.parent[k]
      BY <1>1, <2>2, ParentFacts
  <2>4. CASE y = x
      BY <1>1, <1>4, <2>1, <2>2, <2>3, <2>4 DEF As
  <2>5. CASE y # x
    <3>1. y \in R /\ (u.child[d][y] = k => u.parent[k] = y)
        BY <1>1, <2>5, ChildFacts
    <3> QED BY <1>1, <2>1, <2>2, <2>5, <3>1 DEF As
  <2> QED BY <2>4, <2>5
<1>6. \A y \in Q : r.parent[y] = Now(u.parent[Old(y)])
  <2> TAKE y \in Q
  <2>1. /\ y \in Keys /\ y # k
        /\ r.parent[y] = IF \E d \in Dirs : y = t.child[d][k] THEN x
                         ELSE IF y = x THEN t.parent[k] ELSE t.parent[y]
      BY <1>1 DEF Replaced, Cleared
  <2>2. \A z \in R : u.parent[z] = t.parent[z] /\ \A d \in Dirs : u.child[d][z] = t.child[d][z]
      BY <1>1 DEF Cleared
  <2>3. CASE y = x
    <3>1. \A d \in Dirs : t.child[d][k] # x
        BY <1>1, <1>4, <2>2
    <3>2. u.parent[k] # k
        BY <1>1, ParentFacts
    <3> QED BY <1>1, <2>1, <2>2, <2>3, <3>1, <3>2 DEF As
  <2>4. CASE y # x
    <3>1. y \in R
        BY <2>4
    <3>2. u.parent[y] = k <=> \E d \in Dirs : u.child[d][k] = y
        BY <1>1, <3>1, ParentFacts, ChildFacts
    <3> QED BY <1>1, <2>1, <2>2, <2>4, <3>1, <3>2 DEF As
  <2> QED BY <2>3, <2>4
<1>7. r.root = Now(u.root)
  <2>1. r.root = IF t.parent[k] = Null THEN x ELSE t.root
      BY DEF Replaced, Cleared
  <2>2. u.root = t.root /\ u.parent[k] = t.parent[k]
      BY <1>1 DEF Cleared
  <2> QED BY <2>1, <2>2, ParentFacts DEF As
<1>8. ASSUME NEW y \in Q, NEW e \in Dirs, NEW z \in Q
      PROVE  Under(s2, z, r.child[e][y]) <=> Under(sub, Old(z), u.child[e][Old(y)])
  <2> DEFINE b == u.child[e][Old(y)]
  <2>1. r.child[e][y] = Now(b) /\ Old(y) \in R
      BY <1>2, <1>5
  <2>2. b # Null => b \in R /\ Now(b) \in Q /\ Old(Now(b)) = b /\ Now(b) # Null /\ Now(b) \in Keys
      BY <1>1, <1>2, <1>4, <2>1, PointerFacts
  <2>3. z \in Keys /\ z # k
      BY <1>1, <1>2
  <2> HIDE DEF b, Q, Old, Now
  <2> QED BY <1>2, <1>3, <2>1, <2>2, <2>3 DEF Under, b
<1> HIDE DEF s2, Old, Now
<1>9. \A y \in Q : s2[y] \subseteq Q
  <2> SUFFICES ASSUME NEW y \in Q, NEW z \in s2[y] PROVE z \in Q
      OBVIOUS
  <2>1. z \in Keys /\ z # k /\ Old(z) \in R
      BY <1>1, <1>2, <1>3 DEF Shape
  <2> QED BY <1>1, <2>1 DEF Old, As
<1>10. Spans(r, Q, s2)
  <2>1. ASSUME NEW y \in Q, NEW z \in Q
        PROVE  z \in s2[y] <=> \/ z = y
                               \/ Under(s2, z, r.child["left"][y])
                               \/ Under(s2, z, r.child["right"][y])
    <3>1. z \in s2[y] <=> Old(z) \in sub[Old(y)]
        BY <1>1, <1>2, <1>3
    <3>2. "left" \in Dirs /\ "right" \in Dirs /\ (Old(z) = Old(y) <=> z = y)
        BY <1>2, Directions
    <3>3. Old(z) \in R /\ Old(y) \in R
        BY <1>2
    <3> QED BY <1>8, <3>1, <3>2, <3>3 DEF Shape, Spans
  <2> QED BY <2>1 DEF Spans
<1>11. Sorted(r, Q, s2)
  <2> SUFFICES ASSUME NEW y \in Q, NEW e \in Dirs, NEW z \in Q, Under(s2, z, r.child[e][y])
               PROVE  Before(e, z, y)
      BY DEF Sorted
  <2>1. Old(z) \in R /\ Old(y) \in R /\ Before(e, Old(z), Old(y))
      BY <1>2, <1>8 DEF Shape, Sorted
  <2>2. Old(z) # Old(y)
      BY <1>1, <2>1, BeforeOrder
  <2>3. CASE z # x /\ y # x
      BY <2>1, <2>3 DEF Old, As
  <2>4. CASE y = x
    <3>1. z # x /\ Old(z) = z /\ Old(y) = k /\ z \in R \ {k}
        BY <2>2, <2>4 DEF Old, As
    <3> QED BY <2>1, <2>4, <3>1
  <2>5. CASE z = x
    <3>1. y # x /\ Old(z) = k /\ Old(y) = y /\ y \in R \ {k} /\ Other(e) \in Dirs
        BY <2>2, <2>5, Directions DEF Old, As
    <3>2. Before(Other(e), y, k)
        BY <1>1, <2>1, <3>1, BeforeOrder
    <3>3. Before(Other(e), y, x)
        BY <3>1, <3>2
    <3> QED BY <1>1, <2>5, <3>1, <3>3, BeforeOrder
  <2> QED BY <2>3, <2>4, <2>5
<1>12. Rooted(r, Q, s2)
  <2> SUFFICES ASSUME r.root # Null
               PROVE  r.root \in Q /\ s2[r.root] = Q /\ r.parent[r.root] = Null
      BY DEF Rooted
  <2>1. u.root # Null /\ u.root \in R /\ sub[u.root] = R /\ u.parent[u.root] = Null
      BY <1>1, <1>7 DEF Shape, Linked, Rooted
  <2>2. r.root \in Q /\ Old(r.root) = u.root
      BY <1>2, <1>7, <2>1
  <2>3. \A z \in Q : z \in s2[r.root]
      BY <1>1, <1>2, <1>3, <2>1, <2>2
  <2>4. s2[r.root] = Q
      BY <1>9, <2>2, <2>3
  <2> QED BY <1>2, <1>6, <2>1, <2>2, <2>4
<1>13. Linked(r, Q)
  <2>1. ASSUME NEW y \in Q, NEW e \in Dirs, r.child[e][y] # Null
        PROVE  r.child[e][y] \in Q /\ r.parent[r.child[e][y]] = y
    <3> DEFINE b == u.child[e][Old(y)]
    <3>1. Old(y) \in R /\ r.child[e][y] = Now(b) /\ b # Null
        BY <1>2, <1>5, <2>1
    <3>2. b \in R /\ u.parent[b] = Old(y)
        BY <3>1, ChildFacts
    <3>3. Now(b) \in Q /\ Old(Now(b)) = b
        BY <1>2, <3>2
    <3>4. r.parent[Now(b)] = Now(u.parent[b])
        BY <1>6, <3>3
    <3> QED BY <1>2, <3>1, <3>2, <3>3, <3>4
  <2>2. ASSUME NEW y \in Q
        PROVE  IF r.parent[y] = Null
               THEN r.root = y
               ELSE r.parent[y] \in Q /\ \E e \in Dirs : r.child[e][r.parent[y]] = y
    <3> DEFINE p == u.parent[Old(y)]
    <3>1. Old(y) \in R /\ r.parent[y] = Now(p) /\ Now(Old(y)) = y
        BY <1>2, <1>6
    <3>2. CASE p = Null
      <4>1. u.root = Old(y)
          BY <3>1, <3>2, ParentFacts
      <4> QED BY <1>2, <1>7, <3>1, <3>2, <4>1
    <3>3. CASE p # Null
      <4>1. p \in R /\ p \in Keys
          BY <3>1, <3>3, ParentFacts
      <4>2. PICK e \in Dirs : u.child[e][p] = Old(y)
          BY <3>1, <3>3, ParentFacts
      <4>3. Now(p) \in Q /\ Old(Now(p)) = p /\ Now(p) # Null
          BY <1>1, <1>2, <4>1, PointerFacts
      <4>4. r.child[e][Now(p)] = y
          BY <1>5, <3>1, <4>2, <4>3
      <4> QED BY <3>1, <4>3, <4>4
    <3> QED BY <3>2, <3>3
  <2>3. r.root # Null /\ Q # {}
    <3>1. u.root # Null /\ u.root \in R
        BY DEF Shape, Linked, Rooted
    <3>2. Now(u.root) \in Q
        BY <1>2, <3>1
    <3> QED BY <1>1, <1>7, <3>2, PointerFacts
  <2> QED BY <2>1, <2>2, <2>3 DEF Linked
<1>14. Unlinked(r, Q)
  <2> SUFFICES ASSUME NEW y \in Keys \ Q
               PROVE  r.parent[y] = Null /\ \A d \in Dirs : r.child[d][y] = Null
      BY DEF Unlinked
  <2>1. CASE y = k
      BY <2>1 DEF Cleared
  <2>2. CASE y # k
    <3>1. y \notin R /\ y # x
        BY <2>2
    <3>2. u.parent[y] = Null /\ \A d \in Dirs : u.child[d][y] = Null
        BY <3>1 DEF Shape, Unlinked
    <3>3. t.parent[y] = Null /\ \A d \in Dirs : t.child[d][y] = Null
        BY <3>1, <3>2 DEF Cleared
    <3>4. \A d \in Dirs : y # t.child[d][k]
      <4>1. \A d \in Dirs : u.child[d][k] = t.child[d][k]
          BY <1>1 DEF Cleared
      <4> QED BY <1>1, <1>4, <3>1, <4>1, PointerFacts
    <3> QED BY <1>1, <2>2, <3>1, <3>3, <3>4 DEF Cleared, Replaced
  <2> QED BY <2>1, <2>2
<1>15. Shape(r, Q, s2)
  <2> HIDE DEF Q
  <2> QED BY <1>1, <1>3, <1>9, <1>10, <1>11, <1>12, <1>13, <1>14 DEF Shape
<1> QED BY <1>15 DEF s2

(***************************************************************************)
(* The whole pop.                                                          *)
(***************************************************************************)

\* The node that leaves has one child at most, on OnlySide; when it is not k
\* it comes just after k, so that it can take its place.
LEMMA LeavingFacts ==
    ASSUME NEW t \in Trees, NEW S, NEW sub, Shape(t, S, sub), NEW k \in S,
           NEW x, x = Leaving(t, k)
    PROVE  /\ x \in S /\ OnlySide(t, x) \in Dirs
           /\ t.child[Other(OnlySide(t, x))][x] = Null
           /\ x # k => /\ k < x /\ x \in sub[k] /\ t.child["left"][x] = Null
                       /\ \A z \in S \ {k, x}, d \in Dirs : Before(d, z, k) <=> Before(d, z, x)
<1>1. /\ S \subseteq Keys /\ k \in Keys /\ "left" \in Dirs /\ "right" \in Dirs
      /\ Other("left") = "right" /\ Other("right") = "left"
    BY DEF Shape, Dirs, Other
<1>2. CASE \A d \in Dirs : t.child[d][k] # Null
  <2> DEFINE c == t.child["right"][k]
  <2>1. /\ c \in S /\ c # Null /\ sub[c] \subseteq sub[k] /\ k \notin sub[c] /\ c \in sub[c]
        /\ sub[k] \subseteq S
      BY <1>1, <1>2, ChildFacts
  <2>2. x = Neighbour(t, "right", k) /\ x = Extreme(t, "left", c)
      BY <1>1, <1>2 DEF Leaving, Neighbour
  <2>3. Foremost(sub, "left", c, x)
      BY <1>1, <2>1, <2>2, ExtremeFound
  <2>4. x \in sub[c] /\ x \in sub[k] /\ x \in S /\ x \in Keys /\ x # k
      BY <1>1, <2>1, <2>3, ChildFacts DEF Foremost
  <2>5. Before("right", x, k)
      BY <1>1, <2>1, <2>4 DEF Shape, Sorted, Under
  <2>6. k < x
      BY <2>5 DEF Before
  <2>7. t.child["left"][x] = Null
    <3> DEFINE b == t.child["left"][x]
    <3> SUFFICES ASSUME b # Null PROVE FALSE
        OBVIOUS
    <3>1. b \in S /\ b \in Keys /\ b # x /\ b \in sub[x] /\ b \in sub[b]
        BY <1>1, <2>4, ChildFacts
    <3>2. b \in sub[c]
        BY <2>1, <2>4, <3>1, BelowFacts
    <3>3. Before("left", x, b)
        BY <2>3, <3>1, <3>2 DEF Foremost
    <3>4. Before("left", b, x)
        BY <1>1, <2>4, <3>1 DEF Shape, Sorted, Under
    <3> QED BY <1>1, <2>4, <3>1, <3>3, <3>4, BeforeOrder
  <2>8. ASSUME NEW z \in S \ {k, x}, NEW d \in Dirs
        PROVE  Before(d, z, k) <=> Before(d, z, x)
    <3> DEFINE U == {y \in S : Before("right", y, k)}
    <3>1. FirstOf("right", U, x)
        BY <1>1, <2>2, NeighbourFound
    <3>2. x \in U
        BY <2>4, <2>5
    <3>3. z \in U => Before("left", x, z)
        BY <1>1, <3>1, <3>2 DEF FirstOf
    <3>4. k < z => x < z
        BY <3>3 DEF Before
    <3>5. k \in Int /\ x \in Int /\ z \in Int
        BY <1>1, <2>4, PointerFacts
    <3> QED BY <2>6, <3>4, <3>5 DEF Before
  <2>9. OnlySide(t, x) = "right"
      BY <2>7 DEF OnlySide
  <2> QED BY <1>1, <2>4, <2>6, <2>7, <2>8, <2>9
<1>3. CASE \E d \in Dirs : t.child[d][k] = Null
  <2>1. x = k
      BY <1>3 DEF Leaving
  <2> QED BY <1>1, <1>3, <2>1 DEF OnlySide, Dirs
<1> QED BY <1>2, <1>3

\* On its own side, the leaving node leaves the rest of the tree in place.
LEMMA PopKeepsShape ==
    ASSUME NEW t \in Trees, NEW S, NEW sub, Shape(t, S, sub), NEW k \in S,
           OwnSide(t, Leaving(t, k))
    PROVE  /\ Popped(t, k) \in Trees
           /\ \E s2 \in [Keys -> SUBSET Keys] : Shape(Popped(t, k), S \ {k}, s2)
<1> DEFINE x == Leaving(t, k)
           s == OnlySide(t, x)
           t1 == Splice(t, x)
           u == Detach(t1, x)
<1>1. /\ x \in S /\ s \in Dirs /\ t.child[Other(s)][x] = Null /\ Other(s) \in Dirs
      /\ x \in Keys /\ k \in Keys /\ S \subseteq Keys
    BY LeavingFacts, Directions DEF Shape
<1>2. x # k => \A z \in S \ {k, x}, d \in Dirs : Before(d, z, k) <=> Before(d, z, x)
    BY LeavingFacts
<1>3. Popped(t, k) = Detach(IF x = k THEN t1 ELSE Replace(t1, k, x), k)
    BY DEF Popped
<1>4. OwnSide(t, x)
    OBVIOUS
<1> HIDE DEF x
<1>5. Spliced(t, t1, x, t.child[s][x])
    BY <1>1, <1>4, SpliceView
<1>6. t1 \in Trees
    BY <1>5 DEF Spliced
<1> HIDE DEF t1
<1>7. Cleared(t1, u, x)
    BY <1>1, <1>6, DetachView
<1>8. Shape(u, S \ {x}, Without(sub, x)) /\ Without(sub, x) \in [Keys -> SUBSET Keys] /\ u \in Trees
  <2> HIDE DEF s, u
  <2>1. Shape(u, S \ {x}, Without(sub, x))
      BY <1>1, <1>5, <1>7, SpliceKeepsShape
  <2> QED BY <1>7, <2>1 DEF Shape, Cleared
<1>9. CASE x = k
    BY <1>3, <1>8, <1>9
<1>10. CASE x # k
  <2> DEFINE R == S \ {x}
             r1 == Replace(t1, k, x)
             r == Detach(r1, k)
  <2>1. k \in R /\ x \in Keys \ R /\ x # Null /\ k # Null
      BY <1>1, <1>10, PointerFacts
  <2>2. \A y \in Keys, d \in Dirs : y # x => u.parent[y] = t1.parent[y] /\ u.child[d][y] = t1.child[d][y]
      BY <1>7 DEF Cleared
  <2>3. Placed(t1, k, x)
    <3> HIDE DEF u
    <3>1. u.parent[k] # Null =>
            /\ u.parent[k] \in R /\ u.parent[k] # k
            /\ \E d \in Dirs : u.child[d][u.parent[k]] = k /\ u.child[Other(d)][u.parent[k]] # k
        BY <1>8, <2>1, ParentFacts
    <3>2. t1.parent[k] = u.parent[k]
        BY <1>1, <1>10, <2>2
    <3>3. \A d \in Dirs : t1.child[d][k] # x
        BY <1>1, <1>8, <1>10, <2>1, <2>2, ChildFacts
    <3>4. u.parent[k] # Null =>
            \E d \in Dirs : t1.child[d][u.parent[k]] = k /\ t1.child[Other(d)][u.parent[k]] # k
        BY <1>1, <2>2, <3>1, Directions
    <3>5. u.parent[k] \notin {k, x}
        BY <2>1, <3>1
    <3> QED BY <3>2, <3>3, <3>4, <3>5 DEF Placed
  <2>4. Replaced(t1, r1, k, x)
      BY <1>1, <1>6, <2>3, ReplaceView
  <2>5. r1 \in Trees
      BY <2>4 DEF Replaced
  <2> HIDE DEF r1, u
  <2>6. Cleared(r1, r, k)
      BY <1>1, <2>5, DetachView
  <2>7. \A z \in R \ {k}, d \in Dirs : Before(d, z, k) <=> Before(d, z, x)
      BY <1>2, <1>10
  <2> HIDE DEF R, r
  <2>8. Shape(r, (R \ {k}) \union {x}, Renamed(Without(sub, x), k, x))
      BY <1>6, <1>7, <1>8, <2>1, <2>4, <2>6, <2>7, ReplaceKeepsShape DEF R
  <2>9. (R \ {k}) \union {x} = S \ {k}
      BY <1>1, <1>10 DEF R
  <2>10. Popped(t, k) = r
      BY <1>3, <1>10 DEF r, r1
  <2>11. Renamed(Without(sub, x), k, x) \in [Keys -> SUBSET Keys] /\ r \in Trees
      BY <2>6 DEF Renamed, Cleared
  <2> QED BY <2>8, <2>9, <2>10, <2>11
<1> QED BY <1>9, <1>10

\* On the wrong side, the child hides the sibling of the leaving node, and the
\* old link to that node stays.
LEMMA PopMisplaces ==
    ASSUME NEW t \in Trees, NEW S, NEW sub, Shape(t, S, sub), NEW k \in S,
           ~OwnSide(t, Leaving(t, k))
    PROVE  Popped(t, k) \in Trees /\ ~Linked(Popped(t, k), S \ {k})
<1> DEFINE x == Leaving(t, k)
           s == OnlySide(t, x)
           c == t.child[s][x]
           p == t.parent[x]
           t0 == SetParent(t, c, p)
           t1 == Splice(t, x)
<1>1. /\ x \in S /\ s \in Dirs /\ t.child[Other(s)][x] = Null /\ Other(s) \in Dirs /\ Other(s) # s
      /\ x \in Keys /\ k \in Keys /\ S \subseteq Keys /\ x # Null /\ k # Null
    BY LeavingFacts, Directions, PointerFacts DEF Shape
<1>2. x # k => k < x /\ x \in sub[k] /\ t.child["left"][x] = Null
    BY LeavingFacts
<1>3. Popped(t, k) = Detach(IF x = k THEN t1 ELSE Replace(t1, k, x), k)
    BY DEF Popped
<1>4. ~OwnSide(t, x)
    OBVIOUS
<1> HIDE DEF x
<1>5. p # Null /\ c # Null /\ t.child[s][p] # x
  <2>1. p # Null /\ t.child[s][p] # x /\ ~\A d \in Dirs : t.child[d][x] = Null
      BY <1>4 DEF OwnSide
  <2> QED BY <1>1, <2>1, Directions
<1>6. /\ p \in S /\ p \in Keys /\ p # x /\ t.child[Other(s)][p] = x
      /\ \A d \in Dirs, y \in S : t.child[d][y] = x => y = p
  <2>1. \E d \in Dirs : t.child[d][p] = x
      BY <1>1, <1>5, ParentFacts
  <2>2. t.child[Other(s)][p] = x
      BY <1>1, <1>5, <2>1, Directions
  <2> HIDE DEF p
  <2> QED BY <1>1, <1>5, <2>2, ParentFacts DEF p
<1>7. c \in S /\ c \in Keys /\ c # x /\ c \in sub[x] /\ t.parent[c] = x
    BY <1>1, <1>5, ChildFacts
<1>8. t0.child = t.child /\ t0 \in Trees /\ \A y \in Keys : t0.parent[y] = IF y = c THEN p ELSE t.parent[y]
  <2>1. ParentSet(t, t0, c, p)
    <3> HIDE DEF c, p
    <3> QED BY <1>6, <1>7, SetParentView DEF Pointers
  <2> QED BY <2>1 DEF ParentSet
<1>9. t1 = SetChild(t0, s, p, c)
    BY <1>5 DEF Splice, SetChild
<1> HIDE DEF c, p, t0, t1, s
<1>10. /\ t1 \in Trees /\ t1.parent = t0.parent
       /\ \A e \in Dirs, y \in Keys : t1.child[e][y] = IF e = s /\ y = p THEN c ELSE t.child[e][y]
  <2>1. ChildSet(t0, t1, s, p, c)
      BY <1>1, <1>6, <1>7, <1>8, <1>9, SetChildView DEF Pointers
  <2> QED BY <1>8, <2>1 DEF ChildSet
<1>11. t1.child[Other(s)][p] = x
    BY <1>1, <1>6, <1>10
<1>12. CASE x = k
  <2> DEFINE r == Detach(t1, k)
  <2>1. Cleared(t1, r, k)
      BY <1>1, <1>10, DetachView
  <2>2. Popped(t, k) = r
      BY <1>3, <1>12
  <2> HIDE DEF r
  <2>3. r.child[Other(s)][p] = x /\ p \in S \ {k}
      BY <1>1, <1>6, <1>11, <1>12, <2>1 DEF Cleared
  <2>4. ~Linked(r, S \ {k})
      BY <1>1, <1>12, <2>3 DEF Linked
  <2> QED BY <2>1, <2>2, <2>4 DEF Cleared
<1>13. CASE x # k
  <2> DEFINE q == t.parent[k]
             r1 == Replace(t1, k, x)
             r == Detach(r1, k)
  <2>1. p # k
    <3> SUFFICES ASSUME p = k PROVE FALSE
        OBVIOUS
    <3>1. x \in sub[x] /\ s = "right" /\ Other(s) = "left"
        BY <1>1, <1>2, <1>13, ChildFacts DEF s, OnlySide, Other
    <3>2. Before("left", x, k)
        BY <1>1, <1>6, <3>1 DEF Shape, Sorted, Under
    <3>3. Before("left", k, x)
        BY <1>2, <1>13 DEF Before
    <3> QED BY <1>1, <3>1, <3>2, <3>3, BeforeOrder
  <2>2. p \in sub[k]
      BY <1>1, <1>2, <1>13, BelowFacts DEF p
  <2>3. q # Null => q \in S /\ q # k /\ q \notin sub[k]
            /\ \E d \in Dirs : t.child[d][q] = k /\ t.child[Other(d)][q] # k
    <3> SUFFICES ASSUME q # Null
                 PROVE  q \in S /\ q # k /\ q \notin sub[k]
                        /\ \E d \in Dirs : t.child[d][q] = k /\ t.child[Other(d)][q] # k
        OBVIOUS
    <3>1. q \in S /\ q # k
        BY ParentFacts
    <3>2. PICK d \in Dirs : t.child[d][q] = k /\ t.child[Other(d)][q] # k
        BY ParentFacts
    <3>3. q \notin sub[k]
      <4> HIDE DEF q
      <4> QED BY <1>1, <3>1, <3>2, ChildFacts
    <3> QED BY <3>1, <3>2, <3>3
  <2>4. q # p /\ q # x /\ q # k
    <3>1. p # Null /\ k \in S
        BY <1>5
    <3> QED BY <1>1, <1>2, <1>13, <2>2, <2>3, <3>1
  <2>5. c # k
    <3>1. t.parent[c] = x
        BY <1>7
    <3> QED BY <2>4, <3>1
  <2>6. t1.parent[k] = q
      BY <1>1, <1>8, <1>10, <2>5
  <2>7. \A d \in Dirs, y \in Keys : y # p => t1.child[d][y] = t.child[d][y]
      BY <1>10
  <2> HIDE DEF q
  <2>8. \A d \in Dirs : t1.child[d][k] # x
      BY <1>1, <1>6, <2>1, <2>7
  <2>9. Placed(t1, k, x)
    <3>1. q # Null => \E d \in Dirs : t1.child[d][q] = k /\ t1.child[Other(d)][q] # k
        BY <1>1, <2>3, <2>4, <2>7, Directions
    <3> QED BY <2>4, <2>6, <2>8, <3>1 DEF Placed
  <2>10. Replaced(t1, r1, k, x)
      BY <1>1, <1>10, <2>9, ReplaceView
  <2>11. Popped(t, k) = r
      BY <1>3, <1>13
  <2> HIDE DEF r1
  <2>12. r1 \in Trees /\ r1.child[Other(s)][p] = x /\ r1.parent[x] = q
      BY <1>1, <1>6, <1>11, <2>4, <2>6, <2>8, <2>10 DEF Replaced
  <2>13. Cleared(r1, r, k)
      BY <1>1, <2>12, DetachView
  <2> HIDE DEF r
  <2>14. r.child[Other(s)][p] = x /\ r.parent[x] = q /\ p \in S \ {k}
      BY <1>1, <1>6, <1>13, <2>1, <2>12, <2>13 DEF Cleared
  <2>15. ~Linked(r, S \ {k})
      BY <1>1, <2>4, <2>14 DEF Linked
  <2> QED BY <2>11, <2>13, <2>15 DEF Cleared
<1> QED BY <1>12, <1>13

(***************************************************************************)
(* Insertions and pops: until a pop misplaces a child, LinkInv.            *)
(***************************************************************************)
Lost ==
    /\ pc = "idle" /\ ~Intact
    /\ tree \in Trees /\ held \subseteq Keys /\ peak \in Nat /\ n \in Pointers /\ cur \in Pointers

LEMMA PopSplits ==
    ASSUME LinkInv, NEW k \in Keys, Pop(k), peak' \in Nat
    PROVE  IF OwnSide(tree, Leaving(tree, k)) THEN LinkInv' ELSE Lost'
<1>1. PICK sub \in [Keys -> SUBSET Keys] : Shape(tree, held, sub)
    BY DEF LinkInv
<1>2. /\ k \in held /\ pc = "idle" /\ tree \in Trees /\ held \subseteq Keys
      /\ tree' = Popped(tree, k) /\ held' = held \ {k}
      /\ pc' = pc /\ n' = n /\ cur' = cur /\ n \in Pointers /\ cur \in Pointers
    BY <1>1 DEF Pop, LinkInv, Shape
<1>3. CASE OwnSide(tree, Leaving(tree, k))
  <2>1. tree' \in Trees /\ \E s2 \in [Keys -> SUBSET Keys] : Shape(tree', held', s2)
      BY <1>1, <1>2, <1>3, PopKeepsShape
  <2> QED BY <1>2, <1>3, <2>1 DEF LinkInv
<1>4. CASE ~OwnSide(tree, Leaving(tree, k))
  <2>1. tree' \in Trees /\ ~Linked(tree', held')
      BY <1>1, <1>2, <1>4, PopMisplaces
  <2> QED BY <1>2, <1>4, <2>1 DEF Lost, Intact
<1> QED BY <1>3, <1>4

LEMMA PeakType ==
    ASSUME LinkInv \/ Lost, TreeNext
    PROVE  held \subseteq Keys /\ held' \subseteq Keys /\ peak' \in Nat
<1>1. held \subseteq Keys /\ (pc = "search" => n \in Keys) /\ peak \in Nat
    BY DEF LinkInv, Lost, Shape, Searching
<1>2. held' \subseteq held \/ (held' = held \union {n} /\ pc = "search")
    BY DEF TreeNext, Insert, Pop, Descend, FoundAlready, InsertRoot, Recolor, RotateUp, Inserted
<1>3. held' \subseteq Keys
    BY <1>1, <1>2
<1>4. Cardinality(held') \in Nat
    BY <1>3, SizeFacts
<1> QED BY <1>1, <1>3, <1>4 DEF TreeNext

LEMMA StepKeepsLinks ==
    ASSUME LinkInv \/ Lost, [TreeNext]_allVars
    PROVE  LinkInv' \/ Lost'
<1>1. CASE UNCHANGED allVars
  <2>1. tree' = tree /\ held' = held /\ pc' = pc /\ n' = n /\ cur' = cur /\ peak' = peak
      BY <1>1 DEF allVars, treeVars
  <2>2. LinkInv => LinkInv'
      BY <2>1 DEF LinkInv
  <2>3. Lost => Lost'
      BY <2>1 DEF Lost, Intact
  <2> QED BY <2>2, <2>3
<1>2. CASE TreeNext /\ LinkInv
  <2>1. peak' \in Nat
      BY <1>2, PeakType
  <2>2. CASE \E k \in Keys : Pop(k)
      BY <1>2, <2>1, <2>2, PopSplits
  <2>3. CASE Growth \/ \E k \in Keys : Insert(k)
      BY <1>2, <2>1, <2>3, GrowthKeepsLinks
  <2> QED BY <1>2, <2>2, <2>3 DEF TreeNext, Growth
<1>3. CASE TreeNext /\ Lost
    \* where the model stops
    BY <1>3 DEF TreeNext, Lost, Descend, FoundAlready, InsertRoot, Recolor, RotateUp, Inserted
<1> QED BY <1>1, <1>2, <1>3

LEMMA InitLinks == TreeInit => LinkInv
<1> SUFFICES ASSUME TreeInit PROVE LinkInv
    OBVIOUS
<1>1. TreeInv
    BY InitTree
<1> QED BY <1>1 DEF TreeInv, LinkInv, TreeInit

\* For any number of keys, and whatever the colours.
THEOREM LinkInvariant == TreeSpec => [](LinkInv \/ Lost)
<1>1. TreeInit => LinkInv \/ Lost
    BY InitLinks
<1>2. (LinkInv \/ Lost) /\ [TreeNext]_allVars => (LinkInv \/ Lost)'
    BY StepKeepsLinks
<1> QED BY <1>1, <1>2, PTL DEF TreeSpec

\* The types of the tree and of the insertion under way; among them that the
\* nodes a turn of the fix-up looks at exist, whatever was popped before.
THEOREM TreeTypeCorrect == TreeSpec => []TreeTypeOK
<1>1. LinkInv \/ Lost => TreeTypeOK
    BY DEF LinkInv, Lost, TreeTypeOK, Trees, Shape
<1> QED BY <1>1, LinkInvariant, PTL

\* A pop loses nodes exactly when it links a child on the wrong side, in every
\* tree that insertions and pops in any order can build.
THEOREM PopsLoseByMisplacing == TreeSpec => LosesOnlyByMisplacing
<1> DEFINE Right == \A k \in held : k \notin held' =>
                      (Intact' <=> OwnSide(tree, Leaving(tree, k)))
<1>1. (LinkInv \/ Lost) /\ [TreeNext]_allVars => [Right]_treeVars
  <2> SUFFICES ASSUME LinkInv \/ Lost, TreeNext, NEW k \in held, k \notin held'
               PROVE  Intact' <=> OwnSide(tree, Leaving(tree, k))
      BY DEF allVars
  <2>1. Pop(k) /\ k \in Keys /\ Intact
    <3>1. held \subseteq Keys
        BY PeakType
    <3>2. \A j \in Keys : Pop(j) => held' = held \ {j}
        BY DEF Pop
    <3>3. Intact /\ \E j \in Keys : Pop(j)
        BY DEF TreeNext, Insert, Descend, FoundAlready, InsertRoot, Recolor, RotateUp, Inserted
    <3> QED BY <3>1, <3>2, <3>3
  <2>2. LinkInv
      BY <2>1 DEF Lost
  <2>3. peak' \in Nat
      BY PeakType
  <2>4. IF OwnSide(tree, Leaving(tree, k)) THEN LinkInv' ELSE Lost'
      BY <2>1, <2>2, <2>3, PopSplits
  <2>5. LinkInv' => Intact'
      BY LinksIntact, PTL
  <2> QED BY <2>4, <2>5 DEF Lost
<1>2. LosesOnlyByMisplacing <=> [][Right]_treeVars
    BY PTL DEF LosesOnlyByMisplacing
<1> HIDE DEF Right
<1> QED BY <1>1, <1>2, LinkInvariant, PTL DEF TreeSpec

(***************************************************************************)
(* The server's trees.                                                     *)
(***************************************************************************)
RedBelow(t, S) == \A y \in S : t.parent[y] # Null => t.color[y] = Red

\* Then the root is the only node with children, and every leaf's height is 0.
LEMMA RedBelowFacts ==
    ASSUME NEW t \in Trees, NEW S, NEW sub, Shape(t, S, sub), RedBelow(t, S), Calm(t, S, Null)
    PROVE  /\ \A y \in S, d \in Dirs : t.parent[y] # Null => t.child[d][y] = Null
           /\ \A y \in S, d \in Dirs : t.child[d][y] # Null => t.color[y] = Black
           /\ \E h \in [Keys -> Nat] : Balanced(t, S, h)
<1>1. S \subseteq Keys /\ \A y \in S : y # Null /\ y \in S \ {Null}
    BY PointerFacts DEF Shape
<1>2. ASSUME NEW y \in S, NEW d \in Dirs, t.child[d][y] # Null
      PROVE  t.color[y] = Black /\ t.parent[y] = Null
  <2>1. /\ t.child[d][y] \in S /\ t.parent[t.child[d][y]] = y
      BY <1>2, ChildFacts
  <2>2. t.color[t.child[d][y]] = Red /\ Black \in {t.color[t.child[d][y]], t.color[y]}
      BY <1>1, <2>1 DEF RedBelow, Calm
  <2>3. t.color[y] = Black
      BY <2>2 DEF Red, Black
  <2> QED BY <2>3 DEF RedBelow, Red, Black
<1> DEFINE h == [y \in Keys |-> IF y = t.root THEN Ink(t, y) ELSE 0]
<1>3. h \in [Keys -> Nat] /\ \A y \in Keys : h[y] = IF y = t.root THEN Ink(t, y) ELSE 0
    BY DEF Ink
<1>4. ASSUME NEW y \in S, NEW d \in Dirs
      PROVE  h[y] = Height(h, t.child[d][y]) + Ink(t, y)
  <2>1. Height(h, t.child[d][y]) = 0
    <3>1. CASE t.child[d][y] = Null
        BY <3>1 DEF Height
    <3>2. CASE t.child[d][y] # Null
      <4>1. /\ t.child[d][y] \in S /\ t.child[d][y] \in Keys /\ t.parent[t.child[d][y]] # Null
          BY <1>1, <3>2, ChildFacts
      <4>2. t.child[d][y] # t.root
          BY <4>1, ParentFacts
      <4> HIDE DEF h
      <4> QED BY <1>3, <3>2, <4>1, <4>2 DEF Height
    <3> QED BY <3>1, <3>2
  <2>2. y # t.root => Ink(t, y) = 0
    <3>1. y # t.root => t.color[y] = Red
        BY ParentFacts DEF RedBelow
    <3> QED BY <3>1 DEF Ink, Red, Black
  <2> HIDE DEF h
  <2>3. Ink(t, y) \in Nat
      BY DEF Ink
  <2> QED BY <1>1, <1>3, <2>1, <2>2, <2>3
<1> HIDE DEF h
<1>5. Balanced(t, S, h)
    BY <1>3, <1>4 DEF Balanced
<1> QED BY <1>2, <1>3, <1>5

\* A pop keeps the root the only node with children.
LEMMA PopKeepsRedBelow ==
    ASSUME NEW t \in Trees, NEW S, NEW sub, Shape(t, S, sub), RedBelow(t, S), Calm(t, S, Null),
           NEW k \in S
    PROVE  /\ OwnSide(t, Leaving(t, k))
           /\ RedBelow(Popped(t, k), S \ {k}) /\ Calm(Popped(t, k), S \ {k}, Null)
<1> DEFINE x == Leaving(t, k)
           s == OnlySide(t, x)
           c == t.child[s][x]
           t1 == Splice(t, x)
           r1 == Replace(t1, k, x)
           r == Popped(t, k)
<1>1. /\ x \in S /\ s \in Dirs /\ t.child[Other(s)][x] = Null /\ Other(s) \in Dirs
      /\ x \in Keys /\ k \in Keys /\ S \subseteq Keys /\ x # Null /\ k # Null
    BY LeavingFacts, Directions, PointerFacts DEF Shape
<1>2. /\ \A y \in S, d \in Dirs : t.parent[y] # Null => t.child[d][y] = Null
      /\ \A y \in S, d \in Dirs : t.child[d][y] # Null => t.color[y] = Black
    BY RedBelowFacts
<1>3. OwnSide(t, x)
  <2> HIDE DEF x
  <2> QED BY <1>1, <1>2 DEF OwnSide
<1>4. r = Detach(IF x = k THEN t1 ELSE r1, k)
    BY DEF Popped
<1>5. x # k => x \in sub[k] /\ \A d \in Dirs : t.child[d][k] # Null
    BY LeavingFacts DEF Leaving
<1>6. OwnSide(t, Leaving(t, k))
    BY <1>3
<1> HIDE DEF x
<1>7. Spliced(t, t1, x, c)
    BY <1>1, <1>3, SpliceView
<1>8. c # Null => c \in S /\ t.parent[c] = x /\ t.parent[x] = Null
    BY <1>1, <1>2, ChildFacts
<1> HIDE DEF s, c, t1, r1, r
<1>9. CASE x = k
  <2>1. Cleared(t1, r, k)
      BY <1>1, <1>4, <1>7, <1>9, DetachView DEF Spliced
  <2>2. \A y \in S \ {k} : r.color[y] = t.color[y]
      BY <1>1, <1>7, <2>1 DEF Spliced, Cleared
  <2>3. \A y \in S \ {k} : r.parent[y] # Null => r.parent[y] = t.parent[y] /\ t.parent[y] # k
    <3> SUFFICES ASSUME NEW y \in S \ {k}, r.parent[y] # Null
                 PROVE  r.parent[y] = t.parent[y] /\ t.parent[y] # k
        OBVIOUS
    <3>1. r.parent[y] = IF y = c THEN t.parent[x] ELSE t.parent[y]
        BY <1>1, <1>7, <2>1 DEF Spliced, Cleared
    <3>2. y # c /\ r.parent[y] = t.parent[y]
        BY <1>1, <1>8, <3>1, PointerFacts
    <3>3. t.parent[y] = k => \E d \in Dirs : t.child[d][k] = y
        BY <1>1, ParentFacts
    <3>4. t.parent[y] # k
      <4> SUFFICES ASSUME t.parent[y] = k PROVE FALSE
          OBVIOUS
      <4>1. PICK d \in Dirs : t.child[d][k] = y
          BY <3>3
      <4>2. t.child[s][k] = y
          BY <1>1, <1>9, <4>1, PointerFacts, Directions
      <4> QED BY <1>9, <3>2, <4>2 DEF c
    <3> QED BY <3>2, <3>4
  <2>4. RedBelow(r, S \ {k})
      BY <2>2, <2>3 DEF RedBelow
  <2>5. Calm(r, S \ {k}, Null)
    <3> SUFFICES ASSUME NEW y \in S \ {k}, r.parent[y] # Null, y # Null
                 PROVE  Black \in {r.color[y], r.color[r.parent[y]]}
        BY DEF Calm
    <3>1. r.parent[y] = t.parent[y] /\ t.parent[y] \in S \ {k}
        BY <2>3, ParentFacts
    <3> QED BY <2>2, <3>1 DEF Calm
  <2> QED BY <1>6, <2>4, <2>5 DEF r
<1>10. CASE x # k
  <2>1. /\ t.parent[k] = Null /\ t.color[k] = Black /\ t.root = k
        /\ \A y \in S \ {k} : /\ t.parent[y] # Null /\ t.color[y] = Red
                              /\ t.parent[y] = k /\ \E d \in Dirs : t.child[d][k] = y
    <3>1. t.parent[k] = Null /\ t.color[k] = Black
        BY <1>2, <1>5, <1>10, Directions
    <3>2. t.root = k
        BY <3>1, ParentFacts
    <3>3. ASSUME NEW y \in S \ {k}
          PROVE  /\ t.parent[y] # Null /\ t.color[y] = Red
                 /\ t.parent[y] = k /\ \E d \in Dirs : t.child[d][k] = y
      <4>1. t.parent[y] # Null
          BY <3>2, ParentFacts
      <4>2. t.parent[y] \in S /\ \E d \in Dirs : t.child[d][t.parent[y]] = y
          BY <4>1, ParentFacts
      <4>3. t.parent[t.parent[y]] = Null
          BY <1>1, <1>2, <4>2, PointerFacts
      <4>4. t.parent[y] = k
          BY <3>2, <4>2, <4>3, ParentFacts
      <4> QED BY <4>1, <4>2, <4>4 DEF RedBelow
    <3> QED BY <3>1, <3>2, <3>3
  <2>2. c = Null /\ t.parent[x] = k
      BY <1>1, <1>8, <1>10, <2>1
  <2>3. /\ t1 \in Trees /\ t1.color = t.color
        /\ \A y \in Keys : t1.parent[y] = t.parent[y]
        /\ \A e \in Dirs, y \in Keys :
             t1.child[e][y] = IF y = k /\ t.child[e][y] = x THEN Null ELSE t.child[e][y]
      BY <1>1, <1>7, <2>2, PointerFacts DEF Spliced
  <2>4. Placed(t1, k, x)
      BY <1>1, <2>1, <2>3 DEF Placed
  <2>5. Replaced(t1, r1, k, x)
      BY <1>1, <2>3, <2>4, ReplaceView DEF r1
  <2>6. Cleared(r1, r, k)
      BY <1>1, <1>4, <1>10, <2>5, DetachView DEF Replaced
  <2>7. r.parent[x] = Null /\ r.color[x] = Black
    <3>1. \A d \in Dirs : t1.child[d][k] # x
        BY <1>1, <2>3
    <3> QED BY <1>1, <1>10, <2>1, <2>3, <2>5, <2>6, <3>1 DEF Replaced, Cleared
  <2>8. ASSUME NEW y \in S \ {k, x} PROVE r.parent[y] = x /\ r.color[y] = Red
    <3>1. \E d \in Dirs : y = t1.child[d][k]
        BY <1>1, <2>1, <2>3
    <3>2. y \in Keys
        BY <1>1
    <3> QED BY <1>1, <2>1, <2>3, <2>5, <2>6, <3>1, <3>2 DEF Replaced, Cleared
  <2>9. RedBelow(r, S \ {k})
      BY <2>7, <2>8 DEF RedBelow
  <2>10. Calm(r, S \ {k}, Null)
      BY <2>7, <2>8 DEF Calm
  <2> QED BY <1>6, <2>9, <2>10 DEF r
<1> QED BY <1>9, <1>10

\* Four nodes are more than a server's tree has had.
LEMMA FourNodes ==
    ASSUME NEW S \in SUBSET Keys, NEW a \in S, NEW b \in S \ {a}, NEW c \in S \ {a, b},
           NEW e \in S \ {a, b, c}
    PROVE  Cardinality(S) >= 4
<1>1. /\ {a} \in SUBSET {a, b} /\ {a, b} \in SUBSET {a, b, c} /\ {a, b, c} \in SUBSET S
      /\ {a} \in SUBSET Keys /\ {a, b} \in SUBSET Keys /\ {a, b, c} \in SUBSET Keys
    OBVIOUS
<1>2. Cardinality({a}) \in Nat /\ Cardinality({a}) # 0
    BY <1>1, SizeFacts
<1>3. Cardinality({a}) < Cardinality({a, b}) /\ Cardinality({a, b}) \in Nat
    BY <1>1, SizeFacts
<1>4. Cardinality({a, b}) < Cardinality({a, b, c}) /\ Cardinality({a, b, c}) \in Nat
    BY <1>1, SizeFacts
<1>5. Cardinality({a, b, c}) < Cardinality(S) /\ Cardinality(S) \in Nat
    BY <1>1, SizeFacts
<1> QED BY <1>2, <1>3, <1>4, <1>5

\* A tree that has never had more than ServerNodes nodes.
SmallInv == TreeInv /\ RedBelow(tree, held)

LEMMA SmallLinks == SmallInv => LinkInv
BY TreeLinks DEF SmallInv

LEMMA InsertionKeepsSmall ==
    ASSUME SmallInv, Growth \/ \E k \in Keys : Insert(k), peak' \in Nat,
           Cardinality(held) <= ServerNodes
    PROVE  SmallInv'
<1>1. PICK sub \in [Keys -> SUBSET Keys] : Shape(tree, held, sub)
    BY DEF SmallInv, TreeInv
<1>2. TreeInv /\ RedBelow(tree, held) /\ LinkInv /\ tree \in Trees /\ held \subseteq Keys
    BY <1>1, SmallLinks DEF SmallInv, TreeInv, Shape
<1>3. PICK step \in {"insert", "descend", "found", "root", "recolor", "rotate", "done"} :
         \/ step = "insert" /\ \E k \in Keys : Insert(k)
         \/ step = "descend" /\ Descend
         \/ step = "found" /\ FoundAlready
         \/ step = "root" /\ InsertRoot
         \/ step = "recolor" /\ Recolor
         \/ step = "rotate" /\ RotateUp
         \/ step = "done" /\ Inserted
    BY DEF Growth
<1>4. TreeInv'
    BY <1>2, <1>3, InsertKeeps, DescendKeeps, FoundKeeps, InsertRootKeeps,
       RecolorKeeps, RotateUpKeeps, InsertedKeeps
<1>5. CASE tree' = tree /\ held' = held
    BY <1>2, <1>4, <1>5 DEF SmallInv
<1>6. CASE Descend /\ tree.child[IF n < cur THEN "left" ELSE "right"][cur] = Null
  <2>1. /\ tree'.root = tree.root /\ held' = held \union {n}
        /\ tree'.color = [tree.color EXCEPT ![tree.root] = Black, ![n] = Red]
        /\ tree'.parent = [tree.parent EXCEPT ![n] = cur]
      BY <1>2, <1>6 DEF Descend, Trees
  <2>2. n \in Keys
      BY <1>2, <1>6 DEF TreeInv, Descend, Searching
  <2>3. ASSUME NEW y \in held', tree'.parent[y] # Null PROVE tree'.color[y] = Red
    <3>1. CASE y = n
        BY <1>2, <2>1, <2>2, <3>1, TreeFields
    <3>2. CASE y # n
      <4>1. y \in held /\ tree.parent[y] # Null
          BY <1>2, <2>1, <2>3, <3>2, TreeFields
      <4>2. y # tree.root /\ tree.color[y] = Red
          BY <1>1, <1>2, <4>1, ParentFacts DEF RedBelow
      <4> QED BY <1>2, <2>1, <3>2, <4>1, <4>2, TreeFields
    <3> QED BY <3>1, <3>2
  <2> QED BY <1>4, <2>3 DEF SmallInv, RedBelow
<1>7. CASE InsertRoot
  <2>1. held = {} /\ held' = {n} /\ tree'.parent = [tree.parent EXCEPT ![n] = Null] /\ n \in Keys
      BY <1>1, <1>2, <1>7 DEF InsertRoot, TreeInv, Searching
  <2> QED BY <1>2, <1>4, <2>1, TreeFields DEF SmallInv, RedBelow
<1>8. CASE Recolor
  <2>1. /\ n \in held /\ Parent \in held /\ Grand \in held
        /\ n # Parent /\ Parent # Grand /\ n # Grand
        /\ tree.child[Side][Grand] = Parent /\ tree.child[Other(Side)][Grand] = Uncle /\ Side \in Dirs
        /\ Uncle # Null /\ Uncle \in held /\ tree.parent[Uncle] = Grand /\ tree.parent[n] = Parent
      BY <1>1, <1>2, <1>8, FixLinks DEF Recolor, RedUncle
  <2>2. Uncle # n /\ Uncle # Grand /\ Uncle # Parent
    <3>1. tree.child[Other(Side)][Grand] # tree.child[Side][Grand]
      <4>1. tree.child[Side][Grand] # Null
          BY <1>2, <2>1, PointerFacts
      <4> QED BY <1>1, <1>2, <2>1, <4>1, ChildFacts
    <3>2. tree.child[Other(Side)][Grand] # Grand /\ Other(Side) \in Dirs
        BY <1>1, <1>2, <2>1, Directions, ChildFacts
    <3> QED BY <2>1, <3>1, <3>2
  <2>3. Cardinality(held) >= 4 /\ Cardinality(held) \in Nat
      BY <1>2, <2>1, <2>2, FourNodes, SizeFacts
  <2> QED BY <2>3 DEF ServerNodes
<1>9. CASE RotateUp
  <2>1. pc = "fix" /\ RedParent /\ held' = held
      BY <1>9 DEF RotateUp
  <2>2. /\ Parent \in held /\ Grand \in held /\ n # Parent /\ Parent # Grand /\ n # Grand
        /\ tree.parent[Parent] = Grand /\ Grand # Null /\ Parent \in Keys /\ n \in Keys /\ Grand \in Keys
      BY <1>1, <1>2, <2>1, FixLinks, PointerFacts
  <2>3. tree.color[Parent] = Red
      BY <2>1 DEF RedParent, Parent
  <2>4. tree.color[Grand] = Black
      BY <1>2, <2>1, <2>2, <2>3 DEF TreeInv, Calm, Exempt, Red, Black
  <2>5. tree.parent[Grand] = Null
      BY <1>2, <2>2, <2>4 DEF RedBelow, Red, Black
  <2>6. PICK p \in {n, Parent} : /\ tree'.color = [tree.color EXCEPT ![p] = Black, ![Grand] = Red]
                                 /\ tree'.parent[p] = Null
      BY <1>2, <1>9, <2>5, RotateUpKeepsLinks DEF LinkInv
  <2>7. ASSUME NEW y \in held, tree'.parent[y] # Null PROVE tree'.color[y] = Red
    <3>1. CASE y = Grand
        BY <1>2, <2>2, <2>6, <3>1, TreeFields
    <3>2. CASE y # Grand
      <4>1. tree.root = Grand
          BY <1>1, <1>2, <2>2, <2>5, ParentFacts
      <4>2. tree.parent[y] # Null
          BY <1>1, <1>2, <3>2, <4>1, ParentFacts
      <4>3. tree.color[y] = Red /\ y # p /\ y \in Keys
          BY <1>2, <2>6, <2>7, <4>2 DEF RedBelow
      <4> QED BY <1>2, <2>6, <3>2, <4>3, TreeFields
    <3> QED BY <3>1, <3>2
  <2> QED BY <1>4, <2>1, <2>7 DEF SmallInv, RedBelow
<1>10. CASE Inserted
  <2>1. held' = held /\ tree' = [tree EXCEPT !.color[tree.root] = Black]
      BY <1>10 DEF Inserted
  <2>2. tree'.parent = tree.parent /\ tree'.color = [tree.color EXCEPT ![tree.root] = Black]
      BY <1>2, <2>1 DEF Trees
  <2>3. ASSUME NEW y \in held, tree.parent[y] # Null PROVE tree'.color[y] = Red
    <3>1. y # tree.root /\ tree.color[y] = Red
        BY <1>1, <1>2, <2>3, ParentFacts DEF RedBelow
    <3> QED BY <1>2, <2>2, <3>1, TreeFields
  <2> QED BY <1>4, <2>1, <2>2, <2>3 DEF SmallInv, RedBelow
<1>11. Descend => \/ tree.child[IF n < cur THEN "left" ELSE "right"][cur] = Null
                  \/ tree' = tree /\ held' = held
    BY DEF Descend
<1>12. FoundAlready \/ (\E k \in Keys : Insert(k)) => tree' = tree /\ held' = held
    BY DEF FoundAlready, Insert
<1> QED BY <1>3, <1>5, <1>6, <1>7, <1>8, <1>9, <1>10, <1>11, <1>12

LEMMA PopKeepsSmall ==
    ASSUME SmallInv, NEW k \in Keys, Pop(k), peak' \in Nat
    PROVE  SmallInv'
<1>1. PICK sub \in [Keys -> SUBSET Keys] : Shape(tree, held, sub)
    BY DEF SmallInv, TreeInv
<1>2. /\ k \in held /\ pc = "idle" /\ tree \in Trees /\ Calm(tree, held, Null) /\ RedBelow(tree, held)
      /\ tree' = Popped(tree, k) /\ held' = held \ {k} /\ pc' = "idle" /\ n' = n /\ cur' = cur
      /\ n \in Pointers /\ cur \in Pointers
    BY DEF Pop, SmallInv, TreeInv, Exempt
<1>3. /\ OwnSide(tree, Leaving(tree, k))
      /\ RedBelow(tree', held') /\ Calm(tree', held', Null)
    BY <1>1, <1>2, PopKeepsRedBelow
<1>4. PICK s2 \in [Keys -> SUBSET Keys] : Shape(tree', held', s2)
    BY <1>1, <1>2, <1>3, PopKeepsShape
<1>5. tree' \in Trees
    BY <1>1, <1>2, <1>3, PopKeepsShape
<1>6. PICK h \in [Keys -> Nat] : Balanced(tree', held', h)
    BY <1>3, <1>4, <1>5, RedBelowFacts
<1> QED BY <1>2, <1>3, <1>4, <1>5, <1>6 DEF SmallInv, TreeInv, Exempt

PeakInv ==
    /\ LinkInv \/ Lost
    /\ Cardinality(held) <= peak
    /\ peak <= ServerNodes => SmallInv

LEMMA InitPeak == TreeInit => PeakInv
<1> SUFFICES ASSUME TreeInit PROVE PeakInv
    OBVIOUS
<1>1. TreeInv /\ held = {} /\ peak = 0
    BY InitTree DEF TreeInit
<1>2. Cardinality(held) <= peak
    BY <1>1, FS_EmptySet
<1> QED BY <1>1, <1>2, InitLinks DEF PeakInv, SmallInv, RedBelow

LEMMA StepKeepsPeak ==
    ASSUME PeakInv, [TreeNext]_allVars
    PROVE  PeakInv' /\ (TreeNext => peak <= peak')
<1>1. LinkInv' \/ Lost'
    BY StepKeepsLinks DEF PeakInv
<1>2. CASE UNCHANGED allVars
  <2>1. tree' = tree /\ held' = held /\ pc' = pc /\ n' = n /\ cur' = cur /\ peak' = peak
      BY <1>2 DEF allVars, treeVars
  <2>2. SmallInv => SmallInv'
      BY <2>1 DEF SmallInv, TreeInv, Exempt
  <2>3. peak \in Nat
      BY DEF PeakInv, LinkInv, Lost
  <2> QED BY <1>1, <2>1, <2>2, <2>3 DEF PeakInv
<1>3. CASE TreeNext
  <2>1. held \subseteq Keys /\ held' \subseteq Keys /\ peak' \in Nat /\ peak \in Nat
      BY <1>3, PeakType DEF PeakInv, LinkInv, Lost
  <2>2. Cardinality(held) \in Nat /\ Cardinality(held') \in Nat
      BY <2>1, SizeFacts
  <2>3. peak' = IF Cardinality(held') > peak THEN Cardinality(held') ELSE peak
      BY <1>3 DEF TreeNext
  <2>4. Cardinality(held') <= peak' /\ peak <= peak'
      BY <2>1, <2>2, <2>3
  <2>5. ASSUME peak' <= ServerNodes PROVE SmallInv'
    <3>1. SmallInv /\ Cardinality(held) <= ServerNodes
        BY <2>1, <2>2, <2>4, <2>5 DEF PeakInv, ServerNodes
    <3>2. (\E k \in Keys : Pop(k)) \/ Growth \/ \E k \in Keys : Insert(k)
        BY <1>3 DEF TreeNext, Growth
    <3> QED BY <2>1, <3>1, <3>2, PopKeepsSmall, InsertionKeepsSmall
  <2> QED BY <1>1, <2>4, <2>5 DEF PeakInv
<1> QED BY <1>2, <1>3

THEOREM PeakInvariant == TreeSpec => []PeakInv
<1>1. TreeInit => PeakInv
    BY InitPeak
<1>2. PeakInv /\ [TreeNext]_allVars => PeakInv'
    BY StepKeepsPeak
<1> QED BY <1>1, <1>2, PTL DEF TreeSpec

\* What a step does to the set of nodes.
LEMMA StepMovesNodes ==
    ASSUME LinkInv \/ Lost, TreeNext
    PROVE  \/ held' = held
           \/ \E k \in Keys : held' = held \union {k} \/ (k \in held /\ held' = held \ {k})
<1>1. (\E k \in Keys : Pop(k)) \/ Growth \/ \E k \in Keys : Insert(k)
    BY DEF TreeNext, Growth
<1>2. ASSUME NEW k \in Keys, Pop(k) PROVE k \in held /\ held' = held \ {k}
    BY <1>2 DEF Pop
<1>3. pc = "search" => n \in Keys
    BY DEF LinkInv, Lost, Searching
<1> QED BY <1>1, <1>2, <1>3, GrowthKeepsNodes

\* The tree of a server whose descriptors never were more than the listener and
\* two connections: any insertions and pops are those of a set, and every node
\* stays where a search finds it.
THEOREM SmallTreesImplementSet == TreeSpec => SmallTreeImplementsSet
<1> DEFINE Kept == peak' <= ServerNodes =>
                      Intact' /\ (Registry!SetNext \/ UNCHANGED Found(tree))
<1>1. PeakInv /\ PeakInv' /\ [TreeNext]_allVars => [Kept]_treeVars
  <2> SUFFICES ASSUME PeakInv, PeakInv', TreeNext, peak' <= ServerNodes
               PROVE  Intact' /\ (Registry!SetNext \/ Found(tree)' = Found(tree))
      BY DEF allVars
  <2>1. LinkInv /\ LinkInv'
    <3>1. peak <= ServerNodes
        BY StepKeepsPeak DEF PeakInv, LinkInv, Lost, ServerNodes
    <3>2. SmallInv /\ SmallInv'
        BY <3>1 DEF PeakInv
    <3>3. SmallInv => LinkInv
        BY SmallLinks
    <3>4. SmallInv' => LinkInv'
        BY SmallLinks, PTL
    <3> QED BY <3>2, <3>3, <3>4
  <2>2. Intact /\ Intact'
    <3>1. LinkInv' => Intact'
        BY LinksIntact, PTL
    <3> QED BY <2>1, <3>1, LinksIntact
  <2>3. Found(tree) = held /\ Found(tree)' = held'
      BY <2>2 DEF Intact
  <2> QED BY <2>1, <2>2, <2>3, StepMovesNodes DEF Registry!SetNext, Registry!Insert, Registry!Remove
<1>2. SmallTreeImplementsSet <=> [][Kept]_treeVars
    BY PTL DEF SmallTreeImplementsSet
<1> HIDE DEF Kept
<1> QED BY <1>1, <1>2, PeakInvariant, PTL DEF TreeSpec

\* ... and its order and its colours are as after insertions alone.
THEOREM SmallTreesStayOrdered ==
    TreeSpec => [](peak <= ServerNodes => AlwaysIntact /\ ScansInOrder /\ RedBlack)
<1>1. PeakInv => (peak <= ServerNodes => AlwaysIntact /\ ScansInOrder /\ RedBlack)
  <2> SUFFICES ASSUME SmallInv PROVE AlwaysIntact /\ ScansInOrder /\ RedBlack
      BY DEF PeakInv
  <2>1. LinkInv /\ TreeInv
      BY SmallLinks DEF SmallInv
  <2> QED BY <2>1, LinksIntact, ScansHold, ColorsHold DEF AlwaysIntact
<1> QED BY <1>1, PeakInvariant, PTL

(***************************************************************************)
(* Larger trees, for as long as no pop misplaces a child.                  *)
(***************************************************************************)
WellPlaced == \A k \in held : k \notin held' => OwnSide(tree, Leaving(tree, k))

LEMMA StepKeepsPlaces ==
    ASSUME LinkInv, [TreeNext]_allVars, [WellPlaced]_treeVars
    PROVE  LinkInv'
<1>1. CASE UNCHANGED allVars
    BY <1>1 DEF allVars, treeVars, LinkInv
<1>2. CASE TreeNext
  <2>1. peak' \in Nat /\ held \subseteq Keys
      BY <1>2, PeakType
  <2>2. ASSUME NEW k \in Keys, Pop(k) PROVE LinkInv'
    <3>1. k \in held /\ k \notin held' /\ held' # held
        BY <2>2 DEF Pop
    <3>2. OwnSide(tree, Leaving(tree, k))
        BY <3>1 DEF WellPlaced, treeVars
    <3> QED BY <2>1, <2>2, <3>2, PopSplits
  <2>3. CASE Growth \/ \E k \in Keys : Insert(k)
      BY <2>1, <2>3, GrowthKeepsLinks
  <2> QED BY <1>2, <2>2, <2>3 DEF TreeNext, Growth
<1> QED BY <1>1, <1>2

\* As long as every node that leaves has its child on its own side, a tree of
\* any size is intact, is scanned in order and is a set of keys to its users.
THEOREM WellPlacedPops ==
    TreeSpec /\ [][WellPlaced]_treeVars => []AlwaysIntact /\ []ScansInOrder /\ Registry!SetSpec
<1>1. TreeInit => LinkInv
    BY InitLinks
<1>2. LinkInv /\ [TreeNext]_allVars /\ [WellPlaced]_treeVars => LinkInv'
    BY StepKeepsPlaces
<1>3. LinkInv => AlwaysIntact /\ ScansInOrder
    BY LinksIntact, ScansHold DEF AlwaysIntact
<1>4. LinkInv => Found(tree) = held
    BY LinksIntact DEF Intact
<1>5. TreeInit => Registry!SetInit
  <2> SUFFICES ASSUME TreeInit PROVE Found(tree) = {}
      BY DEF Registry!SetInit
  <2> QED BY <1>4, InitLinks DEF TreeInit
<1>6. LinkInv /\ LinkInv' /\ [TreeNext]_allVars => [Registry!SetNext]_(Found(tree))
  <2> SUFFICES ASSUME LinkInv, LinkInv', [TreeNext]_allVars
               PROVE  Registry!SetNext \/ Found(tree)' = Found(tree)
      OBVIOUS
  <2>1. LinkInv' => (Found(tree) = held)'
      BY <1>4, PTL
  <2>2. Found(tree) = held /\ Found(tree)' = held'
      BY <1>4, <2>1
  <2>3. held' = held \/ TreeNext
      BY DEF allVars, treeVars
  <2> QED BY <2>2, <2>3, StepMovesNodes DEF Registry!SetNext, Registry!Insert, Registry!Remove
<1> QED BY <1>1, <1>2, <1>3, <1>5, <1>6, PTL DEF TreeSpec, Registry!SetSpec
=============================================================================
