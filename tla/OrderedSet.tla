----------------------------- MODULE OrderedSet -----------------------------
(***************************************************************************)
(* What the users of kdevelop-rbtree/src/rb_tree.c rely on: a set of keys, *)
(* to which one is added by rbt_after_insert and from which exactly the    *)
(* one given is taken by rbt_pop.                                          *)
(***************************************************************************)
CONSTANT Keys

VARIABLE elems   \* the keys a search of the tree finds

Insert(k) == elems' = elems \union {k}

Remove(k) == k \in elems /\ elems' = elems \ {k}

SetInit == elems = {}

SetNext == \E k \in Keys : Insert(k) \/ Remove(k)

SetSpec == SetInit /\ [][SetNext]_elems
=============================================================================
