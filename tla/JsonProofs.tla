----------------------------- MODULE JsonProofs -----------------------------
(***************************************************************************)
(* Each json value in memory has one owner, in every program and for all   *)
(* texts that it parses.  The addresses of a value are a ghost, sub: what  *)
(* a value's pointers give, and the value itself, without overlap          *)
(* (IsForest).  Its owner is another, slot: the place whose pointer, own,  *)
(* leads to it (Owned).  An operation of json.c is a change of own, so     *)
(* that its lemma says who has what afterwards.  JsonInv adds where the    *)
(* parser is in its text, and what its stack holds.  Of a string that is   *)
(* read beyond the end of its text, the part beyond gets into no value.    *)
(***************************************************************************)
EXTENDS Json, CountingLemmas, FiniteSetTheorems

(***************************************************************************)
(* Recursive functions.                                                    *)
(***************************************************************************)

\* step[f] is f unfolded once.  If an unfolding needs the values of lower rank
\* only, some function is its own unfolding.
Grounded(D, V, rank, step) ==
    \A f, g \in [D -> V], x \in D :
        (\A y \in D : rank[y] < rank[x] => f[y] = g[y]) => step[f][x] = step[g][x]

Unfolds(step, f) == f = step[f]

LEMMA RecursionExists ==
    ASSUME NEW D, NEW V, V # {}, NEW N \in Nat, NEW rank \in [D -> 0..N],
           NEW step \in [[D -> V] -> [D -> V]], Grounded(D, V, rank, step)
    PROVE  \E f \in [D -> V] : Unfolds(step, f)
<1> DEFINE Below(f, n) == \A x \in D : rank[x] < n => f[x] = step[f][x]
           A == {n \in Nat : \E f \in [D -> V] : Below(f, n)}
<1>1. 0 \in A
  <2>1. PICK v : v \in V
      OBVIOUS
  <2>2. [x \in D |-> v] \in [D -> V]
      BY <2>1
  <2>3. Below([x \in D |-> v], 0)
      OBVIOUS
  <2> QED BY <2>2, <2>3
<1>2. ASSUME NEW n \in A PROVE n + 1 \in A
  <2> HIDE DEF Below
  <2>1. n \in Nat
      OBVIOUS
  <2>2. PICK f \in [D -> V] : Below(f, n)
      OBVIOUS
  <2>3. step[f] \in [D -> V]
      OBVIOUS
  <2> DEFINE g == step[f]
  <2>4. Below(g, n + 1)
    <3>1. ASSUME NEW x \in D, rank[x] < n + 1 PROVE g[x] = step[g][x]
      <4>1. \A y \in D : rank[y] < rank[x] => f[y] = g[y]
          BY <2>1, <2>2, <3>1 DEF Below
      <4>2. step[f][x] = step[g][x]
          BY <2>3, <4>1 DEF Grounded
      <4> QED BY <4>2
    <3> QED BY <3>1 DEF Below
  <2> HIDE DEF g
  <2>5. g \in [D -> V]
      BY <2>3 DEF g
  <2> QED BY <2>1, <2>4, <2>5
<1> HIDE DEF A
<1>3. A = Nat
  <2>1. A \in SUBSET Nat
      BY DEF A
  <2> QED BY <1>1, <1>2, <2>1, Counted
<1>4. PICK f \in [D -> V] : Below(f, N + 1)
  <2>1. N + 1 \in A
      BY <1>3
  <2> HIDE DEF Below
  <2> QED BY <2>1 DEF A
<1>5. \A x \in D : f[x] = step[f][x]
    BY <1>4
<1>6. step[f] \in [D -> V]
    OBVIOUS
<1>7. Unfolds(step, f)
    BY <1>5, <1>6 DEF Unfolds
<1> QED BY <1>7

(***************************************************************************)
(* The values on the heap are trees: sub[x] holds the addresses of the     *)
(* value at x.                                                             *)
(***************************************************************************)
Lists == {"object", "array"}

NameOf(h, x)  == IF h[x].type = "object" THEN h[x].name ELSE NULL
ValueOf(h, x) == IF h[x].type \in Lists THEN h[x].value ELSE NULL
NextOf(h, x)  == IF h[x].type \in Lists THEN h[x].next ELSE NULL

Pointers(h) == DOMAIN h \union {NULL}

IsSequence(s) == s \in Seq(ToSet(s))

\* What is stored at x.  Behind the first node of a list there are nodes of the
\* same kind with a value, and what has a value in an object has a name.
IsNode(h, node) ==
    \/ node.type = "string" /\ IsSequence(node.text)
    \/ node.type = "number"
    \/ /\ node \in [type : {"object"}, name : Pointers(h), value : Pointers(h),
                    next : InUse(h) \union {NULL}]
       /\ node.value # NULL => node.name # NULL
    \/ node \in [type : {"array"}, value : Pointers(h), next : InUse(h) \union {NULL}]

Followed(h, x) ==
    NextOf(h, x) # NULL =>
        h[NextOf(h, x)].type = h[x].type /\ h[NextOf(h, x)].value # NULL

IsHeap(h) ==
    /\ InUse(h) \subseteq Memory /\ IsFiniteSet(InUse(h))
    /\ Statics \subseteq DOMAIN h /\ \A x \in Statics : h[x] = StaticHeap[x]
    /\ \A x \in InUse(h) : IsNode(h, h[x]) /\ Followed(h, x)

Part(sub, a) == IF a \in DOMAIN sub THEN sub[a] ELSE {}

\* The value at x is x itself and what its pointers give, which is disjoint.
Holds(h, sub, x) ==
    LET n == Part(sub, NameOf(h, x))
        v == Part(sub, ValueOf(h, x))
        m == Part(sub, NextOf(h, x))
    IN  /\ sub[x] = {x} \union n \union v \union m
        /\ x \notin n \union v \union m
        /\ n \intersect v = {} /\ n \intersect m = {} /\ v \intersect m = {}

IsForest(h, sub) ==
    /\ sub \in [InUse(h) -> SUBSET InUse(h)]
    /\ \A x \in InUse(h) : Holds(h, sub, x)

\* The addresses of h.
LEMMA Addresses ==
    ASSUME NEW h, IsHeap(h)
    PROVE  /\ NULL \notin DOMAIN h /\ Calling \notin DOMAIN h
           /\ DOMAIN h = InUse(h) \union Statics
           /\ InUse(h) \intersect Statics = {}
           /\ InUse(h) \subseteq Nat \ {0} /\ InUse(h) \subseteq Int
           /\ Statics \subseteq Int /\ Pointers(h) \subseteq Int /\ NULL = 0
<1>1. InUse(h) \subseteq Nat \ {0}
    BY ValueAssumption DEF IsHeap
<1>2. Statics \subseteq DOMAIN h
    BY DEF IsHeap
<1>3. DOMAIN h = InUse(h) \union Statics /\ InUse(h) \intersect Statics = {}
    BY <1>2 DEF InUse
<1>4. Statics = {-2, -3, -4} /\ NULL = 0 /\ Calling = -5
    BY DEF Statics, NULL, Calling, TrueV, FalseV, NullV
<1>5. NULL \notin DOMAIN h /\ Calling \notin DOMAIN h
    BY <1>1, <1>3, <1>4
<1>6. Pointers(h) \subseteq Int /\ InUse(h) \subseteq Int /\ Statics \subseteq Int
    BY <1>1, <1>3, <1>4 DEF Pointers
<1> QED BY <1>1, <1>3, <1>4, <1>5, <1>6

LEMMA NodeTypes ==
    ASSUME NEW h, IsHeap(h)
    PROVE  /\ \A x \in InUse(h) : h[x].type \in {"string", "number", "object", "array"}
           /\ \A x \in Statics : h[x].type \in {"true", "false", "null"}
           /\ \A x \in DOMAIN h : h[x].type \in Lists => x \in InUse(h)
<1>1. \A x \in Statics : h[x].type \in {"true", "false", "null"}
  <2>1. \A x \in Statics : h[x] = StaticHeap[x]
      BY DEF IsHeap
  <2>2. \A x \in Statics : StaticHeap[x].type \in {"true", "false", "null"}
      BY DEF StaticHeap, Statics, TrueV, FalseV, NullV
  <2> QED BY <2>1, <2>2
<1>2. \A x \in InUse(h) : h[x].type \in {"string", "number", "object", "array"}
    BY DEF IsHeap, IsNode
<1>3. \A x \in DOMAIN h : h[x].type \in Lists => x \in InUse(h)
    BY <1>1, Addresses DEF Lists
<1> QED BY <1>1, <1>2, <1>3

LEMMA NodePointers ==
    ASSUME NEW h, IsHeap(h), NEW x \in DOMAIN h
    PROVE  /\ NameOf(h, x) \in Pointers(h) /\ ValueOf(h, x) \in Pointers(h)
           /\ NextOf(h, x) \in InUse(h) \union {NULL}
           /\ x \in Statics => NameOf(h, x) = NULL /\ ValueOf(h, x) = NULL /\ NextOf(h, x) = NULL
<1>1. CASE x \in InUse(h)
  <2>1. IsNode(h, h[x])
      BY <1>1 DEF IsHeap
  <2>2. x \notin Statics
      BY <1>1 DEF InUse
  <2> QED BY <2>1, <2>2 DEF IsNode, NameOf, ValueOf, NextOf, Lists, Pointers
<1>2. CASE x \in Statics
    BY <1>2, NodeTypes DEF NameOf, ValueOf, NextOf, Lists, Pointers
<1> QED BY <1>1, <1>2, Addresses

Kids(h, x) == {NameOf(h, x), ValueOf(h, x), NextOf(h, x)}

LEMMA KidsWithin ==
    ASSUME NEW h, NEW sub, IsHeap(h), IsForest(h, sub), NEW x \in InUse(h)
    PROVE  /\ x \in sub[x] /\ sub[x] \subseteq InUse(h) /\ DOMAIN sub = InUse(h)
           /\ Kids(h, x) \subseteq Pointers(h)
           /\ \A c \in Kids(h, x) :
                /\ c \in InUse(h) => sub[c] \subseteq sub[x] /\ x \notin sub[c]
                /\ Part(sub, c) \subseteq sub[x] \ {x}
           /\ \A y \in sub[x] : y # x => \E c \in Kids(h, x) : c \in InUse(h) /\ y \in sub[c]
<1>1. sub \in [InUse(h) -> SUBSET InUse(h)] /\ Holds(h, sub, x) /\ DOMAIN sub = InUse(h)
    BY DEF IsForest
<1>2. x \in DOMAIN h
    BY DEF InUse
<1>3. Kids(h, x) \subseteq Pointers(h)
    BY <1>2, NodePointers DEF Pointers, Kids, InUse
<1> DEFINE n == Part(sub, NameOf(h, x))
           v == Part(sub, ValueOf(h, x))
           m == Part(sub, NextOf(h, x))
<1>4. /\ sub[x] = {x} \union n \union v \union m
      /\ x \notin n \union v \union m
    BY <1>1 DEF Holds
<1>5. \A c \in Kids(h, x) : Part(sub, c) \in {n, v, m}
    BY DEF Kids
<1>6. \A p \in {n, v, m} : \E c \in Kids(h, x) : p = Part(sub, c)
    BY DEF Kids
<1>7. \A c : Part(sub, c) = IF c \in InUse(h) THEN sub[c] ELSE {}
    BY <1>1 DEF Part
<1> HIDE DEF n, v, m
<1>8. \A c \in Kids(h, x) : Part(sub, c) \subseteq sub[x] \ {x}
    BY <1>4, <1>5
<1>9. ASSUME NEW y \in sub[x], y # x PROVE \E c \in Kids(h, x) : c \in InUse(h) /\ y \in sub[c]
  <2>1. PICK p \in {n, v, m} : y \in p
      BY <1>4, <1>9
  <2> QED BY <1>6, <1>7, <2>1
<1> QED BY <1>1, <1>3, <1>4, <1>7, <1>8, <1>9

\* How many addresses the value at x has.
Rank(h, sub) == [x \in Int |-> IF x \in InUse(h) THEN Cardinality(sub[x]) ELSE 0]

LEMMA KidsRank ==
    ASSUME NEW h, NEW sub, IsHeap(h), IsForest(h, sub)
    PROVE  /\ Cardinality(InUse(h)) \in Nat
           /\ Rank(h, sub) \in [Int -> 0..Cardinality(InUse(h))]
           /\ \A x \in InUse(h) : \A c \in Kids(h, x) : Rank(h, sub)[c] < Rank(h, sub)[x]
           /\ InUse(h) \subseteq Int /\ \A x \in InUse(h) : Kids(h, x) \subseteq Int
<1> DEFINE rank == Rank(h, sub)
           N == Cardinality(InUse(h))
<1>1. IsFiniteSet(InUse(h))
    BY DEF IsHeap
<1>2. N \in Nat
    BY <1>1, FS_CardinalityType
<1>3. \A x \in InUse(h) : /\ IsFiniteSet(sub[x]) /\ Cardinality(sub[x]) \in 0..N
                          /\ Cardinality(sub[x]) \in Nat
  <2> TAKE x \in InUse(h)
  <2>1. sub[x] \in SUBSET InUse(h)
      BY KidsWithin
  <2>2. IsFiniteSet(sub[x]) /\ Cardinality(sub[x]) <= N
      BY <1>1, <2>1, FS_Subset
  <2>3. Cardinality(sub[x]) \in Nat
      BY <2>2, FS_CardinalityType
  <2> QED BY <1>2, <2>2, <2>3
<1>4. InUse(h) \subseteq Int
    BY Addresses
<1>5. \A x \in Int : rank[x] = IF x \in InUse(h) THEN Cardinality(sub[x]) ELSE 0
    BY DEF Rank
<1>6. rank \in [Int -> 0..N]
  <2> HIDE DEF N
  <2>1. \A x \in Int : (IF x \in InUse(h) THEN Cardinality(sub[x]) ELSE 0) \in 0..N
      BY <1>2, <1>3
  <2> QED BY <2>1 DEF Rank
<1>7. \A x \in InUse(h) : Kids(h, x) \subseteq Int
  <2> TAKE x \in InUse(h)
  <2>1. Kids(h, x) \subseteq Pointers(h)
      BY KidsWithin
  <2> QED BY <2>1, Addresses
<1>8. ASSUME NEW x \in InUse(h), NEW c \in Kids(h, x) PROVE rank[c] < rank[x]
  <2>1. rank[x] = Cardinality(sub[x]) /\ x \in sub[x] /\ IsFiniteSet(sub[x])
      BY <1>3, <1>4, <1>5, KidsWithin
  <2>2. c \in Int
      BY <1>7
  <2>3. CASE c \in InUse(h)
    <3>1. sub[c] \in SUBSET sub[x] /\ sub[c] # sub[x]
        BY <2>1, <2>3, KidsWithin
    <3>2. Cardinality(sub[c]) <= Cardinality(sub[x]) /\ Cardinality(sub[c]) # Cardinality(sub[x])
        BY <2>1, <3>1, FS_Subset
    <3>3. rank[c] = Cardinality(sub[c])
        BY <1>5, <2>2, <2>3
    <3>4. Cardinality(sub[c]) \in Nat /\ Cardinality(sub[x]) \in Nat
        BY <1>3, <2>3
    <3> QED BY <2>1, <3>2, <3>3, <3>4
  <2>4. CASE c \notin InUse(h)
    <3>1. rank[c] = 0
        BY <1>5, <2>2, <2>4
    <3>2. Cardinality(sub[x]) # 0
        BY <2>1, FS_EmptySet
    <3>3. Cardinality(sub[x]) \in Nat
        BY <1>3
    <3> QED BY <2>1, <3>1, <3>2, <3>3
  <2> QED BY <2>3, <2>4
<1> QED BY <1>2, <1>4, <1>6, <1>7, <1>8

\* What holds of each value whose pointers it holds of, holds of all: otherwise
\* there was a least one of which it does not.
LEMMA HeapInduction ==
    ASSUME NEW h, NEW sub, IsHeap(h), IsForest(h, sub), NEW S,
           \A x \in InUse(h) : Kids(h, x) \intersect InUse(h) \subseteq S => x \in S
    PROVE  InUse(h) \subseteq S
<1> DEFINE B == InUse(h) \ S
           m == [x \in B |-> Rank(h, sub)[x]]
<1> SUFFICES ASSUME B # {} PROVE FALSE
    OBVIOUS
<1>1. /\ Cardinality(InUse(h)) \in Nat
      /\ Rank(h, sub) \in [Int -> 0..Cardinality(InUse(h))]
      /\ InUse(h) \subseteq Int
    BY KidsRank
<1>2. m \in [B -> Nat]
    BY <1>1
<1>3. \A x \in B : m[x] = Rank(h, sub)[x]
    OBVIOUS
<1> HIDE DEF m
<1>4. PICK x \in B : \A y \in B : m[x] <= m[y]
    BY <1>2, LeastMeasure
<1>5. ASSUME NEW c \in Kids(h, x), c \in InUse(h) PROVE c \in S
  <2>1. Rank(h, sub)[c] < Rank(h, sub)[x]
      BY <1>5, KidsRank
  <2> SUFFICES ASSUME c \in B PROVE FALSE
      BY <1>5
  <2>2. m[c] < m[x]
      BY <1>3, <2>1
  <2>3. m[c] \in Nat /\ m[x] \in Nat /\ m[x] <= m[c]
      BY <1>2, <1>4
  <2> QED BY <2>2, <2>3
<1> QED BY <1>5

LEMMA PartsNest ==
    ASSUME NEW h, NEW sub, IsHeap(h), IsForest(h, sub), NEW x \in InUse(h), NEW y \in sub[x]
    PROVE  /\ y \in InUse(h) /\ sub[y] \subseteq sub[x]
           /\ y # x => x \notin sub[y] /\ Rank(h, sub)[y] < Rank(h, sub)[x]
<1> DEFINE S == {z \in InUse(h) : \A w \in sub[z] :
                   w \in InUse(h) /\ sub[w] \subseteq sub[z] /\ (w # z => z \notin sub[w])}
<1>1. ASSUME NEW z \in InUse(h), Kids(h, z) \intersect InUse(h) \subseteq S PROVE z \in S
  <2>1. ASSUME NEW w \in sub[z], w # z
        PROVE  w \in InUse(h) /\ sub[w] \subseteq sub[z] /\ z \notin sub[w]
    <3>1. PICK c \in Kids(h, z) : c \in InUse(h) /\ w \in sub[c]
        BY <2>1, KidsWithin
    <3>2. c \in S
        BY <1>1, <3>1
    <3>3. w \in InUse(h) /\ sub[w] \subseteq sub[c]
        BY <3>1, <3>2
    <3>4. sub[c] \subseteq sub[z] /\ z \notin sub[c]
        BY <3>1, KidsWithin
    <3> QED BY <3>3, <3>4
  <2> QED BY <2>1
<1> HIDE DEF S
<1>2. InUse(h) \subseteq S
    BY <1>1, HeapInduction
<1>3. y \in InUse(h) /\ sub[y] \subseteq sub[x] /\ (y # x => x \notin sub[y])
    BY <1>2 DEF S
<1>4. ASSUME y # x PROVE Rank(h, sub)[y] < Rank(h, sub)[x]
  <2>1. sub[y] \in SUBSET sub[x] /\ x \in sub[x] /\ sub[y] # sub[x]
      BY <1>3, <1>4, KidsWithin
  <2>2. IsFiniteSet(sub[x])
    <3>1. IsFiniteSet(InUse(h)) /\ sub[x] \in SUBSET InUse(h)
        BY KidsWithin DEF IsHeap
    <3> QED BY <3>1, FS_Subset
  <2>3. IsFiniteSet(sub[y]) /\ Cardinality(sub[y]) <= Cardinality(sub[x])
        /\ Cardinality(sub[y]) # Cardinality(sub[x])
      BY <2>1, <2>2, FS_Subset
  <2>4. Cardinality(sub[x]) \in Nat /\ Cardinality(sub[y]) \in Nat
      BY <2>2, <2>3, FS_CardinalityType
  <2>5. x \in Int /\ y \in Int
      BY <1>3, Addresses
  <2>6. Rank(h, sub)[x] = Cardinality(sub[x]) /\ Rank(h, sub)[y] = Cardinality(sub[y])
      BY <1>3, <2>5 DEF Rank
  <2> QED BY <2>3, <2>4, <2>6
<1> QED BY <1>3, <1>4


(***************************************************************************)
(* What json_value_delete frees.                                           *)
(***************************************************************************)

\* A sequence of the addresses in S, each of them once.
Lists1(s, S) ==
    /\ s \in Seq(Int) /\ ToSet(s) = S
    /\ \A i, j \in 1..Len(s) : s[i] = s[j] => i = j

LEMMA ListsJoin ==
    ASSUME NEW s, NEW S, NEW t, NEW T, Lists1(s, S), Lists1(t, T), S \intersect T = {}
    PROVE  Lists1(s \o t, S \union T)
<1> DEFINE a == Len(s)
           b == Len(t)
           r == s \o t
<1>1. s \in Seq(Int) /\ t \in Seq(Int)
    BY DEF Lists1
<1>2. /\ r \in Seq(Int) /\ Len(r) = a + b /\ a \in Nat /\ b \in Nat
      /\ \A i \in 1..a : r[i] = s[i]
      /\ \A i \in 1..b : r[a + i] = t[i]
    BY <1>1, ConcatReads
<1>3. DOMAIN s = 1..a /\ DOMAIN t = 1..b /\ DOMAIN r = 1..Len(r)
    BY <1>1, <1>2
<1>4. \A i \in 1..a : s[i] \in S
    BY <1>3 DEF Lists1, ToSet
<1>5. \A i \in 1..b : t[i] \in T
    BY <1>3 DEF Lists1, ToSet
<1> HIDE DEF r
<1>6. ASSUME NEW i \in 1..(a + b) PROVE i \in 1..a \/ \E k \in 1..b : i = a + k
  <2>1. CASE i > a
    <3>1. i - a \in 1..b /\ i = a + (i - a)
        BY <1>2, <2>1
    <3> QED BY <3>1
  <2> QED BY <1>2, <2>1
<1>7. ASSUME NEW v \in S \union T PROVE v \in ToSet(r)
  <2>1. CASE v \in S
    <3>1. PICK i \in 1..a : v = s[i]
        BY <1>3, <2>1 DEF Lists1, ToSet
    <3>2. i \in 1..(a + b) /\ r[i] = v
        BY <1>2, <3>1
    <3> QED BY <1>2, <1>3, <3>2 DEF ToSet
  <2>2. CASE v \in T
    <3>1. PICK i \in 1..b : v = t[i]
        BY <1>3, <2>2 DEF Lists1, ToSet
    <3>2. a + i \in 1..(a + b) /\ r[a + i] = v
        BY <1>2, <3>1
    <3> QED BY <1>2, <1>3, <3>2 DEF ToSet
  <2> QED BY <2>1, <2>2
<1>8. ASSUME NEW v \in ToSet(r) PROVE v \in S \union T
  <2>1. PICK i \in 1..(a + b) : v = r[i]
      BY <1>2, <1>3 DEF ToSet
  <2>2. CASE i \in 1..a
      BY <1>2, <1>4, <2>1, <2>2
  <2>3. CASE \E k \in 1..b : i = a + k
      BY <1>2, <1>5, <2>1, <2>3
  <2> QED BY <1>6, <2>2, <2>3
<1>9. ASSUME NEW i \in 1..(a + b), NEW j \in 1..(a + b), r[i] = r[j] PROVE i = j
  <2>1. CASE i \in 1..a /\ j \in 1..a
      BY <1>2, <1>9, <2>1 DEF Lists1
  <2>2. CASE \E k, l \in 1..b : i = a + k /\ j = a + l
      BY <1>2, <1>9, <2>2 DEF Lists1
  <2>3. CASE i \in 1..a /\ \E l \in 1..b : j = a + l
    <3>1. r[i] \in S /\ r[j] \in T
        BY <1>2, <1>4, <1>5, <2>3
    <3> QED BY <1>9, <3>1
  <2>4. CASE j \in 1..a /\ \E l \in 1..b : i = a + l
    <3>1. r[j] \in S /\ r[i] \in T
        BY <1>2, <1>4, <1>5, <2>4
    <3> QED BY <1>9, <3>1
  <2> QED BY <1>6, <2>1, <2>2, <2>3, <2>4
<1>10. ToSet(r) = S \union T
    BY <1>7, <1>8
<1>11. Lists1(r, S \union T)
    BY <1>2, <1>9, <1>10 DEF Lists1
<1> QED BY <1>11 DEF r

LEMMA ListsOne ==
    ASSUME NEW x \in Int
    PROVE  Lists1(<<x>>, {x})
BY DEF Lists1, ToSet

LEMMA ListsNone == Lists1(<<>>, {})
BY DEF Lists1, ToSet

FreesAll(h, f) ==
    [x \in Int |->
        IF x = NULL \/ x \in Statics THEN <<>>
        ELSE IF x \notin DOMAIN h THEN <<x>>
        ELSE CASE h[x].type = "object" ->
                    f[h[x].name] \o f[h[x].value] \o f[h[x].next] \o <<x>>
               [] h[x].type = "array" -> f[h[x].value] \o f[h[x].next] \o <<x>>
               [] OTHER -> <<x>>]

\* One unfolding, where it meets a value.
LEMMA FreesUnfolds ==
    ASSUME NEW h, IsHeap(h), NEW f, NEW x \in InUse(h)
    PROVE  /\ h[x].type = "object" =>
                FreesAll(h, f)[x] =
                    f[NameOf(h, x)] \o f[ValueOf(h, x)] \o f[NextOf(h, x)] \o <<x>>
           /\ h[x].type = "array" =>
                FreesAll(h, f)[x] = f[ValueOf(h, x)] \o f[NextOf(h, x)] \o <<x>>
           /\ h[x].type \notin Lists => FreesAll(h, f)[x] = <<x>>
<1>1. x \in Int /\ x # NULL /\ x \notin Statics /\ x \in DOMAIN h
    BY Addresses DEF InUse
<1>2. h[x].type \in {"string", "number", "object", "array"}
    BY NodeTypes
<1> QED BY <1>1, <1>2 DEF FreesAll, NameOf, ValueOf, NextOf, Lists

LEMMA FreesExist ==
    ASSUME NEW h, NEW sub, IsHeap(h), IsForest(h, sub)
    PROVE  \E f \in [Int -> Seq(Int)] : f = FreesAll(h, f)
<1> DEFINE V == Seq(Int)
           N == Cardinality(InUse(h))
           rank == Rank(h, sub)
           step == [f \in [Int -> V] |-> FreesAll(h, f)]
<1>1. /\ N \in Nat /\ rank \in [Int -> 0..N]
      /\ \A x \in InUse(h) : \A c \in Kids(h, x) : c \in Int /\ rank[c] < rank[x]
    BY KidsRank
<1>2. \A x \in InUse(h) : /\ NameOf(h, x) \in Kids(h, x) /\ ValueOf(h, x) \in Kids(h, x)
                          /\ NextOf(h, x) \in Kids(h, x)
    BY DEF Kids
<1>3. \A x \in Int : x \notin InUse(h) => x = NULL \/ x \in Statics \/ x \notin DOMAIN h
    BY Addresses
<1>4. <<>> \in V /\ (\A x \in Int : <<x>> \in V) /\ \A s, t \in V : s \o t \in V
    BY ConcatReads
<1>5. \A f : FreesAll(h, f) = [x \in Int |-> FreesAll(h, f)[x]]
    BY DEF FreesAll
<1>6. \A f : \A x \in Int : x \notin InUse(h) =>
        FreesAll(h, f)[x] = IF x \in DOMAIN h \/ x = NULL THEN <<>> ELSE <<x>>
  <2> TAKE f
  <2> TAKE x \in Int
  <2> HAVE x \notin InUse(h)
  <2>1. x \in DOMAIN h => x \in Statics
      BY Addresses
  <2>2. x \in Statics => x \in DOMAIN h
      BY Addresses
  <2> QED BY <1>3, <2>1, <2>2 DEF FreesAll
<1> HIDE DEF V, rank, step, N
<1>7. ASSUME NEW f \in [Int -> V], NEW x \in Int PROVE FreesAll(h, f)[x] \in V
  <2>1. CASE x \in InUse(h)
    <3> DEFINE n == f[NameOf(h, x)]
               v == f[ValueOf(h, x)]
               m == f[NextOf(h, x)]
    <3>1. n \in V /\ v \in V /\ m \in V /\ <<x>> \in V
        BY <1>1, <1>2, <1>4, <2>1
    <3>2. \/ FreesAll(h, f)[x] = n \o v \o m \o <<x>>
          \/ FreesAll(h, f)[x] = v \o m \o <<x>>
          \/ FreesAll(h, f)[x] = <<x>>
        BY <2>1, FreesUnfolds DEF Lists
    <3> HIDE DEF n, v, m
    <3>3. n \o v \in V /\ v \o m \in V
        BY <1>4, <3>1
    <3>4. n \o v \o m \in V /\ v \o m \o <<x>> \in V
        BY <1>4, <3>1, <3>3
    <3>5. n \o v \o m \o <<x>> \in V
        BY <1>4, <3>1, <3>4
    <3> QED BY <3>1, <3>2, <3>4, <3>5
  <2>2. CASE x \notin InUse(h)
      BY <1>4, <1>6, <2>2
  <2> QED BY <2>1, <2>2
<1>8. \A f \in [Int -> V] : FreesAll(h, f) \in [Int -> V]
    BY <1>5, <1>7
<1>9. step \in [[Int -> V] -> [Int -> V]] /\ \A f \in [Int -> V] : step[f] = FreesAll(h, f)
    BY <1>8 DEF step
<1>10. ASSUME NEW f \in [Int -> V], NEW g \in [Int -> V], NEW x \in Int,
              \A y \in Int : rank[y] < rank[x] => f[y] = g[y]
       PROVE  FreesAll(h, f)[x] = FreesAll(h, g)[x]
  <2>1. CASE x \in InUse(h)
    <3>1. \A c \in Kids(h, x) : f[c] = g[c]
        BY <1>1, <1>10, <2>1
    <3>2. f[NameOf(h, x)] = g[NameOf(h, x)] /\ f[ValueOf(h, x)] = g[ValueOf(h, x)]
          /\ f[NextOf(h, x)] = g[NextOf(h, x)]
        BY <1>2, <2>1, <3>1
    <3>3. CASE h[x].type = "object"
      <4>1. FreesAll(h, f)[x] = f[NameOf(h, x)] \o f[ValueOf(h, x)] \o f[NextOf(h, x)] \o <<x>>
          BY <2>1, <3>3, FreesUnfolds
      <4>2. FreesAll(h, g)[x] = g[NameOf(h, x)] \o g[ValueOf(h, x)] \o g[NextOf(h, x)] \o <<x>>
          BY <2>1, <3>3, FreesUnfolds
      <4> QED BY <3>2, <4>1, <4>2
    <3>4. CASE h[x].type = "array"
      <4>1. FreesAll(h, f)[x] = f[ValueOf(h, x)] \o f[NextOf(h, x)] \o <<x>>
          BY <2>1, <3>4, FreesUnfolds
      <4>2. FreesAll(h, g)[x] = g[ValueOf(h, x)] \o g[NextOf(h, x)] \o <<x>>
          BY <2>1, <3>4, FreesUnfolds
      <4> QED BY <3>2, <4>1, <4>2
    <3>5. CASE h[x].type \notin Lists
      <4>1. FreesAll(h, f)[x] = <<x>> /\ FreesAll(h, g)[x] = <<x>>
          BY <2>1, <3>5, FreesUnfolds
      <4> QED BY <4>1
    <3> QED BY <3>3, <3>4, <3>5 DEF Lists
  <2>2. CASE x \notin InUse(h)
      BY <1>6, <2>2
  <2> QED BY <2>1, <2>2
<1>11. Grounded(Int, V, rank, step)
    BY <1>9, <1>10 DEF Grounded
<1>12. V # {}
    BY <1>4
<1>13. \E f \in [Int -> V] : Unfolds(step, f)
  <2> DEFINE D == Int
  <2>1. /\ rank \in [D -> 0..N] /\ step \in [[D -> V] -> [D -> V]]
        /\ Grounded(D, V, rank, step) /\ N \in Nat
      BY <1>1, <1>9, <1>11
  <2> HIDE DEF D
  <2>2. \E f \in [D -> V] : Unfolds(step, f)
      BY <1>12, <2>1, RecursionExists
  <2> QED BY <2>2 DEF D
<1> QED BY <1>9, <1>13 DEF V, Unfolds

\* Deleting the value at a frees its addresses, each of them once.
LEMMA FreesParts ==
    ASSUME NEW h, NEW sub, IsHeap(h), IsForest(h, sub), NEW a \in Pointers(h)
    PROVE  Lists1(Frees(h, a), Part(sub, a))
<1> DEFINE f == CHOOSE g : g = FreesAll(h, g)
           S == {x \in InUse(h) : Lists1(f[x], sub[x])}
<1>1. Frees(h, a) = f[a]
    BY DEF Frees, FreesAll
<1>2. f = FreesAll(h, f)
    BY FreesExist
<1> HIDE DEF f
<1>3. \A x \in Pointers(h) \ InUse(h) : f[x] = <<>> /\ Part(sub, x) = {}
  <2> TAKE x \in Pointers(h) \ InUse(h)
  <2>1. x \in Int /\ (x = NULL \/ x \in Statics)
      BY Addresses DEF Pointers
  <2>2. FreesAll(h, f)[x] = <<>>
      BY <2>1 DEF FreesAll
  <2>3. x \notin DOMAIN sub
      BY DEF IsForest
  <2> QED BY <1>2, <2>2, <2>3 DEF Part
<1>4. ASSUME NEW x \in InUse(h), Kids(h, x) \intersect InUse(h) \subseteq S PROVE x \in S
  <2> DEFINE n == NameOf(h, x)
             v == ValueOf(h, x)
             m == NextOf(h, x)
  <2>1. Kids(h, x) \subseteq Pointers(h) /\ DOMAIN sub = InUse(h)
      BY KidsWithin
  <2>2. \A c \in Kids(h, x) : Lists1(f[c], Part(sub, c))
    <3> TAKE c \in Kids(h, x)
    <3>1. CASE c \in InUse(h)
        BY <1>4, <2>1, <3>1 DEF Part
    <3>2. CASE c \notin InUse(h)
      <4>1. f[c] = <<>> /\ Part(sub, c) = {}
          BY <1>3, <2>1, <3>2
      <4> QED BY <4>1, ListsNone
    <3> QED BY <3>1, <3>2
  <2>3. Lists1(f[n], Part(sub, n)) /\ Lists1(f[v], Part(sub, v)) /\ Lists1(f[m], Part(sub, m))
      BY <2>2 DEF Kids
  <2>4. x \in Int
      BY Addresses
  <2>5. Holds(h, sub, x)
      BY DEF IsForest
  <2> DEFINE N == Part(sub, n)
             M == Part(sub, m)
             W == Part(sub, v)
  <2>6. /\ sub[x] = {x} \union N \union W \union M /\ x \notin N \union W \union M
        /\ N \intersect W = {} /\ N \intersect M = {} /\ W \intersect M = {}
      BY <2>5 DEF Holds
  <2>7. f[x] = FreesAll(h, f)[x]
      BY <1>2
  <2>8. Part(sub, NULL) = {}
      BY <2>1, Addresses DEF Part, InUse
  <2>9. h[x].type # "object" => N = {}
      BY <2>8 DEF NameOf
  <2>10. h[x].type \notin Lists => W = {} /\ M = {}
      BY <2>8 DEF ValueOf, NextOf
  <2>11. /\ h[x].type = "object" => f[x] = f[n] \o f[v] \o f[m] \o <<x>>
         /\ h[x].type = "array" => f[x] = f[v] \o f[m] \o <<x>>
         /\ h[x].type \notin Lists => f[x] = <<x>>
      BY <2>7, FreesUnfolds
  <2> HIDE DEF n, v, m, N, W, M
  <2>12. Lists1(f[n], N) /\ Lists1(f[v], W) /\ Lists1(f[m], M) /\ Lists1(<<x>>, {x})
      BY <2>3, <2>4, ListsOne DEF N, W, M
  <2>13. CASE h[x].type = "object"
    <3>1. Lists1(f[n] \o f[v], N \union W)
        BY <2>6, <2>12, ListsJoin
    <3>2. Lists1(f[n] \o f[v] \o f[m], (N \union W) \union M)
        BY <2>6, <2>12, <3>1, ListsJoin
    <3>3. Lists1(f[n] \o f[v] \o f[m] \o <<x>>, ((N \union W) \union M) \union {x})
        BY <2>6, <2>12, <3>2, ListsJoin
    <3>4. sub[x] = ((N \union W) \union M) \union {x}
        BY <2>6
    <3> QED BY <2>11, <2>13, <3>3, <3>4
  <2>14. CASE h[x].type = "array"
    <3>1. Lists1(f[v] \o f[m], W \union M)
        BY <2>6, <2>12, ListsJoin
    <3>2. Lists1(f[v] \o f[m] \o <<x>>, (W \union M) \union {x})
        BY <2>6, <2>12, <3>1, ListsJoin
    <3>3. sub[x] = (W \union M) \union {x}
        BY <2>6, <2>9, <2>14
    <3> QED BY <2>11, <2>14, <3>2, <3>3
  <2>15. CASE h[x].type \notin Lists
    <3>1. sub[x] = {x}
        BY <2>6, <2>9, <2>10, <2>15 DEF Lists
    <3> QED BY <2>11, <2>12, <2>15, <3>1
  <2> QED BY <2>13, <2>14, <2>15 DEF Lists
<1>5. InUse(h) \subseteq S
  <2> HIDE DEF S
  <2> QED BY <1>4, HeapInduction
<1>6. CASE a \in InUse(h)
    BY <1>1, <1>5, <1>6 DEF Part, IsForest
<1>7. CASE a \notin InUse(h)
    BY <1>1, <1>3, <1>7, ListsNone
<1> QED BY <1>6, <1>7


(***************************************************************************)
(* The nodes of a list.                                                    *)
(***************************************************************************)
LEMMA ListNodesInUse ==
    ASSUME NEW h, IsHeap(h)
    PROVE  /\ ListNodes(h) \subseteq InUse(h) /\ NULL \notin ListNodes(h)
           /\ \A x \in InUse(h) : h[x].type \in Lists <=> x \in ListNodes(h)
           /\ \A x \in ListNodes(h) :
                /\ h[x].next = NextOf(h, x) /\ h[x].value = ValueOf(h, x)
                /\ h[x].next \in ListNodes(h) \union {NULL}
                /\ h[x].next # NULL => /\ h[h[x].next].type = h[x].type
                                       /\ h[h[x].next].value # NULL
<1>1. ListNodes(h) = {x \in DOMAIN h : h[x].type \in Lists}
    BY DEF ListNodes, Lists
<1>2. ListNodes(h) \subseteq InUse(h) /\ InUse(h) \subseteq DOMAIN h
    BY <1>1, NodeTypes DEF InUse
<1>3. \A x \in InUse(h) : h[x].type \in Lists <=> x \in ListNodes(h)
    BY <1>1, <1>2
<1>4. NULL \notin ListNodes(h)
    BY <1>1, Addresses
<1>5. ASSUME NEW x \in ListNodes(h)
      PROVE  /\ h[x].next = NextOf(h, x) /\ h[x].value = ValueOf(h, x)
             /\ h[x].next \in ListNodes(h) \union {NULL}
             /\ h[x].next # NULL => /\ h[h[x].next].type = h[x].type
                                    /\ h[h[x].next].value # NULL
  <2>1. h[x].type \in Lists /\ x \in InUse(h) /\ x \in DOMAIN h
      BY <1>1, <1>2
  <2>2. h[x].next = NextOf(h, x) /\ h[x].value = ValueOf(h, x)
      BY <2>1 DEF NextOf, ValueOf
  <2>3. Followed(h, x)
      BY <2>1 DEF IsHeap
  <2>4. NextOf(h, x) \in InUse(h) \union {NULL}
      BY <2>1, NodePointers
  <2> QED BY <1>3, <2>1, <2>2, <2>3, <2>4 DEF Followed
<1> QED BY <1>2, <1>3, <1>4, <1>5

NodesAll(h, f) ==
    [x \in ListNodes(h) \union {NULL} |-> IF x = NULL THEN <<>> ELSE <<x>> \o f[h[x].next]]

LEMMA NodesExist ==
    ASSUME NEW h, NEW sub, IsHeap(h), IsForest(h, sub)
    PROVE  \E f : f = NodesAll(h, f)
<1> DEFINE V == Seq(Int)
           D == ListNodes(h) \union {NULL}
           N == Cardinality(InUse(h))
           rank == [x \in D |-> Rank(h, sub)[x]]
           step == [f \in [D -> V] |-> NodesAll(h, f)]
<1>1. /\ N \in Nat /\ Rank(h, sub) \in [Int -> 0..N]
      /\ \A x \in InUse(h) : Rank(h, sub)[NextOf(h, x)] < Rank(h, sub)[x]
    BY KidsRank DEF Kids
<1>2. \A x \in ListNodes(h) : x \in InUse(h) /\ h[x].next = NextOf(h, x) /\ h[x].next \in D
    BY ListNodesInUse
<1>3. D \subseteq Int
  <2>1. ListNodes(h) \subseteq InUse(h)
      BY ListNodesInUse
  <2>2. InUse(h) \subseteq Int /\ NULL = 0
      BY Addresses
  <2> QED BY <2>1, <2>2
<1>4. <<>> \in V /\ (\A x \in Int : <<x>> \in V) /\ \A s, t \in V : s \o t \in V
    BY ConcatReads
<1>5. \A f : NodesAll(h, f) = [x \in D |-> NodesAll(h, f)[x]]
    BY DEF NodesAll
<1>6. \A f : \A x \in D : /\ x = NULL => NodesAll(h, f)[x] = <<>>
                          /\ x # NULL => NodesAll(h, f)[x] = <<x>> \o f[h[x].next]
    BY DEF NodesAll
<1>7. \A x \in D : x # NULL => x \in ListNodes(h)
    OBVIOUS
<1>8. rank \in [D -> 0..N] /\ \A x \in D : rank[x] = Rank(h, sub)[x]
    BY <1>1, <1>3
<1>9. \A x \in D : x # NULL => h[x].next \in D /\ rank[h[x].next] < rank[x]
    BY <1>1, <1>2, <1>7, <1>8
<1> HIDE DEF V, D, rank, step, N
<1>10. ASSUME NEW f \in [D -> V], NEW x \in D PROVE NodesAll(h, f)[x] \in V
  <2>1. CASE x = NULL
      BY <1>4, <1>6, <2>1
  <2>2. CASE x # NULL
    <3>1. f[h[x].next] \in V /\ <<x>> \in V
        BY <1>3, <1>4, <1>9, <2>2
    <3>2. <<x>> \o f[h[x].next] \in V
        BY <1>4, <3>1
    <3> QED BY <1>6, <2>2, <3>2
  <2> QED BY <2>1, <2>2
<1>11. \A f \in [D -> V] : NodesAll(h, f) \in [D -> V]
    BY <1>5, <1>10
<1>12. step \in [[D -> V] -> [D -> V]] /\ \A f \in [D -> V] : step[f] = NodesAll(h, f)
    BY <1>11 DEF step
<1>13. ASSUME NEW f \in [D -> V], NEW g \in [D -> V], NEW x \in D,
              \A y \in D : rank[y] < rank[x] => f[y] = g[y]
       PROVE  NodesAll(h, f)[x] = NodesAll(h, g)[x]
  <2>1. CASE x = NULL
      BY <1>6, <2>1
  <2>2. CASE x # NULL
    <3>1. f[h[x].next] = g[h[x].next]
        BY <1>9, <1>13, <2>2
    <3>2. NodesAll(h, f)[x] = <<x>> \o f[h[x].next] /\ NodesAll(h, g)[x] = <<x>> \o g[h[x].next]
        BY <1>6, <2>2
    <3> QED BY <3>1, <3>2
  <2> QED BY <2>1, <2>2
<1>14. Grounded(D, V, rank, step)
    BY <1>12, <1>13 DEF Grounded
<1>15. V # {}
    BY <1>4
<1>16. \E f \in [D -> V] : Unfolds(step, f)
    BY <1>1, <1>8, <1>12, <1>14, <1>15, RecursionExists
<1> QED BY <1>12, <1>16 DEF Unfolds

\* s holds nodes of the list at x, all of its kind, the last of them last.
Chain(h, sub, x, s) ==
    /\ s \in Seq(Int) /\ Len(s) # 0
    /\ \A i \in 1..Len(s) : /\ s[i] \in sub[x] /\ h[s[i]].type = h[x].type
                            /\ s[i] = x \/ h[s[i]].value # NULL
    /\ NextOf(h, s[Len(s)]) = NULL

LEMMA NodesChain ==
    ASSUME NEW h, NEW sub, IsHeap(h), IsForest(h, sub), NEW a \in ListNodes(h)
    PROVE  Chain(h, sub, a, Nodes(h, a))
<1> DEFINE f == CHOOSE g : g = NodesAll(h, g)
           S == {x \in InUse(h) : x \in ListNodes(h) => Chain(h, sub, x, f[x])}
<1>1. Nodes(h, a) = f[a]
    BY DEF Nodes, NodesAll
<1>2. f = NodesAll(h, f)
    BY NodesExist
<1> HIDE DEF f
<1>3. ASSUME NEW x \in InUse(h), Kids(h, x) \intersect InUse(h) \subseteq S PROVE x \in S
  <2> SUFFICES ASSUME x \in ListNodes(h) PROVE Chain(h, sub, x, f[x])
      OBVIOUS
  <2> DEFINE m == h[x].next
  <2>1. /\ m = NextOf(h, x) /\ m \in ListNodes(h) \union {NULL} /\ NULL \notin ListNodes(h)
        /\ m # NULL => h[m].type = h[x].type /\ h[m].value # NULL
      BY ListNodesInUse
  <2>2. f[x] = <<x>> \o f[m]
      BY <1>2, <2>1 DEF NodesAll
  <2>3. x \in sub[x] /\ x \in Int
      BY KidsWithin, Addresses
  <2>4. CASE m = NULL
    <3>1. f[m] = <<>>
        BY <1>2, <2>4 DEF NodesAll
    <3>2. f[x] = <<x>>
        BY <2>2, <3>1
    <3> DEFINE r == <<x>>
    <3>3. Len(r) = 1 /\ r \in Seq(Int) /\ r[1] = x /\ \A i \in 1..1 : i = 1
        BY <2>3
    <3> HIDE DEF r
    <3>4. \A i \in 1..Len(r) : r[i] = x
        BY <3>3
    <3>5. NextOf(h, r[Len(r)]) = NULL
        BY <2>1, <2>4, <3>3
    <3>6. Chain(h, sub, x, r)
        BY <2>3, <3>3, <3>4, <3>5 DEF Chain
    <3> QED BY <3>2, <3>6 DEF r
  <2>5. CASE m # NULL
    <3>1. m \in ListNodes(h) /\ m \in InUse(h) /\ m \in Kids(h, x)
        BY <2>1, <2>5, ListNodesInUse DEF Kids
    <3>2. Chain(h, sub, m, f[m])
        BY <1>3, <3>1
    <3>3. sub[m] \subseteq sub[x]
        BY <3>1, KidsWithin
    <3> DEFINE t == f[m]
               r == <<x>> \o t
               l == Len(t)
    <3>4. t \in Seq(Int) /\ <<x>> \in Seq(Int) /\ l \in Nat /\ l # 0
        BY <2>3, <3>2 DEF Chain
    <3>5. r \in Seq(Int) /\ Len(r) = 1 + l /\ r[1] = x /\ \A i \in 1..l : r[1 + i] = t[i]
        BY <3>4
    <3>6. \A i \in 1..l : /\ t[i] \in sub[m] /\ h[t[i]].type = h[m].type
                          /\ t[i] = m \/ h[t[i]].value # NULL
        BY <3>2 DEF Chain
    <3>7. NextOf(h, t[l]) = NULL
        BY <3>2 DEF Chain
    <3>8. f[x] = r
        BY <2>2
    <3> HIDE DEF t, r, l, m
    <3>9. ASSUME NEW i \in 1..Len(r)
          PROVE  r[i] \in sub[x] /\ h[r[i]].type = h[x].type /\ (r[i] = x \/ h[r[i]].value # NULL)
      <4>1. CASE i = 1
          BY <2>3, <3>5, <4>1
      <4>2. CASE i # 1
        <5>1. i - 1 \in 1..l /\ i = 1 + (i - 1)
            BY <3>4, <3>5, <4>2
        <5>2. r[i] = t[i - 1]
            BY <3>5, <5>1
        <5> QED BY <2>1, <2>5, <3>3, <3>6, <5>1, <5>2
      <4> QED BY <4>1, <4>2
    <3>10. r[Len(r)] = t[l] /\ Len(r) # 0
        BY <3>4, <3>5
    <3>11. Chain(h, sub, x, r)
        BY <3>5, <3>7, <3>9, <3>10 DEF Chain
    <3> QED BY <3>8, <3>11
  <2> QED BY <2>4, <2>5
<1>4. InUse(h) \subseteq S
  <2> HIDE DEF S
  <2> QED BY <1>3, HeapInduction
<1> QED BY <1>1, <1>4, ListNodesInUse


(***************************************************************************)
(* Every value has one owner.  A slot is a place that may own a value: the *)
(* program, which holds the value, a list or a name that is being read, or *)
(* what json_parser returns.  own gives the pointer in each, and slot the  *)
(* owner of each address.                                                  *)
(***************************************************************************)
Slots == {"held", "list", "key", "ret"} \X Nat

Parted(h, sub, own, slot) ==
    /\ slot \in [InUse(h) -> Slots]
    /\ \A s \in Slots : /\ own[s] \in Pointers(h)
                        /\ Part(sub, own[s]) = {x \in InUse(h) : slot[x] = s}

Owned(h, sub, own, slot) == IsHeap(h) /\ IsForest(h, sub) /\ Parted(h, sub, own, slot)

\* An owner has all of a value or nothing of it.
LEMMA OwnedWhole ==
    ASSUME NEW h, NEW sub, NEW own, NEW slot, Owned(h, sub, own, slot), NEW x \in InUse(h)
    PROVE  /\ slot[x] \in Slots /\ own[slot[x]] \in InUse(h) /\ x \in sub[own[slot[x]]]
           /\ \A y \in sub[x] : y \in InUse(h) /\ slot[y] = slot[x]
<1> DEFINE s == slot[x]
<1>1. s \in Slots /\ Part(sub, own[s]) = {y \in InUse(h) : slot[y] = s} /\ DOMAIN sub = InUse(h)
    BY DEF Owned, Parted, IsForest
<1>2. x \in Part(sub, own[s])
    BY <1>1
<1>3. own[s] \in InUse(h) /\ x \in sub[own[s]]
    BY <1>1, <1>2 DEF Part
<1>4. sub[x] \subseteq sub[own[s]]
    BY <1>3, PartsNest DEF Owned
<1>5. \A y \in sub[x] : y \in Part(sub, own[s])
    BY <1>1, <1>3, <1>4 DEF Part
<1> QED BY <1>1, <1>3, <1>5

LEMMA LeastFree ==
    ASSUME NEW S \in SUBSET Nat, S # {}
    PROVE  Min(S) \in S /\ \A x \in S : Min(S) <= x
<1>1. \E x \in S : \A y \in S : x <= y
    BY LeastNumber
<1> QED BY <1>1 DEF Min

\* malloc gives an address that is not in use.
LEMMA NewHeap ==
    ASSUME NEW h, IsHeap(h), HasRoom(h), NEW node
    PROVE  /\ Fresh(h) \in Memory /\ Fresh(h) \notin DOMAIN h /\ Fresh(h) # NULL
           /\ DOMAIN New(h, node) = DOMAIN h \union {Fresh(h)}
           /\ InUse(New(h, node)) = InUse(h) \union {Fresh(h)}
           /\ \A x \in DOMAIN h : New(h, node)[x] = h[x]
           /\ New(h, node)[Fresh(h)] = node
<1> DEFINE n == Fresh(h)
<1>1. n \in Memory \ DOMAIN h
  <2> DEFINE S == Memory \ DOMAIN h
  <2>1. S \in SUBSET Nat /\ S # {}
      BY ValueAssumption DEF HasRoom
  <2>2. n = Min(S)
      BY DEF Fresh
  <2> HIDE DEF S
  <2>3. n \in S
      BY <2>1, <2>2, LeastFree
  <2> QED BY <2>3 DEF S
<1>2. n # NULL
    BY <1>1, ValueAssumption DEF NULL
<1>3. n \notin Statics
    BY <1>1, Addresses
<1>4. New(h, node) = [x \in DOMAIN h \union {n} |-> IF x = n THEN node ELSE h[x]]
    BY DEF New
<1> HIDE DEF n
<1>5. /\ DOMAIN New(h, node) = DOMAIN h \union {n}
      /\ \A x \in DOMAIN h : New(h, node)[x] = h[x]
      /\ New(h, node)[n] = node
    BY <1>1, <1>4
<1>6. InUse(New(h, node)) = InUse(h) \union {n}
    BY <1>3, <1>5 DEF InUse
<1> QED BY <1>1, <1>2, <1>5, <1>6 DEF n


LEMMA NodesGrow ==
    ASSUME NEW h, NEW h2, InUse(h) \subseteq InUse(h2), DOMAIN h \subseteq DOMAIN h2,
           NEW node, IsNode(h, node)
    PROVE  IsNode(h2, node)
<1>1. Pointers(h) \subseteq Pointers(h2)
    BY DEF Pointers
<1>2. CASE (node.type = "string" /\ IsSequence(node.text)) \/ node.type = "number"
    BY <1>2 DEF IsNode
<1>3. CASE node \in [type : {"object"}, name : Pointers(h), value : Pointers(h),
                     next : InUse(h) \union {NULL}] /\ (node.value # NULL => node.name # NULL)
  <2>1. node \in [type : {"object"}, name : Pointers(h2), value : Pointers(h2),
                  next : InUse(h2) \union {NULL}]
      BY <1>1, <1>3
  <2> QED BY <1>3, <2>1 DEF IsNode
<1>4. CASE node \in [type : {"array"}, value : Pointers(h), next : InUse(h) \union {NULL}]
  <2>1. node \in [type : {"array"}, value : Pointers(h2), next : InUse(h2) \union {NULL}]
      BY <1>1, <1>4
  <2> QED BY <2>1 DEF IsNode
<1> QED BY <1>2, <1>3, <1>4 DEF IsNode

\* A new value takes the values it is made of from their owners.
LEMMA NewOwned ==
    ASSUME NEW h, NEW sub, NEW own, NEW slot, Owned(h, sub, own, slot), HasRoom(h),
           NEW node, IsNode(h, node), NextOf(New(h, node), Fresh(h)) = NULL,
           NEW k, k = NameOf(New(h, node), Fresh(h)), k \in Pointers(h),
           NEW v, v = ValueOf(New(h, node), Fresh(h)), v \in Pointers(h),
           NEW sk \in Slots, Part(sub, own[sk]) = Part(sub, k),
           NEW sv \in Slots, Part(sub, own[sv]) = Part(sub, v),
           Part(sub, k) \intersect Part(sub, v) = {},
           NEW d \in Slots, Part(sub, own[d]) = {} \/ d = sk \/ d = sv,
           NEW own2, own2[d] = Fresh(h),
           \A s \in Slots \ {d} :
             /\ own2[s] \in Pointers(h)
             /\ Part(sub, own2[s]) = IF s = sk \/ s = sv THEN {} ELSE Part(sub, own[s])
    PROVE  \E sub2, slot2 :
             /\ Owned(New(h, node), sub2, own2, slot2)
             /\ slot2[Fresh(h)] = d
             /\ \A x \in InUse(h) :
                  slot2[x] = IF slot[x] = sk \/ slot[x] = sv THEN d ELSE slot[x]
<1> DEFINE n == Fresh(h)
           h2 == New(h, node)
           U == InUse(h)
           U2 == InUse(h2)
           K == Part(sub, k)
           W == Part(sub, v)
           sub2 == [x \in U2 |-> IF x = n THEN {n} \union K \union W ELSE sub[x]]
           slot2 == [x \in U2 |-> IF x = n \/ slot[x] = sk \/ slot[x] = sv THEN d ELSE slot[x]]
<1>0. IsHeap(h) /\ IsForest(h, sub) /\ Parted(h, sub, own, slot)
    BY DEF Owned
<1>1. /\ n \in Memory /\ n \notin DOMAIN h /\ n # NULL
      /\ DOMAIN h2 = DOMAIN h \union {n} /\ U2 = U \union {n}
      /\ \A x \in DOMAIN h : h2[x] = h[x]
      /\ h2[n] = node
    BY <1>0, NewHeap
<1>2. U \subseteq DOMAIN h /\ n \notin U /\ DOMAIN sub = U /\ NULL \notin DOMAIN h
    BY <1>0, <1>1, Addresses DEF InUse, IsForest
<1>3. K \subseteq U /\ W \subseteq U
    BY <1>0 DEF Part, IsForest
<1>18. NameOf(h2, n) = k /\ ValueOf(h2, n) = v /\ NextOf(h2, n) = NULL
    OBVIOUS
<1> HIDE DEF n, h2, U2, sub2, slot2
<1>4. \A x \in DOMAIN h : /\ NameOf(h2, x) = NameOf(h, x) /\ ValueOf(h2, x) = ValueOf(h, x)
                          /\ NextOf(h2, x) = NextOf(h, x)
    BY <1>1 DEF NameOf, ValueOf, NextOf
<1>5. IsHeap(h2)
  <2>1. U2 \subseteq Memory
      BY <1>0, <1>1 DEF IsHeap
  <2>2. IsFiniteSet(U2)
      BY <1>0, <1>1, FS_AddElement DEF IsHeap
  <2>3. Statics \subseteq DOMAIN h2 /\ \A x \in Statics : h2[x] = StaticHeap[x]
      BY <1>0, <1>1 DEF IsHeap
  <2>4. ASSUME NEW x \in U2 PROVE IsNode(h2, h2[x]) /\ Followed(h2, x)
    <3>1. IsNode(h, h2[x])
        BY <1>0, <1>1, <1>2 DEF IsHeap, h2, n
    <3>2. IsNode(h2, h2[x])
      <4>1. U \subseteq InUse(h2) /\ DOMAIN h \subseteq DOMAIN h2
          BY <1>1 DEF U2
      <4> QED BY <3>1, <4>1, NodesGrow
    <3>3. CASE x = n
        BY <1>18, <3>2, <3>3 DEF Followed
    <3>4. CASE x # n
      <4>1. x \in U /\ x \in DOMAIN h /\ Followed(h, x)
          BY <1>0, <1>1, <1>2, <3>4 DEF IsHeap
      <4> DEFINE m == NextOf(h, x)
      <4>2. m \in U \union {NULL} /\ NextOf(h2, x) = m /\ h2[x] = h[x]
          BY <1>0, <1>1, <1>4, <4>1, NodePointers
      <4>3. m # NULL => h[m].type = h[x].type /\ h[m].value # NULL
          BY <4>1 DEF Followed
      <4> HIDE DEF m
      <4>4. m # NULL => h2[m] = h[m]
          BY <1>1, <1>2, <4>2
      <4> QED BY <3>2, <4>2, <4>3, <4>4 DEF Followed
    <3> QED BY <3>3, <3>4
  <2> QED BY <2>1, <2>2, <2>3, <2>4 DEF IsHeap, U2
<1>6. \A x \in U2 : sub2[x] = IF x = n THEN {n} \union K \union W ELSE sub[x]
    BY DEF sub2
<1>7. DOMAIN sub2 = U2 /\ sub2 \in [U2 -> SUBSET U2]
  <2>1. \A x \in U : sub[x] \subseteq U
      BY <1>0 DEF IsForest
  <2>2. \A x \in U2 : (IF x = n THEN {n} \union K \union W ELSE sub[x]) \in SUBSET U2
      BY <1>1, <1>3, <2>1
  <2> QED BY <2>2 DEF sub2
<1>8. \A a \in Pointers(h) : Part(sub2, a) = Part(sub, a)
  <2> TAKE a \in Pointers(h)
  <2>1. a # n
      BY <1>1 DEF Pointers
  <2> QED BY <1>1, <1>2, <1>6, <1>7, <2>1 DEF Part
<1>9. IsForest(h2, sub2)
  <2>1. ASSUME NEW x \in U2 PROVE Holds(h2, sub2, x)
    <3>1. CASE x = n
      <4>1. NameOf(h2, x) = k /\ ValueOf(h2, x) = v /\ NextOf(h2, x) = NULL
          BY <1>18, <3>1
      <4>2. Part(sub2, k) = K /\ Part(sub2, v) = W /\ Part(sub2, NULL) = {}
        <5>1. NULL \in Pointers(h) /\ Part(sub, NULL) = {}
            BY <1>2 DEF Pointers, Part
        <5> QED BY <1>8, <5>1
      <4>3. sub2[x] = {n} \union K \union W
          BY <1>6, <3>1
      <4>4. n \notin K /\ n \notin W /\ K \intersect W = {}
          BY <1>2, <1>3
      <4> HIDE DEF K, W
      <4> QED BY <3>1, <4>1, <4>2, <4>3, <4>4 DEF Holds
    <3>2. CASE x # n
      <4>1. x \in U /\ x \in DOMAIN h /\ Holds(h, sub, x) /\ sub2[x] = sub[x]
          BY <1>0, <1>1, <1>2, <1>6, <3>2 DEF IsForest
      <4>2. /\ NameOf(h, x) \in Pointers(h) /\ ValueOf(h, x) \in Pointers(h)
            /\ NextOf(h, x) \in Pointers(h)
          BY <1>0, <1>2, <4>1, NodePointers DEF Pointers
      <4> QED BY <1>4, <1>8, <4>1, <4>2 DEF Holds
    <3> QED BY <3>1, <3>2
  <2> QED BY <1>7, <2>1 DEF IsForest, U2
<1>10. \A x \in U : slot[x] \in Slots
    BY <1>0 DEF Parted
<1>11. \A x \in U2 : slot2[x] = IF x = n \/ slot[x] = sk \/ slot[x] = sv THEN d ELSE slot[x]
    BY DEF slot2
<1>12. slot2 \in [U2 -> Slots]
    BY <1>1, <1>10 DEF slot2
<1>13. \A s \in Slots : Part(sub, own[s]) = {x \in U : slot[x] = s}
    BY <1>0 DEF Parted
<1>14. K = {x \in U : slot[x] = sk} /\ W = {x \in U : slot[x] = sv}
    BY <1>13
<1>15. ASSUME NEW s \in Slots
       PROVE  own2[s] \in Pointers(h2) /\ Part(sub2, own2[s]) = {x \in U2 : slot2[x] = s}
  <2>1. CASE s = d
    <3>1. own2[s] = n /\ n \in U2 /\ n \in Pointers(h2)
        BY <1>1, <2>1 DEF n, Pointers
    <3>2. Part(sub2, n) = {n} \union K \union W
        BY <1>6, <1>7, <3>1 DEF Part
    <3>3. {x \in U : slot[x] = d} = {} \/ d = sk \/ d = sv
        BY <1>13
    <3>4. \A x \in U2 : slot2[x] = d <=> x = n \/ (x \in U /\ (slot[x] = sk \/ slot[x] = sv))
        BY <1>1, <1>11, <3>3
    <3>5. {x \in U2 : slot2[x] = d} = {n} \union K \union W
        BY <1>1, <1>14, <3>4
    <3> QED BY <2>1, <3>1, <3>2, <3>5
  <2>2. CASE s # d
    <3>1. own2[s] \in Pointers(h)
          /\ Part(sub, own2[s]) = IF s = sk \/ s = sv THEN {} ELSE Part(sub, own[s])
        BY <2>2
    <3>2. own2[s] \in Pointers(h2)
        BY <1>1, <3>1 DEF Pointers
    <3>3. Part(sub2, own2[s]) = IF s = sk \/ s = sv THEN {} ELSE {x \in U : slot[x] = s}
        BY <1>8, <1>13, <3>1
    <3>4. \A x \in U2 : slot2[x] = s <=> x \in U /\ slot[x] = s /\ s # sk /\ s # sv
        BY <1>1, <1>2, <1>11, <2>2
    <3>5. {x \in U2 : slot2[x] = s} = IF s = sk \/ s = sv THEN {} ELSE {x \in U : slot[x] = s}
        BY <1>1, <3>4
    <3> QED BY <3>2, <3>3, <3>5
  <2> QED BY <2>1, <2>2
<1>16. Owned(h2, sub2, own2, slot2)
    BY <1>5, <1>9, <1>12, <1>15 DEF Owned, Parted, U2
<1>17. slot2[n] = d /\ \A x \in U : slot2[x] = IF slot[x] = sk \/ slot[x] = sv THEN d ELSE slot[x]
    BY <1>1, <1>2, <1>11
<1> QED BY <1>16, <1>17 DEF h2, n


Linked(h, back, b) == [h EXCEPT ![back].next = b]

LEMMA LinkedNodes ==
    ASSUME NEW h, IsHeap(h), NEW back \in ListNodes(h), NEW b \in ListNodes(h),
           h[b].type = h[back].type, h[b].value # NULL, b # back
    PROVE  /\ DOMAIN Linked(h, back, b) = DOMAIN h /\ InUse(Linked(h, back, b)) = InUse(h)
           /\ \A x \in DOMAIN h : x # back => Linked(h, back, b)[x] = h[x]
           /\ \A x \in DOMAIN h :
                /\ Linked(h, back, b)[x].type = h[x].type
                /\ NameOf(Linked(h, back, b), x) = NameOf(h, x)
                /\ ValueOf(Linked(h, back, b), x) = ValueOf(h, x)
                /\ NextOf(Linked(h, back, b), x) = IF x = back THEN b ELSE NextOf(h, x)
           /\ ListNodes(Linked(h, back, b)) = ListNodes(h)
           /\ IsHeap(Linked(h, back, b))
<1> DEFINE h2 == Linked(h, back, b)
<1>1. /\ back \in InUse(h) /\ b \in InUse(h) /\ back \in DOMAIN h /\ b \in DOMAIN h
      /\ back \notin Statics /\ h[back].type \in Lists
    BY ListNodesInUse DEF InUse
<1>2. /\ DOMAIN h2 = DOMAIN h /\ InUse(h2) = InUse(h) /\ Pointers(h2) = Pointers(h)
      /\ \A x \in DOMAIN h : x # back => h2[x] = h[x]
      /\ h2[back] = [h[back] EXCEPT !.next = b]
    BY <1>1 DEF Linked, InUse, Pointers
<1> HIDE DEF h2
<1>3. IsNode(h, h[back])
    BY <1>1 DEF IsHeap
<1>4. /\ h2[back].type = h[back].type /\ h2[back].value = h[back].value /\ h2[back].next = b
      /\ h[back].type = "object" => h2[back].name = h[back].name
      /\ IsNode(h, h2[back])
  <2>1. CASE h[back] \in [type : {"object"}, name : Pointers(h), value : Pointers(h),
                          next : InUse(h) \union {NULL}]
             /\ (h[back].value # NULL => h[back].name # NULL)
    <3>1. /\ h2[back] \in [type : {"object"}, name : Pointers(h), value : Pointers(h),
                           next : InUse(h) \union {NULL}]
          /\ h2[back].type = h[back].type /\ h2[back].value = h[back].value /\ h2[back].next = b
          /\ h2[back].name = h[back].name
        BY <1>1, <1>2, <2>1
    <3> QED BY <2>1, <3>1 DEF IsNode
  <2>2. CASE h[back] \in [type : {"array"}, value : Pointers(h), next : InUse(h) \union {NULL}]
    <3>1. /\ h2[back] \in [type : {"array"}, value : Pointers(h), next : InUse(h) \union {NULL}]
          /\ h2[back].type = h[back].type /\ h2[back].value = h[back].value /\ h2[back].next = b
        BY <1>1, <1>2, <2>2
    <3>2. h[back].type # "object"
        BY <2>2
    <3> QED BY <3>1, <3>2 DEF IsNode
  <2> QED BY <1>1, <1>3, <2>1, <2>2 DEF IsNode, Lists
<1>5. \A x \in DOMAIN h :
        /\ h2[x].type = h[x].type
        /\ NameOf(h2, x) = NameOf(h, x) /\ ValueOf(h2, x) = ValueOf(h, x)
        /\ NextOf(h2, x) = IF x = back THEN b ELSE NextOf(h, x)
  <2> TAKE x \in DOMAIN h
  <2>1. CASE x = back
      BY <1>1, <1>4, <2>1 DEF NameOf, ValueOf, NextOf, Lists
  <2>2. CASE x # back
      BY <1>2, <2>2 DEF NameOf, ValueOf, NextOf
  <2> QED BY <2>1, <2>2
<1>6. ListNodes(h2) = ListNodes(h)
    BY <1>2, <1>5 DEF ListNodes
<1>7. \A x \in ListNodes(h) : h2[x].value = h[x].value
    BY <1>2, <1>4 DEF ListNodes
<1>8. IsHeap(h2)
  <2>1. InUse(h2) \subseteq Memory /\ IsFiniteSet(InUse(h2))
      BY <1>2 DEF IsHeap
  <2>2. Statics \subseteq DOMAIN h2 /\ \A x \in Statics : h2[x] = StaticHeap[x]
      BY <1>1, <1>2 DEF IsHeap
  <2>3. \A x \in InUse(h) : IsNode(h, h2[x]) /\ x \in DOMAIN h
      BY <1>2, <1>4 DEF IsHeap, InUse
  <2>4. \A x \in InUse(h) : IsNode(h2, h2[x])
    <3>1. InUse(h) \subseteq InUse(h2) /\ DOMAIN h \subseteq DOMAIN h2
        BY <1>2
    <3> QED BY <2>3, <3>1, NodesGrow
  <2>5. ASSUME NEW x \in InUse(h) PROVE Followed(h2, x)
    <3>1. x \in DOMAIN h
        BY <2>3
    <3>2. CASE x = back
      <4>1. NextOf(h2, x) = b /\ h2[b].type = h[back].type /\ h2[b].value # NULL
            /\ h2[x].type = h[back].type
          BY <1>1, <1>2, <1>5, <3>2
      <4> QED BY <4>1 DEF Followed
    <3>3. CASE x # back
      <4> DEFINE m == NextOf(h, x)
      <4>1. NextOf(h2, x) = m /\ m \in InUse(h) \union {NULL} /\ h2[x].type = h[x].type
          BY <1>5, <3>1, <3>3, NodePointers
      <4>2. m # NULL => h[m].type = h[x].type /\ h[m].value # NULL /\ m \in ListNodes(h)
        <5>1. Followed(h, x)
            BY DEF IsHeap
        <5>2. m # NULL => x \in ListNodes(h)
            BY <3>1 DEF NextOf, ListNodes, Lists
        <5>3. x \in ListNodes(h) => m \in ListNodes(h) \union {NULL}
            BY ListNodesInUse
        <5> QED BY <5>1, <5>2, <5>3 DEF Followed
      <4> HIDE DEF m
      <4>3. m # NULL => h2[m].type = h[m].type /\ h2[m].value = h[m].value
          BY <1>5, <1>7, <4>2, ListNodesInUse DEF InUse
      <4> QED BY <4>1, <4>2, <4>3 DEF Followed
    <3> QED BY <3>2, <3>3
  <2> QED BY <1>2, <2>1, <2>2, <2>4, <2>5 DEF IsHeap
<1> QED BY <1>2, <1>5, <1>6, <1>8 DEF h2

\* A list is linked behind the last node of another, whose owner gets it all.
LEMMA LinkOwned ==
    ASSUME NEW h, NEW sub, NEW own, NEW slot, Owned(h, sub, own, slot),
           NEW back \in ListNodes(h), NextOf(h, back) = NULL,
           NEW b \in ListNodes(h), h[b].type = h[back].type, h[b].value # NULL,
           NEW sb \in Slots, own[sb] = b, slot[back] # sb,
           NEW own2, Part(sub, own2[sb]) = {}, own2[sb] \in Pointers(h),
           \A s \in Slots \ {sb} : own2[s] = own[s]
    PROVE  \E sub2, slot2 :
             /\ Owned(Linked(h, back, b), sub2, own2, slot2)
             /\ \A x \in InUse(h) : slot2[x] = IF slot[x] = sb THEN slot[back] ELSE slot[x]
<1> DEFINE h2 == Linked(h, back, b)
           U == InUse(h)
           G == sub[b]
           sa == slot[back]
           Grown(P) == IF back \in P THEN P \union G ELSE P
           sub2 == [x \in U |-> Grown(sub[x])]
           slot2 == [x \in U |-> IF slot[x] = sb THEN sa ELSE slot[x]]
<1>0. IsHeap(h) /\ IsForest(h, sub) /\ Parted(h, sub, own, slot)
    BY DEF Owned
<1>1. back \in U /\ b \in U /\ DOMAIN sub = U
    BY <1>0, ListNodesInUse DEF IsForest
<1>2. sa \in Slots /\ sa # sb
    BY <1>0, <1>1 DEF Parted
<1>3. G = {x \in U : slot[x] = sb} /\ G \subseteq U
  <2>1. Part(sub, b) = {x \in U : slot[x] = sb}
      BY <1>0 DEF Parted
  <2> QED BY <1>1, <2>1 DEF Part
<1>4. \A x \in U : \A y \in sub[x] : y \in U /\ slot[y] = slot[x]
    BY OwnedWhole
<1>5. back \notin G /\ b \in G
    BY <1>0, <1>1, <1>2, <1>3, KidsWithin
<1>6. \A x \in U : back \in sub[x] => sub[x] \intersect G = {}
    BY <1>2, <1>3, <1>4
<1>7. /\ DOMAIN h2 = DOMAIN h /\ InUse(h2) = U /\ IsHeap(h2)
      /\ \A x \in DOMAIN h :
           /\ NameOf(h2, x) = NameOf(h, x) /\ ValueOf(h2, x) = ValueOf(h, x)
           /\ NextOf(h2, x) = IF x = back THEN b ELSE NextOf(h, x)
  <2>1. b # back
      BY <1>5
  <2> QED BY <1>0, <2>1, LinkedNodes
<1> HIDE DEF h2
<1>8. \A x \in U : sub2[x] = Grown(sub[x])
    OBVIOUS
<1>9. DOMAIN sub2 = U /\ sub2 \in [U -> SUBSET U]
  <2>1. \A x \in U : Grown(sub[x]) \in SUBSET U
      BY <1>3, <1>4
  <2> HIDE DEF Grown, U
  <2> QED BY <2>1
<1>10. \A a : Part(sub2, a) = Grown(Part(sub, a))
    BY <1>1, <1>8, <1>9 DEF Part
<1> HIDE DEF sub2, slot2
<1>11. ASSUME NEW x \in U PROVE Holds(h2, sub2, x)
  <2> DEFINE n == Part(sub, NameOf(h, x))
             v == Part(sub, ValueOf(h, x))
             m == Part(sub, NextOf(h, x))
  <2>1. x \in DOMAIN h
      BY DEF InUse
  <2>2. /\ sub[x] = {x} \union n \union v \union m
        /\ x \notin n \union v \union m
        /\ n \intersect v = {} /\ n \intersect m = {} /\ v \intersect m = {}
      BY <1>0 DEF IsForest, Holds
  <2>3. /\ Part(sub2, NameOf(h2, x)) = Grown(n) /\ Part(sub2, ValueOf(h2, x)) = Grown(v)
        /\ sub2[x] = Grown(sub[x])
      BY <1>7, <1>8, <1>10, <2>1
  <2>4. CASE x # back
    <3>1. Part(sub2, NextOf(h2, x)) = Grown(m)
        BY <1>7, <1>10, <2>1, <2>4
    <3>2. back \in sub[x] => sub[x] \intersect G = {}
        BY <1>6
    <3> DEFINE X == sub[x]
    <3>3. X = {x} \union n \union v \union m /\ (back \in X => X \intersect G = {})
        BY <2>2, <3>2
    <3>4. /\ sub2[x] = Grown(X)
          /\ Part(sub2, NextOf(h2, x)) = Grown(m)
        BY <2>3, <3>1
    <3> HIDE DEF n, v, m, X, G
    <3>5. /\ Grown(X) = {x} \union Grown(n) \union Grown(v) \union Grown(m)
          /\ x \notin Grown(n) \union Grown(v) \union Grown(m)
        BY <2>2, <2>4, <3>3
    <3>6. /\ Grown(n) \intersect Grown(v) = {} /\ Grown(n) \intersect Grown(m) = {}
          /\ Grown(v) \intersect Grown(m) = {}
        BY <2>2, <2>4, <3>3
    <3> HIDE DEF Grown
    <3> QED BY <2>3, <3>4, <3>5, <3>6 DEF Holds
  <2>5. CASE x = back
    <3>1. Part(sub2, NextOf(h2, x)) = G
        BY <1>1, <1>5, <1>7, <1>10, <2>1, <2>5 DEF Part
    <3>2. m = {}
        BY <1>0, <1>1, <2>5, Addresses DEF Part, InUse
    <3>3. Grown(n) = n /\ Grown(v) = v /\ Grown(sub[x]) = sub[x] \union G
        BY <2>2, <2>5
    <3>4. sub[x] \intersect G = {}
        BY <1>6, <2>2, <2>5
    <3> HIDE DEF n, v, m, G, Grown
    <3>5. /\ Part(sub2, NameOf(h2, x)) = n /\ Part(sub2, ValueOf(h2, x)) = v
          /\ sub2[x] = {x} \union n \union v \union G
        BY <2>2, <2>3, <3>2, <3>3
    <3>6. /\ x \notin n \union v \union G
          /\ n \intersect v = {} /\ n \intersect G = {} /\ v \intersect G = {}
        BY <2>2, <3>4
    <3> QED BY <3>1, <3>5, <3>6 DEF Holds
  <2> QED BY <2>4, <2>5
<1>12. IsForest(h2, sub2)
    BY <1>7, <1>9, <1>11 DEF IsForest
<1>13. \A x \in U : slot2[x] = IF slot[x] = sb THEN sa ELSE slot[x]
    BY DEF slot2
<1>14. slot2 \in [U -> Slots]
  <2>1. \A x \in U : slot[x] \in Slots
      BY <1>0 DEF Parted
  <2> QED BY <1>2, <2>1 DEF slot2
<1>15. \A s \in Slots : Part(sub, own[s]) = {x \in U : slot[x] = s} /\ own[s] \in Pointers(h)
    BY <1>0 DEF Parted
<1>16. ASSUME NEW s \in Slots
       PROVE  own2[s] \in Pointers(h2) /\ Part(sub2, own2[s]) = {x \in U : slot2[x] = s}
  <2>1. own2[s] \in Pointers(h2)
      BY <1>7, <1>15 DEF Pointers
  <2>2. CASE s = sb
    <3>1. Part(sub2, own2[s]) = {}
        BY <1>10, <2>2
    <3>2. \A x \in U : slot2[x] # sb
        BY <1>2, <1>13
    <3> QED BY <2>1, <2>2, <3>1, <3>2
  <2>3. CASE s = sa
    <3> DEFINE P == {x \in U : slot[x] = sa}
    <3>1. Part(sub, own2[s]) = P /\ back \in P
        BY <1>1, <1>2, <1>15, <2>3
    <3>2. Part(sub2, own2[s]) = P \union G
        BY <1>10, <3>1
    <3>3. \A x \in U : slot2[x] = sa <=> slot[x] = sa \/ slot[x] = sb
        BY <1>2, <1>13
    <3>4. {x \in U : slot2[x] = sa} = P \union G
        BY <1>3, <3>3
    <3> QED BY <2>1, <2>3, <3>2, <3>4
  <2>4. CASE s # sa /\ s # sb
    <3> DEFINE P == {x \in U : slot[x] = s}
    <3>1. Part(sub, own2[s]) = P /\ back \notin P
        BY <1>15, <2>4
    <3>2. Part(sub2, own2[s]) = P
        BY <1>10, <3>1
    <3>3. \A x \in U : slot2[x] = s <=> slot[x] = s
        BY <1>13, <2>4
    <3>4. {x \in U : slot2[x] = s} = P
        BY <3>3
    <3> QED BY <2>1, <3>2, <3>4
  <2> QED BY <2>2, <2>3, <2>4
<1>17. Owned(h2, sub2, own2, slot2)
    BY <1>7, <1>12, <1>14, <1>16 DEF Owned, Parted
<1> QED BY <1>13, <1>17 DEF h2


\* The slot s owns nothing any more.
GivesUp(own, own2, s) ==
    /\ s \in Slots /\ own2[s] \in Statics \union {NULL}
    /\ \A t \in Slots \ {s} : own2[t] = own[t]

\* g is h without what the slot s owned.
Dropped(h, g, slot, s, own2) ==
    /\ InUse(g) = {x \in InUse(h) : slot[x] # s} /\ \A x \in DOMAIN g : g[x] = h[x]
    /\ \E sub2, slot2 : Owned(g, sub2, own2, slot2) /\ \A x \in InUse(g) : slot2[x] = slot[x]

\* What an owner has is freed, and nothing else.
LEMMA DropOwned ==
    ASSUME NEW h, NEW sub, NEW own, NEW slot, Owned(h, sub, own, slot),
           NEW s, NEW own2, GivesUp(own, own2, s)
    PROVE  Dropped(h, Deleted(h, own[s]), slot, s, own2)
<1> SUFFICES ASSUME NEW a, a = own[s] PROVE Dropped(h, Deleted(h, a), slot, s, own2)
    OBVIOUS
<1> USE DEF GivesUp
<1> DEFINE h2 == Deleted(h, a)
           U == InUse(h)
           U2 == InUse(h2)
           P == Part(sub, a)
           sub2 == [x \in U2 |-> sub[x]]
           slot2 == [x \in U2 |-> slot[x]]
<1>0. IsHeap(h) /\ IsForest(h, sub) /\ Parted(h, sub, own, slot)
    BY DEF Owned
<1>1. P = {x \in U : slot[x] = s} /\ a \in Pointers(h)
    BY <1>0 DEF Parted
<1>2. ToSet(Frees(h, a)) = P
    BY <1>0, <1>1, FreesParts DEF Lists1
<1>3. DOMAIN h2 = DOMAIN h \ P /\ \A x \in DOMAIN h2 : h2[x] = h[x]
    BY <1>2 DEF Deleted, Restrict
<1>4. /\ DOMAIN h = U \union Statics /\ U \intersect Statics = {} /\ DOMAIN sub = U
      /\ NULL \notin DOMAIN h
    BY <1>0, Addresses DEF IsForest
<1> HIDE DEF h2
<1>5. U2 = {x \in U : slot[x] # s} /\ Statics \subseteq DOMAIN h2
    BY <1>1, <1>3, <1>4 DEF InUse
<1>6. U2 \subseteq U /\ U2 \subseteq DOMAIN h2
    BY <1>5 DEF InUse
<1>7. \A x \in U2 : \A y \in sub[x] : y \in U2
    BY <1>5, OwnedWhole
<1>8. \A x \in DOMAIN h2 : /\ NameOf(h2, x) = NameOf(h, x) /\ ValueOf(h2, x) = ValueOf(h, x)
                           /\ NextOf(h2, x) = NextOf(h, x)
    BY <1>3 DEF NameOf, ValueOf, NextOf
<1>9. \A x \in U2 : \A c \in Kids(h, x) : c \in Pointers(h2) /\ (c \in U => c \in U2)
  <2> TAKE x \in U2
  <2> TAKE c \in Kids(h, x)
  <2>1. x \in U
      BY <1>6
  <2>2. c \in Pointers(h) /\ (c \in U => sub[c] \subseteq sub[x])
      BY <1>0, <2>1, KidsWithin
  <2>3. c \in U => c \in sub[c]
      BY <1>0, KidsWithin
  <2>4. c \in U => c \in U2
      BY <1>7, <2>2, <2>3
  <2> QED BY <1>4, <1>5, <1>6, <2>2, <2>4 DEF Pointers
<1>10. IsHeap(h2)
  <2>1. U2 \subseteq Memory
      BY <1>0, <1>6 DEF IsHeap
  <2>2. IsFiniteSet(U2)
      BY <1>0, <1>6, FS_Subset DEF IsHeap
  <2>3. \A x \in Statics : h2[x] = StaticHeap[x]
      BY <1>0, <1>3, <1>5 DEF IsHeap
  <2>4. ASSUME NEW x \in U2 PROVE IsNode(h2, h2[x]) /\ Followed(h2, x)
    <3>1. x \in U /\ h2[x] = h[x] /\ IsNode(h, h[x]) /\ Followed(h, x) /\ x \in DOMAIN h2
        BY <1>0, <1>3, <1>6 DEF IsHeap
    <3>2. /\ NameOf(h, x) \in Pointers(h2) /\ ValueOf(h, x) \in Pointers(h2)
          /\ NextOf(h, x) \in U2 \union {NULL}
      <4>1. /\ NameOf(h, x) \in Pointers(h2) /\ ValueOf(h, x) \in Pointers(h2)
            /\ NextOf(h, x) \in U => NextOf(h, x) \in U2
          BY <1>9 DEF Kids
      <4>2. NextOf(h, x) \in U \union {NULL}
          BY <1>0, <1>4, <3>1, NodePointers
      <4> QED BY <4>1, <4>2
    <3>3. IsNode(h2, h2[x])
      <4>1. CASE (h[x].type = "string" /\ IsSequence(h[x].text)) \/ h[x].type = "number"
          BY <3>1, <4>1 DEF IsNode
      <4>2. CASE h[x] \in [type : {"object"}, name : Pointers(h), value : Pointers(h),
                           next : InUse(h) \union {NULL}]
                 /\ (h[x].value # NULL => h[x].name # NULL)
        <5>1. h[x].name \in Pointers(h2) /\ h[x].value \in Pointers(h2)
              /\ h[x].next \in U2 \union {NULL}
            BY <3>2, <4>2 DEF NameOf, ValueOf, NextOf, Lists
        <5>2. h[x] \in [type : {"object"}, name : Pointers(h2), value : Pointers(h2),
                        next : U2 \union {NULL}]
            BY <4>2, <5>1
        <5> QED BY <3>1, <4>2, <5>2 DEF IsNode
      <4>3. CASE h[x] \in [type : {"array"}, value : Pointers(h), next : InUse(h) \union {NULL}]
        <5>1. h[x].value \in Pointers(h2) /\ h[x].next \in U2 \union {NULL}
            BY <3>2, <4>3 DEF NameOf, ValueOf, NextOf, Lists
        <5>2. h[x] \in [type : {"array"}, value : Pointers(h2), next : U2 \union {NULL}]
            BY <4>3, <5>1
        <5> QED BY <3>1, <5>2 DEF IsNode
      <4> QED BY <3>1, <4>1, <4>2, <4>3 DEF IsNode
    <3>4. Followed(h2, x)
      <4> DEFINE m == NextOf(h, x)
      <4>1. NextOf(h2, x) = m /\ m \in U2 \union {NULL}
          BY <1>8, <3>1, <3>2
      <4>2. m # NULL => h[m].type = h[x].type /\ h[m].value # NULL
          BY <3>1 DEF Followed
      <4> HIDE DEF m
      <4>3. m # NULL => h2[m] = h[m]
          BY <1>3, <1>6, <4>1
      <4> QED BY <3>1, <4>1, <4>2, <4>3 DEF Followed
    <3> QED BY <3>3, <3>4
  <2> QED BY <1>5, <2>1, <2>2, <2>3, <2>4 DEF IsHeap
<1>11. \A c : (c \in U => c \in U2) => Part(sub2, c) = Part(sub, c)
    BY <1>4, <1>6 DEF Part
<1>12. IsForest(h2, sub2)
  <2>1. sub2 \in [U2 -> SUBSET U2]
      BY <1>7
  <2>2. ASSUME NEW x \in U2 PROVE Holds(h2, sub2, x)
    <3>1. x \in U /\ x \in DOMAIN h2 /\ sub2[x] = sub[x] /\ Holds(h, sub, x)
        BY <1>0, <1>6 DEF IsForest
    <3>2. /\ Part(sub2, NameOf(h, x)) = Part(sub, NameOf(h, x))
          /\ Part(sub2, ValueOf(h, x)) = Part(sub, ValueOf(h, x))
          /\ Part(sub2, NextOf(h, x)) = Part(sub, NextOf(h, x))
        BY <1>9, <1>11 DEF Kids
    <3> HIDE DEF sub2
    <3> QED BY <1>8, <3>1, <3>2 DEF Holds
  <2> QED BY <2>1, <2>2 DEF IsForest
<1>13. slot2 \in [U2 -> Slots] /\ \A x \in U2 : slot2[x] = slot[x]
    BY <1>0, <1>6 DEF Parted
<1>14. ASSUME NEW t \in Slots
       PROVE  own2[t] \in Pointers(h2) /\ Part(sub2, own2[t]) = {x \in U2 : slot2[x] = t}
  <2>1. CASE t = s
    <3>1. own2[t] \in Pointers(h2) /\ own2[t] \notin U
        BY <1>4, <1>5, <2>1 DEF Pointers
    <3>2. Part(sub2, own2[t]) = {}
        BY <1>4, <1>11, <3>1 DEF Part
    <3>3. {x \in U2 : slot2[x] = t} = {}
        BY <1>5, <1>13, <2>1
    <3> QED BY <3>1, <3>2, <3>3
  <2>2. CASE t # s
    <3>1. own2[t] = own[t] /\ own[t] \in Pointers(h) /\ Part(sub, own[t]) = {x \in U : slot[x] = t}
        BY <1>0, <2>2 DEF Parted
    <3>2. own[t] \in U => own[t] \in U2
      <4>1. own[t] \in U => own[t] \in Part(sub, own[t])
          BY <1>0, <1>4, KidsWithin DEF Part
      <4> QED BY <1>5, <2>2, <3>1, <4>1
    <3>3. own2[t] \in Pointers(h2)
        BY <1>4, <1>5, <1>6, <3>1, <3>2 DEF Pointers
    <3>4. Part(sub2, own2[t]) = {x \in U : slot[x] = t}
        BY <1>11, <3>1, <3>2
    <3>5. {x \in U2 : slot2[x] = t} = {x \in U : slot[x] = t}
        BY <1>5, <1>13, <2>2
    <3> QED BY <3>3, <3>4, <3>5
  <2> QED BY <2>1, <2>2
<1> HIDE DEF sub2, slot2
<1>15. Owned(h2, sub2, own2, slot2)
    BY <1>10, <1>12, <1>13, <1>14 DEF Owned, Parted
<1>16. \E sub3, slot3 : Owned(h2, sub3, own2, slot3) /\ \A x \in U2 : slot3[x] = slot[x]
    BY <1>13, <1>15
<1> QED BY <1>3, <1>5, <1>16 DEF h2, Dropped

\* A value passes from one owner to another.
LEMMA MoveOwned ==
    ASSUME NEW h, NEW sub, NEW own, NEW slot, Owned(h, sub, own, slot),
           NEW s \in Slots, NEW d \in Slots, s # d, Part(sub, own[d]) = {},
           NEW own2, own2[d] = own[s], own2[s] \in Statics \union {NULL},
           \A t \in Slots \ {s, d} : own2[t] = own[t]
    PROVE  \E slot2 :
             /\ Owned(h, sub, own2, slot2)
             /\ \A x \in InUse(h) : slot2[x] = IF slot[x] = s THEN d ELSE slot[x]
<1> DEFINE U == InUse(h)
           slot2 == [x \in U |-> IF slot[x] = s THEN d ELSE slot[x]]
<1>0. IsHeap(h) /\ IsForest(h, sub) /\ Parted(h, sub, own, slot)
    BY DEF Owned
<1>1. \A x \in U : slot[x] \in Slots /\ slot2[x] = IF slot[x] = s THEN d ELSE slot[x]
    BY <1>0 DEF Parted
<1>2. slot2 \in [U -> Slots]
    BY <1>1
<1>3. \A t \in Slots : own[t] \in Pointers(h) /\ Part(sub, own[t]) = {x \in U : slot[x] = t}
    BY <1>0 DEF Parted
<1>4. own2[s] \in Pointers(h) /\ Part(sub, own2[s]) = {}
    BY <1>0, Addresses DEF Pointers, Part, IsForest
<1> HIDE DEF slot2
<1>5. ASSUME NEW t \in Slots
      PROVE  own2[t] \in Pointers(h) /\ Part(sub, own2[t]) = {x \in U : slot2[x] = t}
  <2>1. CASE t = s
    <3>1. {x \in U : slot2[x] = t} = {}
        BY <1>1, <2>1
    <3> QED BY <1>4, <2>1, <3>1
  <2>2. CASE t = d
    <3>1. \A x \in U : slot2[x] = t <=> slot[x] = s
        BY <1>1, <1>3, <2>2
    <3>2. {x \in U : slot2[x] = t} = {x \in U : slot[x] = s}
        BY <3>1
    <3> QED BY <1>3, <2>2, <3>2
  <2>3. CASE t # s /\ t # d
    <3>1. \A x \in U : slot2[x] = t <=> slot[x] = t
        BY <1>1, <2>3
    <3>2. {x \in U : slot2[x] = t} = {x \in U : slot[x] = t}
        BY <3>1
    <3>3. own2[t] = own[t]
        BY <2>3
    <3> QED BY <1>3, <3>2, <3>3
  <2> QED BY <2>1, <2>2, <2>3
<1>6. Owned(h, sub, own2, slot2)
    BY <1>0, <1>2, <1>5 DEF Owned, Parted
<1> QED BY <1>1, <1>6

\* Pointers that are NULL or to a true, false or null own nothing.
LEMMA SameOwned ==
    ASSUME NEW h, NEW sub, NEW own, NEW slot, Owned(h, sub, own, slot), NEW own2,
           \A t \in Slots : \/ own2[t] = own[t]
                            \/ /\ own2[t] \in Statics \union {NULL}
                               /\ own[t] \in Statics \union {NULL}
    PROVE  Owned(h, sub, own2, slot)
<1>1. IsHeap(h) /\ IsForest(h, sub) /\ Parted(h, sub, own, slot)
    BY DEF Owned
<1>2. \A a \in Statics \union {NULL} : a \in Pointers(h) /\ Part(sub, a) = {}
    BY <1>1, Addresses DEF Pointers, Part, IsForest
<1>3. \A t \in Slots : own2[t] \in Pointers(h) /\ Part(sub, own2[t]) = Part(sub, own[t])
    BY <1>1, <1>2 DEF Parted
<1> QED BY <1>1, <1>3 DEF Owned, Parted

(***************************************************************************)
(* Texts.                                                                  *)
(***************************************************************************)

\* A C string.
IsText(t) == IsSequence(t) /\ Len(t) # 0 /\ t[Len(t)] = 0

LEMMA Sequences ==
    ASSUME NEW C, NEW s \in Seq(C)
    PROVE  IsSequence(s) /\ ToSet(s) \subseteq C
<1>1. Len(s) \in Nat /\ s \in [1..Len(s) -> C] /\ DOMAIN s = 1..Len(s)
    OBVIOUS
<1>2. \A i \in 1..Len(s) : s[i] \in ToSet(s)
    BY <1>1 DEF ToSet
<1>3. s \in Seq(ToSet(s))
    BY <1>1, <1>2
<1>4. ToSet(s) \subseteq C
    BY <1>1 DEF ToSet
<1> QED BY <1>3, <1>4 DEF IsSequence

LEMMA TextLength ==
    ASSUME NEW t, IsText(t)
    PROVE  Len(t) \in Nat /\ Len(t) \in 1..Len(t) /\ t[Len(t)] = 0
BY DEF IsText, IsSequence

\* No scan goes beyond the '\0'.
LEMMA PastStays ==
    ASSUME NEW t, IsText(t), NEW p \in 1..Len(t), NEW S, 0 \notin S
    PROVE  /\ Past(S, t, p) \in p..Len(t) /\ Past(S, t, p) \in 1..Len(t)
           /\ t[Past(S, t, p)] \notin S
<1> DEFINE n == Len(t)
           T == {q \in p..n : t[q] \notin S}
<1>1. n \in Nat /\ n \in 1..n /\ t[n] = 0 /\ p \in Nat
    BY TextLength
<1>2. T \in SUBSET Nat /\ T # {}
    BY <1>1
<1>3. PICK q \in T : \A r \in T : q <= r
    BY <1>2, LeastNumber
<1>4. q \in p..n /\ t[q] \notin S /\ \A r \in p..(q - 1) : t[r] \in S
  <2>1. ASSUME NEW r \in p..(q - 1) PROVE t[r] \in S
    <3>1. r \in p..n /\ ~(q <= r)
        BY <1>1, <1>3
    <3> QED BY <1>3, <3>1
  <2> QED BY <1>3, <2>1
<1>5. \E w \in p..n : t[w] \notin S /\ \A r \in p..(w - 1) : t[r] \in S
    BY <1>4
<1>6. Past(S, t, p) \in p..n /\ t[Past(S, t, p)] \notin S
    BY <1>5 DEF Past
<1>7. \A w \in p..n : w \in 1..n
    BY <1>1
<1> QED BY <1>6, <1>7

LEMMA SkipsWhiteSpace ==
    ASSUME NEW t, IsText(t), NEW p \in 1..Len(t)
    PROVE  SkipWhiteSpace(t, p) \in p..Len(t) /\ SkipWhiteSpace(t, p) \in 1..Len(t)
<1>1. 0 \notin WhiteSpace
    BY DEF WhiteSpace
<1> QED BY <1>1, PastStays DEF SkipWhiteSpace

\* There is a character behind each that is not the '\0'.
LEMMA NextCharacter ==
    ASSUME NEW t, IsText(t), NEW p \in 1..Len(t), t[p] # 0
    PROVE  p + 1 \in 1..Len(t) /\ p \in Nat
BY TextLength

LEMMA SkipsString ==
    ASSUME NEW t, IsText(t), NEW p \in 1..Len(t)
    PROVE  /\ SkipString(t, p) \in p..Len(t) /\ SkipString(t, p) \in 1..Len(t)
           /\ t[SkipString(t, p)] \in {0, Quote}
<1> DEFINE T == {q \in p..Len(t) : t[q] = 0 \/ (t[q] = Quote /\ t[q - 1] # Backslash)}
<1>1. T \in SUBSET Nat /\ Len(t) \in T
    BY TextLength
<1>2. SkipString(t, p) = Min(T)
    BY DEF SkipString
<1>3. /\ T \subseteq p..Len(t) /\ p..Len(t) \subseteq 1..Len(t)
      /\ \A q \in T : t[q] \in {0, Quote}
    BY TextLength
<1> HIDE DEF T
<1>4. Min(T) \in T
    BY <1>1, LeastFree
<1> QED BY <1>2, <1>3, <1>4

LEMMA ReadsNumbers ==
    ASSUME NEW t, IsText(t), NEW p \in 1..Len(t), t[p] \in Digit \union {Minus}
    PROVE  ReadNumber(t, p).pos \in 1..Len(t) /\ ReadNumber(t, p).node.type = "number"
<1> DEFINE b == IF t[p] = Minus THEN p + 1 ELSE p
           q == Past(Digit, t, b)
           f == Past(Digit, t, q + 1)
           s == IF t[f + 1] \in {43, Minus} THEN f + 2 ELSE f + 1
           x == Past(Digit, t, s)
<1>1. 0 \notin Digit /\ Minus # 0 /\ Dot # 0 /\ 0 \notin {43, Minus} /\ 0 \notin {69, 101}
    BY DEF Digit, Minus, Dot
<1>2. b \in 1..Len(t)
    BY <1>1, NextCharacter
<1> HIDE DEF b
<1>3. q \in 1..Len(t)
    BY <1>1, <1>2, PastStays
<1>4. ReadNumber(t, p).node.type = "number"
    BY DEF ReadNumber, IntNumber, FloatNumber
<1>5. ReadNumber(t, p).pos = IF t[q] # Dot THEN q ELSE IF t[f] \in {69, 101} THEN x ELSE f
    BY DEF ReadNumber, b
<1> HIDE DEF q
<1>6. CASE t[q] = Dot
  <2>1. q + 1 \in 1..Len(t)
      BY <1>1, <1>3, <1>6, NextCharacter
  <2>2. f \in 1..Len(t)
      BY <1>1, <2>1, PastStays
  <2> HIDE DEF f
  <2>3. CASE t[f] \in {69, 101}
    <3>1. f + 1 \in 1..Len(t) /\ f \in Nat
        BY <1>1, <2>2, <2>3, NextCharacter
    <3>2. t[f + 1] \in {43, Minus} => (f + 1) + 1 \in 1..Len(t)
        BY <1>1, <3>1, NextCharacter
    <3>3. s \in 1..Len(t)
        BY <3>1, <3>2
    <3> HIDE DEF s
    <3>4. x \in 1..Len(t)
        BY <1>1, <3>3, PastStays
    <3> QED BY <1>4, <1>5, <1>6, <2>3, <3>4
  <2> QED BY <1>4, <1>5, <1>6, <2>2, <2>3
<1> QED BY <1>3, <1>4, <1>5, <1>6

LEMMA StringsAreSequences ==
    ASSUME NEW s, IsSequence(s)
    PROVE  String(s).type = "string" /\ IsSequence(String(s).text)
<1> DEFINE r == [i \in DOMAIN s |-> IF \E j \in 1..i : s[j] = 0 THEN 0 ELSE s[i]]
<1>1. DOMAIN s = 1..Len(s) /\ Len(s) \in Nat /\ \A i \in 1..Len(s) : s[i] \in ToSet(s)
    BY DEF IsSequence
<1>2. r \in [1..Len(s) -> ToSet(s) \union {0}]
    BY <1>1
<1>3. r \in Seq(ToSet(s) \union {0})
    BY <1>1, <1>2
<1>4. IsSequence(r)
    BY <1>3, Sequences
<1> QED BY <1>4 DEF String

UnescapedAll(t, end, f) ==
    [j \in Nat |->
        IF j >= end THEN <<>>
        ELSE IF t[j] # Backslash THEN <<t[j]>> \o f[j + 1]
        ELSE IF t[j + 1] # 117 THEN <<Unescape(t[j + 1])>> \o f[j + 2]
        ELSE <<Hex2Char(t[j + 2], t[j + 3]), Hex2Char(t[j + 4], t[j + 5])>> \o f[j + 6]]

\* What stands for the characters of t from j on, and how many they are.
ReadAt(t, j) ==
    IF t[j] # Backslash THEN <<t[j]>>
    ELSE IF t[j + 1] # 117 THEN <<Unescape(t[j + 1])>>
    ELSE <<Hex2Char(t[j + 2], t[j + 3]), Hex2Char(t[j + 4], t[j + 5])>>

PassedAt(t, j) == IF t[j] # Backslash THEN 1 ELSE IF t[j + 1] # 117 THEN 2 ELSE 6

LEMMA UnescapedSequence ==
    ASSUME NEW t, NEW end \in Nat
    PROVE  \A i \in Nat :
             /\ IsSequence(Unescaped(t, i, end))
             /\ Unescaped(t, i, end) = IF i >= end THEN <<>>
                                       ELSE ReadAt(t, i) \o Unescaped(t, i + PassedAt(t, i), end)
             /\ i + PassedAt(t, i) \in Nat /\ i < i + PassedAt(t, i)
<1> DEFINE C == {t[j] : j \in Nat} \union {Unescape(t[j]) : j \in Nat}
                \union {Hex2Char(t[j], t[j + 1]) : j \in Nat}
           V == Seq(C)
           U(f) == UnescapedAll(t, end, f)
           rank == [j \in Nat |-> IF j >= end THEN 0 ELSE end - j]
           step == [f \in [Nat -> V] |-> U(f)]
           from == CHOOSE f : f = U(f)
<1>1. \A j \in Nat : ReadAt(t, j) \in V
  <2> TAKE j \in Nat
  <2>1. /\ j + 1 \in Nat /\ j + 2 \in Nat /\ j + 4 \in Nat
        /\ (j + 2) + 1 = j + 3 /\ (j + 4) + 1 = j + 5
      OBVIOUS
  <2>2. /\ t[j] \in C /\ Unescape(t[j + 1]) \in C /\ Hex2Char(t[j + 2], t[(j + 2) + 1]) \in C
        /\ Hex2Char(t[j + 4], t[(j + 4) + 1]) \in C
      BY <2>1
  <2>3. Hex2Char(t[j + 2], t[j + 3]) \in C /\ Hex2Char(t[j + 4], t[j + 5]) \in C
      BY <2>1, <2>2
  <2> HIDE DEF C
  <2> QED BY <2>2, <2>3 DEF ReadAt
<1>2. <<>> \in V /\ \A s, r \in V : s \o r \in V
    BY ConcatReads
<1>3. \A f : U(f) = [j \in Nat |-> U(f)[j]]
    BY DEF UnescapedAll
<1>4. \A f : \A j \in Nat : U(f)[j] = IF j >= end THEN <<>> ELSE ReadAt(t, j) \o f[j + PassedAt(t, j)]
    BY DEF UnescapedAll, ReadAt, PassedAt
<1>5. \A j \in Nat : j + PassedAt(t, j) \in Nat /\ j < j + PassedAt(t, j)
    BY DEF PassedAt
<1>6. rank \in [Nat -> 0..end]
    OBVIOUS
<1>7. \A j, l \in Nat : ~(j >= end) /\ j < l => rank[l] < rank[j]
    OBVIOUS
<1> HIDE DEF V, U, rank, step, from
<1>8. \A f \in [Nat -> V] : U(f) \in [Nat -> V]
  <2> TAKE f \in [Nat -> V]
  <2>1. \A j \in Nat : U(f)[j] \in V
      BY <1>1, <1>2, <1>4, <1>5
  <2> QED BY <1>3, <2>1
<1>9. step \in [[Nat -> V] -> [Nat -> V]] /\ \A f \in [Nat -> V] : step[f] = U(f)
    BY <1>8 DEF step
<1>10. ASSUME NEW f \in [Nat -> V], NEW g \in [Nat -> V], NEW x \in Nat,
              \A y \in Nat : rank[y] < rank[x] => f[y] = g[y]
       PROVE  U(f)[x] = U(g)[x]
  <2>1. CASE x >= end
      BY <1>4, <2>1
  <2>2. CASE ~(x >= end)
    <3>1. f[x + PassedAt(t, x)] = g[x + PassedAt(t, x)]
        BY <1>5, <1>7, <1>10, <2>2
    <3> QED BY <1>4, <2>2, <3>1
  <2> QED BY <2>1, <2>2
<1>11. Grounded(Nat, V, rank, step)
  <2> SUFFICES ASSUME NEW f \in [Nat -> V], NEW g \in [Nat -> V], NEW x \in Nat,
                      \A y \in Nat : rank[y] < rank[x] => f[y] = g[y]
               PROVE  step[f][x] = step[g][x]
      BY DEF Grounded
  <2>1. U(f)[x] = U(g)[x]
      BY <1>10
  <2>2. step[f] = U(f) /\ step[g] = U(g)
      BY <1>9
  <2> QED BY <2>1, <2>2
<1>12. \E f \in [Nat -> V] : Unfolds(step, f)
  <2> DEFINE D == Nat
  <2>1. /\ rank \in [D -> 0..end] /\ step \in [[D -> V] -> [D -> V]] /\ Grounded(D, V, rank, step)
        /\ V # {}
      BY <1>2, <1>6, <1>9, <1>11
  <2> HIDE DEF D
  <2>2. \E f \in [D -> V] : Unfolds(step, f)
      BY <2>1, RecursionExists
  <2> QED BY <2>2 DEF D
<1>13. \E f : f = U(f)
    BY <1>9, <1>12 DEF Unfolds
<1>14. from = U(from)
    BY <1>13 DEF from
<1>15. \A j \in Nat : Unescaped(t, j, end) = from[j]
    BY DEF Unescaped, from, U, UnescapedAll
<1> DEFINE B == {j \in Nat : from[j] \notin V}
           m == [j \in B |-> rank[j]]
<1>16. B = {}
  <2> SUFFICES ASSUME B # {} PROVE FALSE
      OBVIOUS
  <2>1. m \in [B -> Nat] /\ \A j \in B : m[j] = rank[j]
      BY <1>6
  <2> HIDE DEF m
  <2>2. PICK x \in B : \A y \in B : m[x] <= m[y]
      BY <2>1, LeastMeasure
  <2>3. from[x] = IF x >= end THEN <<>> ELSE ReadAt(t, x) \o from[x + PassedAt(t, x)]
      BY <1>4, <1>14
  <2>4. CASE x >= end
      BY <1>2, <2>3, <2>4
  <2>5. CASE ~(x >= end)
    <3> DEFINE y == x + PassedAt(t, x)
    <3>1. y \in Nat /\ rank[y] < rank[x]
        BY <1>5, <1>7, <2>5
    <3>2. y \notin B
      <4> SUFFICES ASSUME y \in B PROVE FALSE
          OBVIOUS
      <4>1. m[x] <= m[y] /\ m[y] = rank[y] /\ m[x] = rank[x] /\ rank[x] \in Nat /\ rank[y] \in Nat
          BY <1>6, <2>1, <2>2, <3>1
      <4> QED BY <3>1, <4>1
    <3>3. from[y] \in V
        BY <3>1, <3>2
    <3> QED BY <1>1, <1>2, <2>3, <2>5, <3>3
  <2> QED BY <2>4, <2>5
<1>17. \A j \in Nat : IsSequence(from[j])
    BY <1>16, Sequences DEF V
<1>18. \A j \in Nat :
         from[j] = IF j >= end THEN <<>> ELSE ReadAt(t, j) \o from[j + PassedAt(t, j)]
    BY <1>4, <1>14
<1> QED BY <1>5, <1>15, <1>17, <1>18

LEMMA SequencesJoin ==
    ASSUME NEW s, IsSequence(s), NEW t, IsSequence(t)
    PROVE  IsSequence(s \o t)
<1> DEFINE C == ToSet(s) \union ToSet(t)
<1>1. s \in Seq(ToSet(s)) /\ t \in Seq(ToSet(t))
    BY DEF IsSequence
<1>2. s \in Seq(C) /\ t \in Seq(C)
    BY <1>1
<1> HIDE DEF C
<1>3. s \o t \in Seq(C)
    BY <1>2
<1> QED BY <1>3, Sequences

LEMMA ShortSequences ==
    /\ IsSequence(<<>>)
    /\ \A x : IsSequence(<<x>>)
<1>1. <<>> \in Seq({})
    OBVIOUS
<1>2. IsSequence(<<>>)
    BY <1>1, Sequences
<1>3. ASSUME NEW x PROVE IsSequence(<<x>>)
  <2>1. <<x>> \in Seq({x})
      OBVIOUS
  <2> QED BY <2>1, Sequences
<1> QED BY <1>2, <1>3

(***************************************************************************)
(* Printing gives a text.                                                  *)
(***************************************************************************)
LEMMA Greatest ==
    ASSUME NEW n \in Nat, NEW S \in SUBSET (0..n), S # {}
    PROVE  Max(S) \in S
<1> DEFINE T == {n - x : x \in S}
<1>1. \A x \in S : x \in Nat /\ n - x \in Nat /\ n - x \in T
    OBVIOUS
<1>2. T \in SUBSET Nat /\ T # {}
    BY <1>1
<1>3. PICK d \in T : \A e \in T : d <= e
    BY <1>2, LeastNumber
<1>4. PICK x \in S : d = n - x
    OBVIOUS
<1> HIDE DEF T
<1>5. \A y \in S : x >= y
    BY <1>1, <1>3, <1>4
<1> QED BY <1>5 DEF Max

LEMMA DigitsSequence ==
    ASSUME NEW v, NEW n \in Nat
    PROVE  IsSequence(Digits(v, n))
<1> DEFINE S == {1, n} \union {i \in 1..MaxDigits : 10 ^ (i - 1) <= v}
           d == Max(S)
           C == {48 + ((v \div 10 ^ (d - i)) % 10) : i \in 1..d}
<1>1. n + MaxDigits + 1 \in Nat /\ S \in SUBSET (0..(n + MaxDigits + 1)) /\ S # {}
    BY TextAssumption
<1>2. Digits(v, n) = [i \in 1..d |-> 48 + ((v \div 10 ^ (d - i)) % 10)]
    BY DEF Digits
<1> HIDE DEF S
<1>3. d \in Nat
  <2> DEFINE k == n + MaxDigits + 1
  <2>1. k \in Nat /\ S \in SUBSET (0..k) /\ S # {}
      BY <1>1
  <2> HIDE DEF k
  <2>2. Max(S) \in S
      BY <2>1, Greatest
  <2>3. \A x \in S : x \in Nat
      BY <2>1
  <2> QED BY <2>2, <2>3
<1>4. Digits(v, n) \in Seq(C)
    BY <1>2, <1>3
<1> HIDE DEF C
<1> QED BY <1>4, Sequences

LEMMA NumberSequence ==
    ASSUME NEW num
    PROVE  IsSequence(NumberText(num))
<1>1. /\ IsSequence(IF num.part_int < 0 THEN <<Minus>> ELSE <<>>)
      /\ IsSequence(IF num.part_float < 0 THEN <<Minus>> ELSE <<>>)
      /\ IsSequence(<<Dot>>)
    BY ShortSequences
<1>2. /\ IsSequence(Digits(Abs(num.part_int), 1))
      /\ IsSequence(Digits(Abs(num.part_float) \div Unit, 1))
      /\ IsSequence(Digits(Abs(num.part_float) % Unit, Decimals))
    BY DigitsSequence, TextAssumption
<1>3. IsSequence((IF num.part_int < 0 THEN <<Minus>> ELSE <<>>) \o Digits(Abs(num.part_int), 1))
    BY <1>1, <1>2, SequencesJoin
<1>4. IsSequence((IF num.part_float < 0 THEN <<Minus>> ELSE <<>>)
                 \o Digits(Abs(num.part_float) \div Unit, 1))
    BY <1>1, <1>2, SequencesJoin
<1>5. IsSequence((IF num.part_float < 0 THEN <<Minus>> ELSE <<>>)
                 \o Digits(Abs(num.part_float) \div Unit, 1) \o <<Dot>>)
    BY <1>1, <1>4, SequencesJoin
<1>6. IsSequence((IF num.part_float < 0 THEN <<Minus>> ELSE <<>>)
                 \o Digits(Abs(num.part_float) \div Unit, 1) \o <<Dot>>
                 \o Digits(Abs(num.part_float) % Unit, Decimals))
    BY <1>2, <1>5, SequencesJoin
<1> QED BY <1>3, <1>6 DEF NumberText

LEMMA CStringSequence ==
    ASSUME NEW s, IsSequence(s)
    PROVE  IsSequence(CString(s))
<1> DEFINE I == {i \in 1..Len(s) : s[i] = 0}
           z == SelectInSeq(s, LAMBDA c : c = 0)
<1>1. s \in Seq(ToSet(s)) /\ Len(s) \in Nat
    BY DEF IsSequence
<1>2. z = IF I # {} THEN Min(I) ELSE 0
    BY DEF SelectInSeq
<1>3. CString(s) = IF z = 0 THEN s ELSE SubSeq(s, 1, z - 1)
    BY DEF CString
<1>4. I \in SUBSET Nat /\ I \subseteq 1..Len(s)
    BY <1>1
<1> HIDE DEF I, z
<1>5. z # 0 => z \in 1..Len(s)
    BY <1>2, <1>4, LeastFree
<1>6. z # 0 => SubSeq(s, 1, z - 1) \in Seq(ToSet(s))
    BY <1>1, <1>5
<1>7. CString(s) \in Seq(ToSet(s))
    BY <1>1, <1>3, <1>6
<1> QED BY <1>7, Sequences

LEMMA EscapedSequence ==
    ASSUME NEW s, IsSequence(s)
    PROVE  IsSequence(Escaped(s))
<1> DEFINE C == ToSet(s) \union {Backslash}
           e == [i \in DOMAIN s |->
                   IF s[i] \in {Quote, Backslash} THEN <<Backslash, s[i]>> ELSE <<s[i]>>]
<1>1. s \in Seq(ToSet(s)) /\ DOMAIN s = 1..Len(s) /\ Len(s) \in Nat
    BY DEF IsSequence
<1>2. \A i \in 1..Len(s) : s[i] \in C /\ Backslash \in C
    BY <1>1
<1> HIDE DEF C
<1>3. \A i \in 1..Len(s) : <<Backslash, s[i]>> \in Seq(C) /\ <<s[i]>> \in Seq(C)
    BY <1>2
<1>4. e \in Seq(Seq(C))
    BY <1>1, <1>3
<1>5. Escaped(s) = FlattenSeq(e)
    BY DEF Escaped
<1> HIDE DEF e
<1>6. Escaped(s) \in Seq(C)
  <2>1. <<>> \in Seq(C)
      OBVIOUS
  <2> QED BY <1>4, <1>5, <2>1, FlattenGrows
<1> QED BY <1>6, Sequences

LEMMA ListedSequence ==
    ASSUME NEW C, Comma \in C, 32 \in C, NEW T \in Seq(Seq(C))
    PROVE  Listed(T) \in Seq(C)
<1> DEFINE e == [i \in DOMAIN T |-> IF i = 1 THEN T[i] ELSE <<Comma, 32>> \o T[i]]
<1>1. DOMAIN T = 1..Len(T) /\ Len(T) \in Nat /\ \A i \in 1..Len(T) : T[i] \in Seq(C)
    OBVIOUS
<1>2. <<Comma, 32>> \in Seq(C) /\ <<>> \in Seq(C)
    OBVIOUS
<1>3. \A i \in 1..Len(T) : <<Comma, 32>> \o T[i] \in Seq(C)
    BY <1>1, <1>2, ConcatReads
<1>4. e \in Seq(Seq(C))
    BY <1>1, <1>3
<1>5. Listed(T) = FlattenSeq(e)
    BY DEF Listed
<1> HIDE DEF e
<1> QED BY <1>2, <1>4, <1>5, FlattenGrows


\* What stands in the items of a list is of lower rank than the list.
LEMMA ItemsRank ==
    ASSUME NEW h, NEW sub, IsHeap(h), IsForest(h, sub), NEW x \in ListNodes(h)
    PROVE  /\ Items(h, x) \in Seq(Int)
           /\ \A i \in 1..Len(Items(h, x)) :
                /\ h[Items(h, x)[i]].value \in DOMAIN h
                /\ Rank(h, sub)[h[Items(h, x)[i]].value] < Rank(h, sub)[x]
                /\ h[x].type = "object" =>
                     /\ h[Items(h, x)[i]].name \in DOMAIN h
                     /\ Rank(h, sub)[h[Items(h, x)[i]].name] < Rank(h, sub)[x]
<1>1. CASE h[x].value = NULL
  <2>1. Items(h, x) = <<>>
      BY <1>1 DEF Items
  <2> QED BY <2>1
<1>2. CASE h[x].value # NULL
  <2>1. Items(h, x) = Nodes(h, x) /\ Chain(h, sub, x, Nodes(h, x))
      BY <1>2, NodesChain DEF Items
  <2>2. x \in InUse(h) /\ h[x].type \in Lists
      BY ListNodesInUse DEF ListNodes, Lists
  <2> DEFINE s == Nodes(h, x)
             R == Rank(h, sub)
  <2> HIDE DEF s
  <2>3. ASSUME NEW i \in 1..Len(s)
        PROVE  /\ h[s[i]].value \in DOMAIN h
               /\ R[h[s[i]].value] < R[x]
               /\ h[x].type = "object" => h[s[i]].name \in DOMAIN h /\ R[h[s[i]].name] < R[x]
    <3> DEFINE y == s[i]
    <3>1. y \in sub[x] /\ h[y].type = h[x].type /\ (y = x \/ h[y].value # NULL)
        BY <2>1, <2>3 DEF Chain, s
    <3> HIDE DEF y
    <3>2. y \in InUse(h) /\ (y # x => R[y] < R[x])
        BY <2>2, <3>1, PartsNest
    <3>3. h[y].value # NULL /\ h[y].type \in Lists
        BY <1>2, <2>2, <3>1
    <3>4. /\ ValueOf(h, y) = h[y].value
          /\ h[x].type = "object" => NameOf(h, y) = h[y].name
        BY <3>1, <3>3 DEF ValueOf, NameOf
    <3>5. IsNode(h, h[y])
        BY <3>2 DEF IsHeap
    <3>6. h[x].type = "object" => h[y].name # NULL
        BY <3>1, <3>3, <3>5 DEF IsNode
    <3>7. Kids(h, y) \subseteq Pointers(h)
        BY <3>2, KidsWithin
    <3>8. /\ h[y].value \in DOMAIN h
          /\ h[x].type = "object" => h[y].name \in DOMAIN h
        BY <3>3, <3>4, <3>6, <3>7 DEF Kids, Pointers
    <3>9. \A c \in Kids(h, y) : c \in Int /\ R[c] < R[y]
        BY <3>2, KidsRank
    <3> DEFINE N == Cardinality(InUse(h))
    <3>10. N \in Nat /\ R \in [Int -> 0..N] /\ x \in Int /\ y \in Int
        BY <2>2, <3>2, KidsRank
    <3> HIDE DEF N, R
    <3>11. \A c \in Kids(h, y) : R[c] < R[x]
      <4> TAKE c \in Kids(h, y)
      <4>1. R[c] \in Nat /\ R[y] \in Nat /\ R[x] \in Nat
          BY <3>9, <3>10
      <4> QED BY <3>2, <3>9, <4>1
    <3>12. h[y].value \in Kids(h, y) /\ (h[x].type = "object" => h[y].name \in Kids(h, y))
        BY <3>4 DEF Kids
    <3> QED BY <3>8, <3>11, <3>12 DEF y
  <2>4. s \in Seq(Int)
      BY <2>1 DEF Chain, s
  <2> QED BY <2>1, <2>3, <2>4 DEF s
<1> QED BY <1>1, <1>2

LEMMA ItemTextsSequence ==
    ASSUME NEW h, NEW sub, IsHeap(h), IsForest(h, sub), NEW x \in ListNodes(h),
           NEW C, Colon \in C, NEW f \in [DOMAIN h -> Seq(C)]
    PROVE  ItemTexts(h, f, x) \in Seq(Seq(C))
<1> DEFINE s == Items(h, x)
<1>1. s \in Seq(Int) /\ DOMAIN s = 1..Len(s) /\ Len(s) \in Nat
    BY ItemsRank
<1>2. \A i \in 1..Len(s) : /\ h[s[i]].value \in DOMAIN h
                           /\ h[x].type = "object" => h[s[i]].name \in DOMAIN h
    BY ItemsRank
<1> HIDE DEF s
<1>3. /\ h[x].type = "object" =>
           ItemTexts(h, f, x) =
             [i \in 1..Len(s) |-> f[h[s[i]].name] \o <<Colon>> \o f[h[s[i]].value]]
      /\ h[x].type # "object" => ItemTexts(h, f, x) = [i \in 1..Len(s) |-> f[h[s[i]].value]]
    BY <1>1 DEF ItemTexts, s
<1>4. \A i \in 1..Len(s) : /\ f[h[s[i]].value] \in Seq(C)
                           /\ h[x].type = "object" => f[h[s[i]].name] \in Seq(C)
    BY <1>2
<1>5. <<Colon>> \in Seq(C)
    OBVIOUS
<1>6. \A u, v \in Seq(C) : u \o <<Colon>> \o v \in Seq(C)
  <2> TAKE u, v \in Seq(C)
  <2>1. u \o <<Colon>> \in Seq(C)
      BY <1>5, ConcatReads
  <2> QED BY <2>1, ConcatReads
<1>7. CASE h[x].type = "object"
  <2> DEFINE V == Seq(C)
             e == [i \in 1..Len(s) |-> f[h[s[i]].name] \o <<Colon>> \o f[h[s[i]].value]]
  <2>1. \A i \in 1..Len(s) : f[h[s[i]].name] \o <<Colon>> \o f[h[s[i]].value] \in V
      BY <1>4, <1>6, <1>7
  <2> HIDE DEF V
  <2>2. e \in Seq(V)
      BY <1>1, <2>1
  <2>3. ItemTexts(h, f, x) = e
      BY <1>3, <1>7
  <2> HIDE DEF e
  <2> QED BY <2>2, <2>3 DEF V
<1>8. CASE h[x].type # "object"
  <2> DEFINE V == Seq(C)
             e == [i \in 1..Len(s) |-> f[h[s[i]].value]]
  <2>1. \A i \in 1..Len(s) : f[h[s[i]].value] \in V
      BY <1>4
  <2> HIDE DEF V
  <2>2. e \in Seq(V)
      BY <1>1, <2>1
  <2>3. ItemTexts(h, f, x) = e
      BY <1>3, <1>8
  <2> HIDE DEF e
  <2> QED BY <2>2, <2>3 DEF V
<1> QED BY <1>7, <1>8


LeafText(h, x) ==
    CASE h[x].type = "string" -> <<Quote>> \o CString(Escaped(h[x].text)) \o <<Quote>>
      [] h[x].type = "number" -> NumberText(h[x])
      [] h[x].type = "true" -> TrueWord
      [] h[x].type = "false" -> FalseWord
      [] h[x].type = "null" -> NullWord

LEMMA LeafSequence ==
    ASSUME NEW h, IsHeap(h), NEW x \in DOMAIN h, h[x].type \notin Lists
    PROVE  IsSequence(LeafText(h, x))
<1>1. h[x].type \in {"string", "number", "true", "false", "null"}
    BY NodeTypes DEF InUse, Lists
<1>2. CASE h[x].type = "string"
  <2>1. x \in InUse(h)
      BY <1>2, NodeTypes DEF InUse
  <2>2. IsNode(h, h[x])
      BY <2>1 DEF IsHeap
  <2>3. IsSequence(h[x].text)
      BY <1>2, <2>2 DEF IsNode
  <2>4. IsSequence(CString(Escaped(h[x].text)))
      BY <2>3, EscapedSequence, CStringSequence
  <2>5. IsSequence(<<Quote>>)
      BY ShortSequences
  <2>6. IsSequence(<<Quote>> \o CString(Escaped(h[x].text)))
      BY <2>4, <2>5, SequencesJoin
  <2>7. IsSequence(<<Quote>> \o CString(Escaped(h[x].text)) \o <<Quote>>)
      BY <2>5, <2>6, SequencesJoin
  <2> QED BY <1>2, <2>7 DEF LeafText
<1>3. CASE h[x].type = "number"
    BY <1>3, NumberSequence DEF LeafText
<1>4. TrueWord \in Seq(Nat) /\ FalseWord \in Seq(Nat) /\ NullWord \in Seq(Nat)
    BY DEF TrueWord, FalseWord, NullWord
<1>5. IsSequence(TrueWord) /\ IsSequence(FalseWord) /\ IsSequence(NullWord)
    BY <1>4, Sequences
<1>6. CASE h[x].type \in {"true", "false", "null"}
    BY <1>5, <1>6 DEF LeafText
<1> QED BY <1>1, <1>2, <1>3, <1>6

PrintedAll(h, f) == [x \in DOMAIN h |-> TextOf(h, f, x)]

LEMMA TextForms ==
    ASSUME NEW h, IsHeap(h), NEW f, NEW x \in DOMAIN h
    PROVE  /\ h[x].type = "object" =>
                TextOf(h, f, x) = <<OpenObject>> \o Listed(ItemTexts(h, f, x)) \o <<CloseObject>>
           /\ h[x].type = "array" =>
                TextOf(h, f, x) = <<OpenArray>> \o Listed(ItemTexts(h, f, x)) \o <<CloseArray>>
           /\ h[x].type \notin Lists => TextOf(h, f, x) = LeafText(h, x)
<1>1. h[x].type \in Lists \union {"string", "number", "true", "false", "null"}
    BY NodeTypes DEF InUse, Lists
<1>2. h[x].type = "object" =>
          TextOf(h, f, x) = <<OpenObject>> \o Listed(ItemTexts(h, f, x)) \o <<CloseObject>>
    BY DEF TextOf
<1>3. h[x].type = "array" =>
          TextOf(h, f, x) = <<OpenArray>> \o Listed(ItemTexts(h, f, x)) \o <<CloseArray>>
    BY DEF TextOf
<1>4. h[x].type \notin Lists => TextOf(h, f, x) = LeafText(h, x)
    BY <1>1 DEF TextOf, LeafText, Lists
<1> QED BY <1>2, <1>3, <1>4

\* What a value prints as depends on values of lower rank only.
LEMMA PrintedGrounded ==
    ASSUME NEW h, NEW sub, IsHeap(h), IsForest(h, sub), NEW x \in DOMAIN h, NEW f, NEW g,
           \A y \in DOMAIN h : Rank(h, sub)[y] < Rank(h, sub)[x] => f[y] = g[y]
    PROVE  TextOf(h, f, x) = TextOf(h, g, x)
<1>1. CASE x \in ListNodes(h)
  <2> DEFINE s == Items(h, x)
  <2>1. DOMAIN s = 1..Len(s)
      BY <1>1, ItemsRank
  <2>2. \A i \in 1..Len(s) :
            /\ f[h[s[i]].value] = g[h[s[i]].value]
            /\ h[x].type = "object" => f[h[s[i]].name] = g[h[s[i]].name]
      BY <1>1, ItemsRank
  <2> HIDE DEF s
  <2>3. ItemTexts(h, f, x) = ItemTexts(h, g, x)
      BY <2>1, <2>2 DEF ItemTexts, s
  <2>4. h[x].type \in {"object", "array"}
      BY <1>1 DEF ListNodes
  <2> QED BY <2>3, <2>4, TextForms
<1>2. CASE x \notin ListNodes(h)
  <2>1. h[x].type \notin Lists
      BY <1>2 DEF ListNodes, Lists
  <2>2. TextOf(h, f, x) = LeafText(h, x) /\ TextOf(h, g, x) = LeafText(h, x)
      BY <2>1, TextForms
  <2> QED BY <2>2
<1> QED BY <1>1, <1>2

LEMMA PrintedStep ==
    ASSUME NEW h, NEW sub, IsHeap(h), IsForest(h, sub),
           NEW C, Int \subseteq C,
           \A x \in DOMAIN h : h[x].type \notin Lists => ToSet(LeafText(h, x)) \subseteq C,
           NEW f \in [DOMAIN h -> Seq(C)]
    PROVE  PrintedAll(h, f) \in [DOMAIN h -> Seq(C)]
<1>1. ASSUME NEW x \in DOMAIN h PROVE TextOf(h, f, x) \in Seq(C)
  <2>1. CASE x \in ListNodes(h)
    <3>1. /\ Colon \in C /\ Comma \in C /\ 32 \in C
          /\ OpenArray \in C /\ CloseArray \in C /\ OpenObject \in C /\ CloseObject \in C
        BY DEF Colon, Comma, OpenArray, CloseArray, OpenObject, CloseObject
    <3> DEFINE l == Listed(ItemTexts(h, f, x))
    <3>2. ItemTexts(h, f, x) \in Seq(Seq(C))
        BY <2>1, <3>1, ItemTextsSequence
    <3>3. l \in Seq(C)
        BY <3>1, <3>2, ListedSequence
    <3> HIDE DEF l
    <3>4. ASSUME NEW a \in C, NEW b \in C PROVE <<a>> \o l \o <<b>> \in Seq(C)
      <4>1. <<a>> \in Seq(C) /\ <<b>> \in Seq(C)
          OBVIOUS
      <4>2. <<a>> \o l \in Seq(C)
          BY <3>3, <4>1, ConcatReads
      <4> QED BY <4>1, <4>2, ConcatReads
    <3>5. h[x].type \in {"object", "array"}
        BY <2>1 DEF ListNodes
    <3>6. /\ <<OpenObject>> \o l \o <<CloseObject>> \in Seq(C)
          /\ <<OpenArray>> \o l \o <<CloseArray>> \in Seq(C)
        BY <3>1, <3>4
    <3>7. /\ h[x].type = "object" => TextOf(h, f, x) = <<OpenObject>> \o l \o <<CloseObject>>
          /\ h[x].type = "array" => TextOf(h, f, x) = <<OpenArray>> \o l \o <<CloseArray>>
        BY TextForms DEF l
    <3> QED BY <3>5, <3>6, <3>7
  <2>2. CASE x \notin ListNodes(h)
    <3>1. h[x].type \notin Lists
        BY <2>2 DEF ListNodes, Lists
    <3>2. LeafText(h, x) \in Seq(ToSet(LeafText(h, x))) /\ ToSet(LeafText(h, x)) \subseteq C
        BY <3>1, LeafSequence DEF IsSequence
    <3> DEFINE s == LeafText(h, x)
               T == ToSet(s)
    <3>3. s \in Seq(T) /\ T \subseteq C
        BY <3>2
    <3> HIDE DEF s, T
    <3>4. s \in Seq(C)
        BY <3>3
    <3>5. TextOf(h, f, x) = s
        BY <3>1, TextForms DEF s
    <3> QED BY <3>4, <3>5
  <2> QED BY <2>1, <2>2
<1> QED BY <1>1 DEF PrintedAll


LEMMA PrintedSequence ==
    ASSUME NEW h, NEW sub, IsHeap(h), IsForest(h, sub), NEW a \in DOMAIN h
    PROVE  IsSequence(Printed(h, a))
<1> DEFINE D == DOMAIN h
           T(x) == ToSet(LeafText(h, x))
           C == Int \union UNION {T(x) : x \in {y \in D : h[y].type \notin Lists}}
           V == Seq(C)
           N == Cardinality(InUse(h))
           R == Rank(h, sub)
           rank == [x \in D |-> R[x]]
           step == [f \in [D -> V] |-> PrintedAll(h, f)]
           p == CHOOSE f : f = PrintedAll(h, f)
<1>1. Printed(h, a) = p[a]
    BY DEF Printed, PrintedAll
<1>2. Int \subseteq C /\ \A x \in D : h[x].type \notin Lists => T(x) \subseteq C
    OBVIOUS
<1>3. N \in Nat /\ R \in [Int -> 0..N] /\ D \subseteq Int
  <2>1. N \in Nat /\ R \in [Int -> 0..N]
      BY KidsRank
  <2>2. D \subseteq Int
      BY Addresses
  <2> QED BY <2>1, <2>2
<1> HIDE DEF C
<1>4. V # {}
  <2>1. <<>> \in V
      OBVIOUS
  <2> QED BY <2>1
<1>5. \A f \in [D -> V] : PrintedAll(h, f) \in [D -> V]
    BY <1>2, PrintedStep
<1>6. \A f, g : \A x \in D :
          (\A y \in D : R[y] < R[x] => f[y] = g[y]) => PrintedAll(h, f)[x] = PrintedAll(h, g)[x]
  <2> SUFFICES ASSUME NEW f, NEW g, NEW x \in D, \A y \in D : R[y] < R[x] => f[y] = g[y]
               PROVE  PrintedAll(h, f)[x] = PrintedAll(h, g)[x]
      OBVIOUS
  <2>1. TextOf(h, f, x) = TextOf(h, g, x)
      BY PrintedGrounded
  <2> QED BY <2>1 DEF PrintedAll
<1> HIDE DEF V, N, R, D
<1>7. rank \in [D -> 0..N] /\ \A x \in D : rank[x] = R[x]
    BY <1>3
<1> HIDE DEF rank
<1>8. step \in [[D -> V] -> [D -> V]] /\ \A f \in [D -> V] : step[f] = PrintedAll(h, f)
    BY <1>5
<1> HIDE DEF step, p
<1>9. Grounded(D, V, rank, step)
  <2> SUFFICES ASSUME NEW f \in [D -> V], NEW g \in [D -> V], NEW x \in D,
                      \A y \in D : rank[y] < rank[x] => f[y] = g[y]
               PROVE  step[f][x] = step[g][x]
      BY DEF Grounded
  <2>1. PrintedAll(h, f)[x] = PrintedAll(h, g)[x]
      BY <1>6, <1>7
  <2> QED BY <1>8, <2>1
<1>10. \E f \in [D -> V] : Unfolds(step, f)
    BY <1>3, <1>4, <1>7, <1>8, <1>9, RecursionExists
<1>11. \E f : f = PrintedAll(h, f)
    BY <1>8, <1>10 DEF Unfolds
<1>12. p = PrintedAll(h, p)
    BY <1>11 DEF p
<1> DEFINE B == {x \in D : p[x] \notin V}
           m == [x \in B |-> rank[x]]
           q == [x \in D |-> IF x \in B THEN <<>> ELSE p[x]]
<1>13. B = {}
  <2> SUFFICES ASSUME B # {} PROVE FALSE
      OBVIOUS
  <2>1. m \in [B -> Nat] /\ \A x \in B : m[x] = rank[x]
    <3>1. \A x \in B : rank[x] \in Nat
        BY <1>3, <1>7
    <3> HIDE DEF B
    <3> QED BY <3>1
  <2> HIDE DEF m
  <2>2. PICK x \in B : \A y \in B : m[x] <= m[y]
      BY <2>1, LeastMeasure
  <2>3. q \in [D -> V]
    <3>1. <<>> \in V
        BY DEF V
    <3> QED BY <3>1
  <2>4. \A y \in D : R[y] < R[x] => p[y] = q[y]
    <3> TAKE y \in D
    <3> SUFFICES ASSUME R[y] < R[x], y \in B PROVE FALSE
        OBVIOUS
    <3>1. m[x] <= m[y] /\ m[x] = R[x] /\ m[y] = R[y] /\ R[x] \in Nat /\ R[y] \in Nat
        BY <1>3, <1>7, <2>1, <2>2
    <3> QED BY <3>1
  <2> HIDE DEF q
  <2>5. PrintedAll(h, p)[x] = PrintedAll(h, q)[x]
      BY <1>6, <2>4
  <2>6. PrintedAll(h, q)[x] \in V
      BY <1>5, <2>3
  <2> QED BY <1>12, <2>5, <2>6
<1>14. p[a] \in V
    BY <1>13 DEF D
<1> QED BY <1>1, <1>14, Sequences DEF V


(***************************************************************************)
(* The invariant.                                                          *)
(***************************************************************************)
ListAt(S, n) == IF n \in DOMAIN S THEN S[n].list ELSE NULL
KeyAt(S, n)  == IF n \in DOMAIN S THEN S[n].key ELSE NULL

\* The pointer in each slot.  The program holds H, json_parser reads S, and r is
\* a value that is in the hands of a caller.
OwnOf(H, S, r) ==
    [s \in Slots |->
        CASE s[1] = "held" -> IF s[2] \in H THEN s[2] ELSE NULL
          [] s[1] = "list" -> ListAt(S, s[2])
          [] s[1] = "key"  -> KeyAt(S, s[2])
          [] s[1] = "ret"  -> IF s[2] = 0 THEN r ELSE NULL]

Frames(h) ==
    [close : {CloseArray, CloseObject}, list : Pointers(h), back : Pointers(h),
     key : Pointers(h), first : BOOLEAN]

KindOf(close) == IF close = CloseArray THEN "array" ELSE "object"

\* What json_parser remembers of a list that it reads: back is its last node, to
\* which the next one can be linked.
IsFrame(h, slot, i, f) ==
    /\ f.first => f.list = NULL
    /\ f.close = CloseArray => f.key = NULL /\ (f.first \/ f.list # NULL)
    /\ f.list = NULL => f.back = NULL
    /\ f.list # NULL => /\ f.back \in ListNodes(h) /\ h[f.back].type = KindOf(f.close)
                        /\ slot[f.back] = <<"list", i>> /\ NextOf(h, f.back) = NULL

StackInv(h, slot, S) ==
    /\ S \in Seq(Frames(h))
    /\ \A i \in 1..Len(S) : IsFrame(h, slot, i, S[i])

OwnersOf(h, H, S, r) ==
    /\ H \subseteq InUse(h)
    /\ \E sub, slot : Owned(h, sub, OwnOf(H, S, r), slot) /\ StackInv(h, slot, S)

InHand == IF text # <<>> /\ ret # Calling THEN ret ELSE NULL

JsonInv ==
    /\ text = <<>> => pos = 0 /\ stack = <<>> /\ ret = NULL
    /\ text # <<>> => IsText(text) /\ pos \in 1..Len(text)
    /\ fault \in {"none", "null", "memory"}
    /\ work \in 0..MaxWork
    /\ OwnersOf(heap, held, stack, InHand)

LEMMA SlotForms ==
    /\ \A n \in Nat : /\ <<"held", n>> \in Slots /\ <<"list", n>> \in Slots
                      /\ <<"key", n>> \in Slots /\ <<"ret", n>> \in Slots
    /\ \A s \in Slots : \E n \in Nat : \/ s = <<"held", n>> \/ s = <<"list", n>>
                                       \/ s = <<"key", n>> \/ s = <<"ret", n>>
BY DEF Slots

Reading(own, H, S, r) ==
    \A n \in Nat :
        /\ own[<<"held", n>>] = IF n \in H THEN n ELSE NULL
        /\ own[<<"list", n>>] = ListAt(S, n)
        /\ own[<<"key", n>>] = KeyAt(S, n)
        /\ own[<<"ret", n>>] = IF n = 0 THEN r ELSE NULL

LEMMA OwnReads ==
    ASSUME NEW H, NEW S, NEW r
    PROVE  Reading(OwnOf(H, S, r), H, S, r)
BY SlotForms DEF OwnOf, Reading

\* The slots outside of X have not changed.
Apart(X, H, S, r, H2, S2, r2) ==
    /\ \A n \in Nat : /\ <<"held", n>> \notin X => (n \in H <=> n \in H2)
                      /\ <<"list", n>> \notin X => ListAt(S, n) = ListAt(S2, n)
                      /\ <<"key", n>> \notin X => KeyAt(S, n) = KeyAt(S2, n)
    /\ <<"ret", 0>> \notin X => r = r2

LEMMA OwnSame ==
    ASSUME NEW X, NEW H, NEW S, NEW r, NEW H2, NEW S2, NEW r2, Apart(X, H, S, r, H2, S2, r2)
    PROVE  \A s \in Slots : s \notin X => OwnOf(H2, S2, r2)[s] = OwnOf(H, S, r)[s]
<1> SUFFICES ASSUME NEW s \in Slots, s \notin X
             PROVE  OwnOf(H2, S2, r2)[s] = OwnOf(H, S, r)[s]
    OBVIOUS
<1>0. Apart(X, H, S, r, H2, S2, r2)
    OBVIOUS
<1>1. PICK n \in Nat : \/ s = <<"held", n>> \/ s = <<"list", n>>
                       \/ s = <<"key", n>> \/ s = <<"ret", n>>
    BY SlotForms
<1> DEFINE A == OwnOf(H, S, r)
           B == OwnOf(H2, S2, r2)
<1>2. Reading(A, H, S, r) /\ Reading(B, H2, S2, r2)
    BY OwnReads
<1> HIDE DEF A, B
<1>3. /\ A[<<"held", n>>] = IF n \in H THEN n ELSE NULL
      /\ A[<<"list", n>>] = ListAt(S, n)
      /\ A[<<"key", n>>] = KeyAt(S, n)
      /\ A[<<"ret", n>>] = IF n = 0 THEN r ELSE NULL
      /\ B[<<"held", n>>] = IF n \in H2 THEN n ELSE NULL
      /\ B[<<"list", n>>] = ListAt(S2, n)
      /\ B[<<"key", n>>] = KeyAt(S2, n)
      /\ B[<<"ret", n>>] = IF n = 0 THEN r2 ELSE NULL
    BY <1>2 DEF Reading
<1>4. B[s] = A[s]
  <2>1. CASE s = <<"held", n>>
      BY <1>0, <1>3, <2>1 DEF Apart
  <2>2. CASE s = <<"list", n>>
      BY <1>0, <1>3, <2>2 DEF Apart
  <2>3. CASE s = <<"key", n>>
      BY <1>0, <1>3, <2>3 DEF Apart
  <2>4. CASE s = <<"ret", n>>
      BY <1>0, <1>3, <2>4 DEF Apart
  <2> QED BY <1>1, <2>1, <2>2, <2>3, <2>4
<1> QED BY <1>4 DEF A, B

(***************************************************************************)
(* The stack.                                                              *)
(***************************************************************************)
LEMMA Pushed ==
    ASSUME NEW F, NEW S \in Seq(F), NEW f
    PROVE  /\ IsSequence(Append(S, f)) /\ Len(Append(S, f)) = Len(S) + 1 /\ Len(S) \in Nat
           /\ Append(S, f)[Len(S) + 1] = f
           /\ \A i \in 1..Len(S) : Append(S, f)[i] = S[i]
           /\ \A n \in Nat :
                /\ ListAt(Append(S, f), n) = IF n = Len(S) + 1 THEN f.list ELSE ListAt(S, n)
                /\ KeyAt(Append(S, f), n) = IF n = Len(S) + 1 THEN f.key ELSE KeyAt(S, n)
<1> DEFINE G == F \union {f}
<1>1. S \in Seq(G) /\ f \in G /\ Len(S) \in Nat /\ DOMAIN S = 1..Len(S)
    OBVIOUS
<1> HIDE DEF G
<1> DEFINE T == Append(S, f)
<1>2. /\ T \in Seq(G) /\ Len(T) = Len(S) + 1 /\ DOMAIN T = 1..(Len(S) + 1)
      /\ T[Len(S) + 1] = f /\ \A i \in 1..Len(S) : T[i] = S[i]
    BY <1>1
<1>3. IsSequence(T)
    BY <1>2, Sequences
<1> HIDE DEF T
<1>4. ASSUME NEW n \in Nat
      PROVE  /\ ListAt(T, n) = IF n = Len(S) + 1 THEN f.list ELSE ListAt(S, n)
             /\ KeyAt(T, n) = IF n = Len(S) + 1 THEN f.key ELSE KeyAt(S, n)
  <2>1. CASE n \in 1..Len(S)
      BY <1>1, <1>2, <2>1 DEF ListAt, KeyAt
  <2>2. CASE n = Len(S) + 1
      BY <1>1, <1>2, <2>2 DEF ListAt, KeyAt
  <2>3. CASE n \notin 1..(Len(S) + 1)
      BY <1>1, <1>2, <2>3 DEF ListAt, KeyAt
  <2> QED BY <1>1, <2>1, <2>2, <2>3
<1> QED BY <1>1, <1>2, <1>3, <1>4 DEF T

LEMMA Popped ==
    ASSUME NEW F, NEW S \in Seq(F), S # <<>>
    PROVE  /\ Front(S) \in Seq(F) /\ Len(Front(S)) = Len(S) - 1
           /\ Len(S) \in Nat \ {0} /\ Last(S) = S[Len(S)] /\ Last(S) \in F
           /\ \A i \in 1..(Len(S) - 1) : Front(S)[i] = S[i]
           /\ \A n \in Nat :
                /\ ListAt(Front(S), n) = IF n = Len(S) THEN NULL ELSE ListAt(S, n)
                /\ KeyAt(Front(S), n) = IF n = Len(S) THEN NULL ELSE KeyAt(S, n)
<1> DEFINE T == Front(S)
<1>1. Len(S) \in Nat \ {0} /\ DOMAIN S = 1..Len(S) /\ Last(S) = S[Len(S)] /\ S[Len(S)] \in F
    BY DEF Last
<1>2. /\ T \in Seq(F) /\ Len(T) = Len(S) - 1 /\ DOMAIN T = 1..(Len(S) - 1)
      /\ \A i \in 1..(Len(S) - 1) : T[i] = S[i]
    BY <1>1 DEF Front
<1> HIDE DEF T
<1>3. ASSUME NEW n \in Nat
      PROVE  /\ ListAt(T, n) = IF n = Len(S) THEN NULL ELSE ListAt(S, n)
             /\ KeyAt(T, n) = IF n = Len(S) THEN NULL ELSE KeyAt(S, n)
  <2>1. CASE n \in 1..(Len(S) - 1)
      BY <1>1, <1>2, <2>1 DEF ListAt, KeyAt
  <2>2. CASE n = Len(S)
      BY <1>1, <1>2, <2>2 DEF ListAt, KeyAt
  <2>3. CASE n \notin 1..Len(S)
    <3>1. n \notin DOMAIN T /\ n \notin DOMAIN S
        BY <1>1, <1>2, <2>3
    <3> QED BY <3>1 DEF ListAt, KeyAt
  <2>4. n \in 1..Len(S) => n \in 1..(Len(S) - 1) \/ n = Len(S)
    <3> DEFINE k == Len(S)
    <3>1. k \in Nat
        BY <1>1
    <3> HIDE DEF k
    <3>2. n \in 1..k => n \in 1..(k - 1) \/ n = k
        BY <3>1
    <3> QED BY <3>2 DEF k
  <2> QED BY <2>1, <2>2, <2>3, <2>4
<1> QED BY <1>1, <1>2, <1>3 DEF T

\* f takes the place of the top of the stack.
Topped(S, f) == Append(Front(S), f)

LEMMA Replaced ==
    ASSUME NEW F, NEW S \in Seq(F), S # <<>>, NEW f
    PROVE  /\ IsSequence(Topped(S, f)) /\ Len(Topped(S, f)) = Len(S) /\ Len(S) \in Nat \ {0}
           /\ Topped(S, f)[Len(S)] = f
           /\ \A i \in 1..(Len(S) - 1) : Topped(S, f)[i] = S[i]
           /\ \A n \in Nat :
                /\ ListAt(Topped(S, f), n) = IF n = Len(S) THEN f.list ELSE ListAt(S, n)
                /\ KeyAt(Topped(S, f), n) = IF n = Len(S) THEN f.key ELSE KeyAt(S, n)
<1> DEFINE T == Front(S)
<1>1. /\ T \in Seq(F) /\ Len(T) = Len(S) - 1 /\ Len(S) \in Nat \ {0} /\ Len(T) + 1 = Len(S)
      /\ \A i \in 1..(Len(S) - 1) : T[i] = S[i]
      /\ \A n \in Nat :
           /\ ListAt(T, n) = IF n = Len(S) THEN NULL ELSE ListAt(S, n)
           /\ KeyAt(T, n) = IF n = Len(S) THEN NULL ELSE KeyAt(S, n)
    BY Popped
<1> HIDE DEF T
<1>2. /\ IsSequence(Append(T, f)) /\ Len(Append(T, f)) = Len(T) + 1
      /\ Append(T, f)[Len(T) + 1] = f
      /\ \A i \in 1..Len(T) : Append(T, f)[i] = T[i]
      /\ \A n \in Nat :
           /\ ListAt(Append(T, f), n) = IF n = Len(T) + 1 THEN f.list ELSE ListAt(T, n)
           /\ KeyAt(Append(T, f), n) = IF n = Len(T) + 1 THEN f.key ELSE KeyAt(T, n)
    BY <1>1, Pushed
<1>3. Topped(S, f) = Append(T, f)
    BY DEF Topped, T
<1> HIDE DEF Topped
<1> QED BY <1>1, <1>2, <1>3


\* The nodes whose owner is s are as they were, but for their items.
Keeps(h, slot, h2, slot2, s) ==
    \A x \in ListNodes(h) :
        slot[x] = s => /\ x \in ListNodes(h2) /\ h2[x].type = h[x].type
                       /\ slot2[x] = s /\ NextOf(h2, x) = NextOf(h, x)

LEMMA FrameKept ==
    ASSUME NEW h, NEW slot, NEW i, NEW f, f \in Frames(h), IsFrame(h, slot, i, f),
           NEW h2, NEW slot2, f.list \in Pointers(h2), f.key \in Pointers(h2),
           Keeps(h, slot, h2, slot2, <<"list", i>>)
    PROVE  f \in Frames(h2) /\ IsFrame(h2, slot2, i, f)
<1>1. /\ f = [close |-> f.close, list |-> f.list, back |-> f.back, key |-> f.key,
             first |-> f.first]
      /\ f.close \in {CloseArray, CloseObject} /\ f.first \in BOOLEAN
    BY DEF Frames
<1>2. CASE f.list = NULL
  <2>1. f.back = NULL
      BY <1>2 DEF IsFrame
  <2>2. f.back \in Pointers(h2)
      BY <2>1 DEF Pointers
  <2>3. f \in Frames(h2)
      BY <1>1, <2>2 DEF Frames
  <2> QED BY <1>2, <2>3 DEF IsFrame
<1>3. CASE f.list # NULL
  <2>1. f.back \in ListNodes(h) /\ slot[f.back] = <<"list", i>>
      BY <1>3 DEF IsFrame
  <2>2. /\ f.back \in ListNodes(h2) /\ h2[f.back].type = h[f.back].type
        /\ slot2[f.back] = <<"list", i>> /\ NextOf(h2, f.back) = NextOf(h, f.back)
      BY <2>1 DEF Keeps
  <2>3. f.back \in Pointers(h2)
      BY <2>2 DEF Pointers, ListNodes
  <2>4. f \in Frames(h2)
      BY <1>1, <2>3 DEF Frames
  <2> QED BY <1>3, <2>2, <2>4 DEF IsFrame
<1> QED BY <1>2, <1>3

LEMMA StackPointers ==
    ASSUME NEW h, NEW sub, NEW H, NEW S, NEW r, NEW slot, Owned(h, sub, OwnOf(H, S, r), slot),
           IsSequence(S), NEW i \in 1..Len(S)
    PROVE  S[i].list \in Pointers(h) /\ S[i].key \in Pointers(h) /\ r \in Pointers(h)
<1>1. i \in Nat /\ i \in DOMAIN S
    BY DEF IsSequence
<1> DEFINE own == OwnOf(H, S, r)
<1>2. Reading(own, H, S, r)
    BY OwnReads
<1>3. \A s \in Slots : own[s] \in Pointers(h)
    BY DEF Owned, Parted
<1> HIDE DEF own
<1>4. <<"list", i>> \in Slots /\ <<"key", i>> \in Slots /\ <<"ret", 0>> \in Slots
    BY <1>1, SlotForms
<1>5. own[<<"list", i>>] = S[i].list /\ own[<<"key", i>>] = S[i].key /\ own[<<"ret", 0>>] = r
    BY <1>1, <1>2 DEF Reading, ListAt, KeyAt
<1> QED BY <1>3, <1>4, <1>5

LEMMA StackKept ==
    ASSUME NEW h, NEW slot, NEW S, StackInv(h, slot, S),
           NEW h2, NEW sub2, NEW H2, NEW S2, NEW r2, NEW slot2,
           Owned(h2, sub2, OwnOf(H2, S2, r2), slot2), IsSequence(S2),
           NEW i, i \in 1..Len(S), i \in 1..Len(S2), S2[i] = S[i],
           Keeps(h, slot, h2, slot2, <<"list", i>>)
    PROVE  S2[i] \in Frames(h2) /\ IsFrame(h2, slot2, i, S2[i])
<1>1. S[i] \in Frames(h) /\ IsFrame(h, slot, i, S[i])
    BY DEF StackInv
<1>2. S[i].list \in Pointers(h2) /\ S[i].key \in Pointers(h2)
    BY StackPointers
<1> QED BY <1>1, <1>2, FrameKept

LEMMA StackMade ==
    ASSUME NEW h, NEW slot, NEW S, IsSequence(S),
           \A i \in 1..Len(S) : S[i] \in Frames(h) /\ IsFrame(h, slot, i, S[i])
    PROVE  StackInv(h, slot, S)
<1> DEFINE F == Frames(h)
<1>1. S \in Seq(ToSet(S)) /\ \A i \in 1..Len(S) : S[i] \in F
    BY DEF IsSequence
<1> HIDE DEF F
<1>2. S \in Seq(F)
    BY <1>1
<1> QED BY <1>2 DEF StackInv, F

LEMMA StackSequence ==
    ASSUME NEW h, NEW slot, NEW S, StackInv(h, slot, S)
    PROVE  /\ IsSequence(S) /\ S \in Seq(Frames(h)) /\ Len(S) \in Nat
           /\ \A i \in 1..Len(S) : S[i] \in Frames(h) /\ IsFrame(h, slot, i, S[i])
<1> DEFINE F == Frames(h)
<1>1. S \in Seq(F) /\ \A i \in 1..Len(S) : IsFrame(h, slot, i, S[i])
    BY DEF StackInv
<1> HIDE DEF F
<1>2. IsSequence(S) /\ Len(S) \in Nat /\ \A i \in 1..Len(S) : S[i] \in F
    BY <1>1, Sequences
<1> QED BY <1>1, <1>2 DEF F

LEMMA StackSame ==
    ASSUME NEW h, NEW slot, NEW S, StackInv(h, slot, S),
           NEW h2, NEW sub2, NEW H2, NEW r2, NEW slot2,
           Owned(h2, sub2, OwnOf(H2, S, r2), slot2),
           \A i \in 1..Len(S) : Keeps(h, slot, h2, slot2, <<"list", i>>)
    PROVE  StackInv(h2, slot2, S)
<1>1. IsSequence(S)
    BY StackSequence
<1>2. ASSUME NEW i \in 1..Len(S) PROVE S[i] \in Frames(h2) /\ IsFrame(h2, slot2, i, S[i])
    BY <1>1, StackKept
<1> QED BY <1>1, <1>2, StackMade

(***************************************************************************)
(* The steps, as they change who owns what.                                *)
(***************************************************************************)
LEMMA NoOwners == OwnersOf(StaticHeap, {}, <<>>, NULL)
<1> DEFINE h == StaticHeap
           slot == [x \in {} |-> <<"ret", 0>>]
           sub == [x \in {} |-> {}]
           own == OwnOf({}, <<>>, NULL)
<1>1. DOMAIN h = Statics /\ InUse(h) = {}
    BY DEF StaticHeap, InUse
<1>2. Reading(own, {}, <<>>, NULL)
    BY OwnReads
<1> HIDE DEF own
<1>3. \A s \in Slots : own[s] = NULL
  <2> TAKE s \in Slots
  <2>1. PICK n \in Nat : \/ s = <<"held", n>> \/ s = <<"list", n>>
                         \/ s = <<"key", n>> \/ s = <<"ret", n>>
      BY SlotForms
  <2>2. n \notin DOMAIN <<>>
      OBVIOUS
  <2>3. /\ own[<<"held", n>>] = NULL /\ own[<<"list", n>>] = NULL
        /\ own[<<"key", n>>] = NULL /\ own[<<"ret", n>>] = NULL
      BY <1>2, <2>2 DEF Reading, ListAt, KeyAt
  <2> QED BY <2>1, <2>3
<1>4. IsHeap(h)
  <2>1. IsFiniteSet(InUse(h))
      BY <1>1, FS_EmptySet
  <2>2. Statics \subseteq DOMAIN h /\ \A x \in Statics : h[x] = StaticHeap[x]
      BY <1>1
  <2> QED BY <1>1, <2>1, <2>2 DEF IsHeap
<1>5. IsForest(h, sub)
    BY <1>1 DEF IsForest
<1>6. Parted(h, sub, own, slot)
  <2>1. slot \in [InUse(h) -> Slots]
      BY <1>1
  <2>2. \A s \in Slots : own[s] \in Pointers(h) /\ Part(sub, own[s]) = {}
      BY <1>3 DEF Pointers, Part
  <2> QED BY <1>1, <2>1, <2>2 DEF Parted
<1>7. StackInv(h, slot, <<>>)
    BY DEF StackInv
<1> QED BY <1>1, <1>4, <1>5, <1>6, <1>7 DEF OwnersOf, Owned, own


LEMMA NothingOwned ==
    ASSUME NEW h, NEW sub, IsHeap(h), IsForest(h, sub), NEW x \in Statics \union {NULL}
    PROVE  Part(sub, x) = {} /\ x \in Pointers(h)
<1>1. x \notin InUse(h) /\ x \in Pointers(h)
    BY Addresses DEF Pointers, InUse
<1>2. DOMAIN sub = InUse(h)
    BY DEF IsForest
<1> QED BY <1>1, <1>2 DEF Part

LEMMA NewKeeps ==
    ASSUME NEW h, IsHeap(h), HasRoom(h), NEW node, NEW slot, NEW slot2, NEW s,
           \A x \in InUse(h) : slot[x] = s => slot2[x] = s
    PROVE  Keeps(h, slot, New(h, node), slot2, s)
<1> DEFINE g == New(h, node)
<1>1. DOMAIN h \subseteq DOMAIN g /\ \A x \in DOMAIN h : g[x] = h[x]
    BY NewHeap
<1>2. ListNodes(h) \subseteq InUse(h)
    BY ListNodesInUse
<1> HIDE DEF g
<1>3. ASSUME NEW x \in ListNodes(h), slot[x] = s
      PROVE  /\ x \in ListNodes(g) /\ g[x].type = h[x].type
             /\ slot2[x] = s /\ NextOf(g, x) = NextOf(h, x)
  <2>1. x \in DOMAIN h /\ h[x].type \in {"object", "array"} /\ g[x] = h[x] /\ x \in DOMAIN g
      BY <1>1, <1>3 DEF ListNodes
  <2>2. slot2[x] = s
      BY <1>2, <1>3
  <2> QED BY <2>1, <2>2 DEF ListNodes, NextOf
<1>4. Keeps(h, slot, g, slot2, s)
    BY <1>3 DEF Keeps
<1> QED BY <1>4 DEF g

\* json_parser returns what it has made.
LEMMA ReturnsNew ==
    ASSUME NEW h, NEW H, NEW S, NEW r, OwnersOf(h, H, S, r), r \in Statics \union {NULL},
           HasRoom(h), NEW node, IsNode(h, node), NameOf(New(h, node), Fresh(h)) = NULL,
           ValueOf(New(h, node), Fresh(h)) = NULL, NextOf(New(h, node), Fresh(h)) = NULL
    PROVE  OwnersOf(New(h, node), H, S, Fresh(h))
<1> DEFINE n == Fresh(h)
           g == New(h, node)
           d == <<"ret", 0>>
           own == OwnOf(H, S, r)
           own2 == OwnOf(H, S, n)
<1>1. PICK sub, slot : Owned(h, sub, own, slot) /\ StackInv(h, slot, S)
    BY DEF OwnersOf
<1>2. IsHeap(h) /\ IsForest(h, sub) /\ Parted(h, sub, own, slot)
    BY <1>1 DEF Owned
<1>3. d \in Slots /\ Reading(own, H, S, r) /\ Reading(own2, H, S, n)
    BY SlotForms, OwnReads
<1>4. \A s \in Slots \ {d} : own2[s] = own[s]
  <2> DEFINE X == {d}
  <2>1. <<"ret", 0>> \in X
      OBVIOUS
  <2> HIDE DEF X
  <2>2. Apart(X, H, S, r, H, S, n)
      BY <2>1 DEF Apart
  <2>3. \A s \in Slots : s \notin X => own2[s] = own[s]
      BY <2>2, OwnSame
  <2> QED BY <2>3 DEF X
<1>5. Part(sub, NULL) = {} /\ Part(sub, r) = {} /\ NULL \in Pointers(h)
    BY <1>2, NothingOwned
<1> HIDE DEF own, own2, d
<1>6. own[d] = r /\ own2[d] = n
    BY <1>3 DEF Reading, d
<1>7. \A s \in Slots \ {d} :
          /\ own2[s] \in Pointers(h)
          /\ Part(sub, own2[s]) = IF s = d \/ s = d THEN {} ELSE Part(sub, own[s])
    BY <1>2, <1>4 DEF Parted
<1>8. NULL = NameOf(g, n) /\ NULL = ValueOf(g, n)
    OBVIOUS
<1> HIDE DEF n, g
<1>9. \E sub2, slot2 :
        /\ Owned(g, sub2, own2, slot2)
        /\ slot2[n] = d
        /\ \A x \in InUse(h) : slot2[x] = IF slot[x] = d \/ slot[x] = d THEN d ELSE slot[x]
  <2>1. Part(sub, NULL) \intersect Part(sub, NULL) = {}
      BY <1>5
  <2>2. Part(sub, own[d]) = Part(sub, NULL) /\ Part(sub, own[d]) = {}
      BY <1>5, <1>6
  <2> QED BY <1>1, <1>3, <1>5, <1>6, <1>7, <1>8, <2>1, <2>2, NewOwned DEF n, g
<1>10. PICK sub2, slot2 :
         /\ Owned(g, sub2, own2, slot2)
         /\ \A x \in InUse(h) : slot2[x] = IF slot[x] = d \/ slot[x] = d THEN d ELSE slot[x]
    BY <1>9
<1>11. \A i \in 1..Len(S) : Keeps(h, slot, g, slot2, <<"list", i>>)
    BY <1>2, <1>10, NewKeeps DEF g, d
<1>12. StackInv(g, slot2, S)
    BY <1>1, <1>10, <1>11, StackSame DEF own2
<1>13. H \subseteq InUse(g)
  <2>1. H \subseteq InUse(h)
      BY DEF OwnersOf
  <2>2. InUse(h) \subseteq InUse(g)
      BY <1>2, NewHeap DEF g
  <2> QED BY <2>1, <2>2
<1> QED BY <1>10, <1>12, <1>13 DEF OwnersOf, own2, g, n

\* json_parser returns NULL or a value that nothing owns.
LEMMA ReturnsStatic ==
    ASSUME NEW h, NEW H, NEW S, NEW r, OwnersOf(h, H, S, r), r \in Statics \union {NULL},
           NEW r2 \in Statics \union {NULL}
    PROVE  OwnersOf(h, H, S, r2)
<1> DEFINE d == <<"ret", 0>>
           own == OwnOf(H, S, r)
           own2 == OwnOf(H, S, r2)
<1>1. PICK sub, slot : Owned(h, sub, own, slot) /\ StackInv(h, slot, S)
    BY DEF OwnersOf
<1>2. d \in Slots /\ Reading(own, H, S, r) /\ Reading(own2, H, S, r2)
    BY SlotForms, OwnReads
<1>3. \A s \in Slots \ {d} : own2[s] = own[s]
  <2> DEFINE X == {d}
  <2>1. <<"ret", 0>> \in X
      OBVIOUS
  <2> HIDE DEF X
  <2>2. Apart(X, H, S, r, H, S, r2)
      BY <2>1 DEF Apart
  <2>3. \A s \in Slots : s \notin X => own2[s] = own[s]
      BY <2>2, OwnSame
  <2> QED BY <2>3 DEF X
<1> HIDE DEF own, own2, d
<1>4. own[d] = r /\ own2[d] = r2
    BY <1>2 DEF Reading, d
<1>5. \A s \in Slots : \/ own2[s] = own[s]
                       \/ /\ own2[s] \in Statics \union {NULL}
                          /\ own[s] \in Statics \union {NULL}
    BY <1>3, <1>4
<1>6. Owned(h, sub, own2, slot)
    BY <1>1, <1>5, SameOwned
<1> QED BY <1>1, <1>6 DEF OwnersOf, own2

\* An array or object is opened.
LEMMA Opening ==
    ASSUME NEW h, NEW H, NEW S, NEW r, OwnersOf(h, H, S, r),
           NEW close \in {CloseArray, CloseObject},
           NEW f, f = [close |-> close, list |-> NULL, back |-> NULL, key |-> NULL, first |-> TRUE]
    PROVE  OwnersOf(h, H, Append(S, f), r)
<1> DEFINE T == Append(S, f)
           own == OwnOf(H, S, r)
           own2 == OwnOf(H, T, r)
<1>1. PICK sub, slot : Owned(h, sub, own, slot) /\ StackInv(h, slot, S)
    BY DEF OwnersOf
<1>2. /\ IsSequence(S) /\ S \in Seq(Frames(h)) /\ Len(S) \in Nat
      /\ \A i \in 1..Len(S) : S[i] \in Frames(h) /\ IsFrame(h, slot, i, S[i])
    BY <1>1, StackSequence
<1>3. /\ IsSequence(T) /\ Len(T) = Len(S) + 1 /\ T[Len(S) + 1] = f
      /\ \A i \in 1..Len(S) : T[i] = S[i]
      /\ \A n \in Nat :
           /\ ListAt(T, n) = IF n = Len(S) + 1 THEN f.list ELSE ListAt(S, n)
           /\ KeyAt(T, n) = IF n = Len(S) + 1 THEN f.key ELSE KeyAt(S, n)
    BY <1>2, Pushed
<1>4. /\ f.list = NULL /\ f.key = NULL /\ f.back = NULL /\ f.first = TRUE /\ f.close = close
      /\ ListAt(S, Len(S) + 1) = NULL /\ KeyAt(S, Len(S) + 1) = NULL
    BY <1>2 DEF ListAt, KeyAt
<1> HIDE DEF T
<1>5. \A s \in Slots : own2[s] = own[s]
  <2> DEFINE X == {}
  <2>1. \A s : s \notin X
      OBVIOUS
  <2> HIDE DEF X
  <2>2. \A n \in Nat : ListAt(S, n) = ListAt(T, n) /\ KeyAt(S, n) = KeyAt(T, n)
      BY <1>3, <1>4
  <2>3. Apart(X, H, S, r, H, T, r)
      BY <2>2 DEF Apart
  <2>4. \A s \in Slots : s \notin X => own2[s] = own[s]
      BY <2>3, OwnSame
  <2> QED BY <2>1, <2>4
<1> HIDE DEF own, own2
<1>6. Owned(h, sub, own2, slot)
    BY <1>1, <1>5, SameOwned
<1>7. f \in Frames(h) /\ IsFrame(h, slot, Len(S) + 1, f)
  <2>1. NULL \in Pointers(h)
      BY DEF Pointers
  <2> QED BY <1>4, <2>1 DEF Frames, IsFrame
<1>8. \A i \in 1..Len(T) : T[i] \in Frames(h) /\ IsFrame(h, slot, i, T[i])
  <2> TAKE i \in 1..Len(T)
  <2>1. i \in 1..Len(S) \/ i = Len(S) + 1
      BY <1>2, <1>3
  <2> QED BY <1>2, <1>3, <1>7, <2>1
<1>9. StackInv(h, slot, T)
    BY <1>3, <1>8, StackMade
<1> QED BY <1>6, <1>9 DEF OwnersOf, own2, T


\* The frame at the top of the stack, and its slots.
LEMMA TopFrame ==
    ASSUME NEW h, NEW slot, NEW S, StackInv(h, slot, S), S # <<>>
    PROVE  /\ Len(S) \in Nat \ {0} /\ Last(S) = S[Len(S)]
           /\ Last(S) \in Frames(h) /\ IsFrame(h, slot, Len(S), Last(S))
<1> DEFINE F == Frames(h)
<1>1. S \in Seq(F) /\ \A i \in 1..Len(S) : IsFrame(h, slot, i, S[i])
    BY DEF StackInv
<1> HIDE DEF F
<1>2. Len(S) \in Nat \ {0} /\ Last(S) = S[Len(S)] /\ Last(S) \in F
    BY <1>1, Popped
<1>3. Len(S) \in 1..Len(S)
    BY <1>2
<1> QED BY <1>1, <1>2, <1>3 DEF F

TopRead(own, own2, S, r, f, r2) ==
    /\ <<"list", Len(S)>> \in Slots /\ <<"key", Len(S)>> \in Slots /\ <<"ret", 0>> \in Slots
    /\ own[<<"list", Len(S)>>] = Last(S).list /\ own2[<<"list", Len(S)>>] = f.list
    /\ own[<<"key", Len(S)>>] = Last(S).key /\ own2[<<"key", Len(S)>>] = f.key
    /\ own[<<"ret", 0>>] = r /\ own2[<<"ret", 0>>] = r2
    /\ \A s \in Slots :
         s # <<"list", Len(S)>> /\ s # <<"key", Len(S)>> /\ s # <<"ret", 0>> => own2[s] = own[s]

LEMMA TopReads ==
    ASSUME NEW h, NEW S \in Seq(Frames(h)), S # <<>>, NEW H, NEW r, NEW f, NEW r2
    PROVE  TopRead(OwnOf(H, S, r), OwnOf(H, Topped(S, f), r2), S, r, f, r2)
<1> DEFINE T == Topped(S, f)
           own == OwnOf(H, S, r)
           own2 == OwnOf(H, T, r2)
           X == {<<"list", Len(S)>>, <<"key", Len(S)>>, <<"ret", 0>>}
<1>1. /\ Len(S) \in Nat \ {0}
      /\ \A n \in Nat :
           /\ ListAt(T, n) = IF n = Len(S) THEN f.list ELSE ListAt(S, n)
           /\ KeyAt(T, n) = IF n = Len(S) THEN f.key ELSE KeyAt(S, n)
    BY Replaced
<1>2. Last(S) = S[Len(S)] /\ Len(S) \in DOMAIN S
    BY DEF Last
<1>3. ListAt(S, Len(S)) = Last(S).list /\ KeyAt(S, Len(S)) = Last(S).key
    BY <1>2 DEF ListAt, KeyAt
<1>4. Reading(own, H, S, r) /\ Reading(own2, H, T, r2)
    BY OwnReads
<1>5. \A n \in Nat : (<<"list", n>> \notin X => n # Len(S)) /\ (<<"key", n>> \notin X => n # Len(S))
    OBVIOUS
<1>6. <<"ret", 0>> \in X
    OBVIOUS
<1> HIDE DEF T, X
<1>7. Apart(X, H, S, r, H, T, r2)
    BY <1>1, <1>5, <1>6 DEF Apart
<1>8. \A s \in Slots : s \notin X => own2[s] = own[s]
    BY <1>7, OwnSame
<1>9. /\ <<"list", Len(S)>> \in Slots /\ <<"key", Len(S)>> \in Slots /\ <<"ret", 0>> \in Slots
    BY <1>1, SlotForms
<1> HIDE DEF own, own2
<1>10. /\ own[<<"list", Len(S)>>] = Last(S).list /\ own[<<"key", Len(S)>>] = Last(S).key
       /\ own[<<"ret", 0>>] = r
    BY <1>1, <1>3, <1>4 DEF Reading
<1>11. /\ own2[<<"list", Len(S)>>] = f.list /\ own2[<<"key", Len(S)>>] = f.key
       /\ own2[<<"ret", 0>>] = r2
    BY <1>1, <1>4 DEF Reading
<1>12. TopRead(own, own2, S, r, f, r2)
    BY <1>8, <1>9, <1>10, <1>11 DEF TopRead, X
<1> QED BY <1>12 DEF own, own2, T

LEMMA ToppedInv ==
    ASSUME NEW h, NEW slot, NEW S, StackInv(h, slot, S), S # <<>>,
           NEW h2, NEW sub2, NEW H2, NEW f, NEW r2, NEW slot2,
           Owned(h2, sub2, OwnOf(H2, Topped(S, f), r2), slot2),
           \A i \in 1..(Len(S) - 1) : Keeps(h, slot, h2, slot2, <<"list", i>>),
           f \in Frames(h2), IsFrame(h2, slot2, Len(S), f)
    PROVE  StackInv(h2, slot2, Topped(S, f))
<1> DEFINE T == Topped(S, f)
<1>1. S \in Seq(Frames(h)) /\ IsSequence(S)
    BY StackSequence
<1>2. /\ IsSequence(T) /\ Len(T) = Len(S) /\ Len(S) \in Nat \ {0} /\ T[Len(S)] = f
      /\ \A i \in 1..(Len(S) - 1) : T[i] = S[i]
    BY <1>1, Replaced
<1> HIDE DEF T
<1>3. ASSUME NEW i \in 1..Len(T) PROVE T[i] \in Frames(h2) /\ IsFrame(h2, slot2, i, T[i])
  <2>1. CASE i = Len(S)
      BY <1>2, <2>1
  <2>2. CASE i # Len(S)
    <3>1. i \in 1..(Len(S) - 1) /\ i \in 1..Len(S) /\ T[i] = S[i]
        BY <1>2, <1>3, <2>2
    <3>2. Keeps(h, slot, h2, slot2, <<"list", i>>)
        BY <3>1
    <3>3. Owned(h2, sub2, OwnOf(H2, T, r2), slot2)
        BY DEF T
    <3> QED BY <1>2, <3>1, <3>2, <3>3, StackKept
  <2> QED BY <2>1, <2>2
<1>4. StackInv(h2, slot2, T)
    BY <1>2, <1>3, StackMade
<1> QED BY <1>4 DEF T

\* node can be made of k and v.
Fits(h, node, k, v) ==
    /\ HasRoom(h) /\ IsNode(h, node)
    /\ NameOf(New(h, node), Fresh(h)) = k /\ ValueOf(New(h, node), Fresh(h)) = v
    /\ NextOf(New(h, node), Fresh(h)) = NULL

\* The frame of a list from x to y.
Between(close, x, y) ==
    [close |-> close, list |-> x, back |-> y, key |-> NULL, first |-> FALSE]

LEMMA BetweenReads ==
    ASSUME NEW close, NEW x, NEW y
    PROVE  /\ Between(close, x, y).close = close /\ Between(close, x, y).list = x
           /\ Between(close, x, y).back = y /\ Between(close, x, y).key = NULL
           /\ Between(close, x, y).first = FALSE
           /\ \A h : close \in {CloseArray, CloseObject} /\ x \in Pointers(h) /\ y \in Pointers(h) =>
                  Between(close, x, y) \in Frames(h)
BY DEF Between, Frames, Pointers

\* json_parser makes the first node of a list, of what it has read of an item.
LEMMA LinksFirst ==
    ASSUME NEW h, NEW H, NEW S, NEW r, OwnersOf(h, H, S, r), S # <<>>, Last(S).first,
           NEW node, Fits(h, node, Last(S).key, r), node.type = KindOf(Last(S).close),
           NEW f, f = Between(Last(S).close, Fresh(h), Fresh(h))
    PROVE  OwnersOf(New(h, node), H, Topped(S, f), NULL)
<1> DEFINE n == Fresh(h)
           g == New(h, node)
           T == Topped(S, f)
           m == Len(S)
           d == <<"list", m>>
           sk == <<"key", m>>
           sv == <<"ret", 0>>
           own == OwnOf(H, S, r)
           own2 == OwnOf(H, T, NULL)
<1>1. PICK sub, slot : Owned(h, sub, own, slot) /\ StackInv(h, slot, S)
    BY DEF OwnersOf
<1>2. IsHeap(h) /\ IsForest(h, sub) /\ Parted(h, sub, own, slot)
    BY <1>1 DEF Owned
<1>3. HasRoom(h)
    BY DEF Fits
<1>4. /\ n \in DOMAIN g /\ g[n] = node /\ n # NULL
       /\ InUse(h) \subseteq InUse(g)
  <2>1. DOMAIN g = DOMAIN h \union {n} /\ InUse(g) = InUse(h) \union {n} /\ g[n] = node /\ n # NULL
      BY <1>2, <1>3, NewHeap
  <2> HIDE DEF n, g
  <2> QED BY <2>1
<1>5. /\ IsNode(h, node) /\ NameOf(g, n) = Last(S).key /\ ValueOf(g, n) = r /\ NextOf(g, n) = NULL
    BY DEF Fits
<1>6. m \in Nat \ {0} /\ Last(S) \in Frames(h) /\ IsFrame(h, slot, m, Last(S))
    BY <1>1, TopFrame
<1>7. S \in Seq(Frames(h))
    BY <1>1, StackSequence
<1>8. Last(S).list = NULL /\ Last(S).close \in {CloseArray, CloseObject}
    BY <1>6 DEF IsFrame, Frames
<1>9. f.list = n /\ f.back = n /\ f.key = NULL /\ f.first = FALSE /\ f.close = Last(S).close
    BY DEF Between
<1>10. Part(sub, NULL) = {} /\ NULL \in Pointers(h)
    BY <1>2, NothingOwned
<1>11. /\ d # sk /\ d # sv /\ sk # sv
       /\ \A i \in 1..(m - 1) : <<"list", i>> # d /\ <<"list", i>> # sk /\ <<"list", i>> # sv
    BY <1>6
<1>12. TopRead(own, own2, S, r, f, NULL)
    BY <1>7, TopReads
<1> HIDE DEF own, own2, T
<1>13. /\ d \in Slots /\ sk \in Slots /\ sv \in Slots
      /\ own[d] = NULL /\ own[sk] = Last(S).key /\ own[sv] = r
      /\ own2[d] = n /\ own2[sk] = NULL /\ own2[sv] = NULL
      /\ \A s \in Slots : s # d /\ s # sk /\ s # sv => own2[s] = own[s]
    BY <1>8, <1>9, <1>12 DEF TopRead
<1> HIDE DEF d, sk, sv, m
<1>14. \A s \in Slots : own[s] \in Pointers(h) /\ Part(sub, own[s]) = {x \in InUse(h) : slot[x] = s}
    BY <1>2 DEF Parted
<1>15. \A s \in Slots \ {d} :
          /\ own2[s] \in Pointers(h)
          /\ Part(sub, own2[s]) = IF s = sk \/ s = sv THEN {} ELSE Part(sub, own[s])
    BY <1>10, <1>13, <1>14
<1>16. \E sub2, slot2 :
         /\ Owned(g, sub2, own2, slot2)
         /\ slot2[n] = d
         /\ \A x \in InUse(h) : slot2[x] = IF slot[x] = sk \/ slot[x] = sv THEN d ELSE slot[x]
  <2> DEFINE k == Last(S).key
  <2>1. /\ k = NameOf(g, n) /\ k \in Pointers(h)
        /\ r = ValueOf(g, n) /\ r \in Pointers(h) /\ NextOf(g, n) = NULL
      BY <1>13, <1>14, <1>5
  <2>2. /\ Part(sub, own[sk]) = Part(sub, k) /\ Part(sub, own[sv]) = Part(sub, r)
        /\ Part(sub, own[d]) = {} /\ own2[d] = n
      BY <1>10, <1>13
  <2>3. Part(sub, k) \intersect Part(sub, r) = {}
      BY <1>11, <1>13, <1>14
  <2> HIDE DEF k, n, g
  <2> QED BY <1>1, <1>13, <1>15, <1>3, <1>5, <2>1, <2>2, <2>3, NewOwned DEF n, g
<1>17. PICK sub2, slot2 :
         /\ Owned(g, sub2, own2, slot2)
         /\ slot2[n] = d
         /\ \A x \in InUse(h) : slot2[x] = IF slot[x] = sk \/ slot[x] = sv THEN d ELSE slot[x]
    BY <1>16
<1>18. ASSUME NEW i \in 1..(m - 1) PROVE Keeps(h, slot, g, slot2, <<"list", i>>)
  <2>1. \A x \in InUse(h) : slot[x] = <<"list", i>> => slot2[x] = <<"list", i>>
      BY <1>11, <1>17
  <2> QED BY <1>2, <1>3, <2>1, NewKeeps
<1>19. /\ n \in ListNodes(g) /\ g[n].type = KindOf(f.close)
       /\ n \in Pointers(g) /\ NULL \in Pointers(g)
  <2> HIDE DEF n, g
  <2>1. KindOf(f.close) \in {"object", "array"}
      BY DEF KindOf
  <2> QED BY <1>9, <1>4, <2>1 DEF ListNodes, Pointers
<1>20. f \in Frames(g) /\ IsFrame(g, slot2, m, f)
  <2>1. f \in Frames(g)
      BY <1>8, <1>19, BetweenReads
  <2> HIDE DEF n, g
  <2> QED BY <1>9, <1>17, <1>19, <1>4, <1>5, <2>1 DEF IsFrame, d, n, g
<1>21. StackInv(g, slot2, T)
  <2> HIDE DEF n, g
  <2> QED BY <1>1, <1>17, <1>18, <1>20, ToppedInv DEF own2, T, m
<1>22. H \subseteq InUse(g)
    BY <1>4 DEF OwnersOf
<1> QED BY <1>17, <1>21, <1>22 DEF OwnersOf, own2, T


LEMMA KeepsOn ==
    ASSUME NEW h, NEW slot, NEW h1, NEW slot1, NEW h2, NEW slot2, NEW s,
           Keeps(h, slot, h1, slot1, s), Keeps(h1, slot1, h2, slot2, s)
    PROVE  Keeps(h, slot, h2, slot2, s)
BY DEF Keeps

LEMMA LinkKeeps ==
    ASSUME NEW h, IsHeap(h), NEW back \in ListNodes(h), NEW b \in ListNodes(h),
           h[b].type = h[back].type, h[b].value # NULL, b # back,
           NEW slot, NEW slot2, NEW s, slot[back] # s,
           \A x \in InUse(h) : slot[x] = s => slot2[x] = s
    PROVE  Keeps(h, slot, Linked(h, back, b), slot2, s)
<1> DEFINE g == Linked(h, back, b)
<1>1. /\ \A x \in DOMAIN h :
           /\ g[x].type = h[x].type
           /\ NextOf(g, x) = IF x = back THEN b ELSE NextOf(h, x)
      /\ ListNodes(g) = ListNodes(h)
    BY LinkedNodes
<1>2. ListNodes(h) \subseteq InUse(h) /\ ListNodes(h) \subseteq DOMAIN h
    BY ListNodesInUse DEF ListNodes
<1> HIDE DEF g
<1>3. Keeps(h, slot, g, slot2, s)
    BY <1>1, <1>2 DEF Keeps
<1> QED BY <1>3 DEF g

\* json_parser makes a node of an item and links it behind the list.
LEMMA LinksNext ==
    ASSUME NEW h, NEW H, NEW S, NEW r, OwnersOf(h, H, S, r), S # <<>>, Last(S).list # NULL,
           NEW node, Fits(h, node, Last(S).key, r), node.type = KindOf(Last(S).close), r # NULL,
           NEW f, f = Between(Last(S).close, Last(S).list, Fresh(h))
    PROVE  OwnersOf(Linked(New(h, node), Last(S).back, Fresh(h)), H, Topped(S, f), NULL)
<1> DEFINE n == Fresh(h)
           g == New(h, node)
           back == Last(S).back
           g2 == Linked(g, back, n)
           f1 == Between(Last(S).close, Last(S).list, back)
           m == Len(S)
           d == <<"list", m>>
           sk == <<"key", m>>
           sv == <<"ret", 0>>
           own == OwnOf(H, S, r)
           own1 == OwnOf(H, Topped(S, f1), n)
           own2 == OwnOf(H, Topped(S, f), NULL)
<1>1. PICK sub, slot : Owned(h, sub, own, slot) /\ StackInv(h, slot, S)
    BY DEF OwnersOf
<1>2. IsHeap(h) /\ IsForest(h, sub) /\ Parted(h, sub, own, slot)
    BY <1>1 DEF Owned
<1>3. HasRoom(h)
    BY DEF Fits
<1>4. /\ n \in DOMAIN g /\ g[n] = node /\ n # NULL /\ n \notin DOMAIN h
      /\ InUse(h) \subseteq InUse(g) /\ DOMAIN h \subseteq DOMAIN g
      /\ \A x \in DOMAIN h : g[x] = h[x]
  <2>1. /\ DOMAIN g = DOMAIN h \union {n} /\ InUse(g) = InUse(h) \union {n}
        /\ g[n] = node /\ n # NULL
        /\ n \notin DOMAIN h /\ \A x \in DOMAIN h : g[x] = h[x]
      BY <1>2, <1>3, NewHeap
  <2> HIDE DEF n, g
  <2> QED BY <2>1
<1>5. /\ IsNode(h, node) /\ NameOf(g, n) = Last(S).key /\ ValueOf(g, n) = r /\ NextOf(g, n) = NULL
    BY DEF Fits
<1>6. m \in Nat \ {0} /\ Last(S) \in Frames(h) /\ IsFrame(h, slot, m, Last(S))
    BY <1>1, TopFrame
<1>7. S \in Seq(Frames(h))
    BY <1>1, StackSequence
<1>8. /\ Last(S).close \in {CloseArray, CloseObject} /\ Last(S).list \in Pointers(h)
      /\ back \in ListNodes(h) /\ h[back].type = KindOf(Last(S).close)
      /\ slot[back] = d /\ NextOf(h, back) = NULL
    BY <1>6 DEF IsFrame, Frames
<1>9. /\ f.list = Last(S).list /\ f.back = n /\ f.key = NULL /\ f.first = FALSE
      /\ f.close = Last(S).close /\ f1.list = Last(S).list /\ f1.key = NULL
    BY DEF Between
<1>10. /\ Part(sub, NULL) = {} /\ NULL \in Pointers(h)
    BY <1>2, NothingOwned
<1>11. /\ d # sk /\ d # sv /\ sk # sv
       /\ \A i \in 1..(m - 1) : <<"list", i>> # d /\ <<"list", i>> # sk /\ <<"list", i>> # sv
    BY <1>6
<1>12. TopRead(own, own1, S, r, f1, n)
    BY <1>7, TopReads
<1>13. TopRead(own, own2, S, r, f, NULL)
    BY <1>7, TopReads
<1> HIDE DEF own, own1, own2, f1, back
<1>14. /\ sk \in Slots /\ sv \in Slots /\ d \in Slots
       /\ own[sk] = Last(S).key /\ own[sv] = r /\ own[d] = Last(S).list
       /\ own1[sv] = n /\ own1[sk] = NULL /\ own1[d] = Last(S).list
       /\ \A s \in Slots : s # d /\ s # sk /\ s # sv => own1[s] = own[s]
    BY <1>9, <1>12 DEF TopRead
<1>15. own2[sv] = NULL /\ \A s \in Slots \ {sv} : own2[s] = own1[s]
  <2>1. /\ own2[d] = Last(S).list /\ own2[sk] = NULL /\ own2[sv] = NULL
        /\ \A s \in Slots : s # d /\ s # sk /\ s # sv => own2[s] = own[s]
      BY <1>9, <1>13 DEF TopRead
  <2> HIDE DEF d, sk, sv
  <2> QED BY <1>14, <2>1
<1> HIDE DEF d, sk, sv, m
<1>16. \A s \in Slots : own[s] \in Pointers(h) /\ Part(sub, own[s]) = {x \in InUse(h) : slot[x] = s}
    BY <1>2 DEF Parted
<1>17. \A s \in Slots \ {sv} :
          /\ own1[s] \in Pointers(h)
          /\ Part(sub, own1[s]) = IF s = sk \/ s = sv THEN {} ELSE Part(sub, own[s])
    BY <1>10, <1>11, <1>14, <1>16
<1>18. \E sub1, slot1 :
         /\ Owned(g, sub1, own1, slot1)
         /\ slot1[n] = sv
         /\ \A x \in InUse(h) : slot1[x] = IF slot[x] = sk \/ slot[x] = sv THEN sv ELSE slot[x]
  <2> DEFINE k == Last(S).key
  <2>1. /\ k = NameOf(g, n) /\ k \in Pointers(h)
        /\ r = ValueOf(g, n) /\ r \in Pointers(h) /\ NextOf(g, n) = NULL
      BY <1>5, <1>14, <1>16
  <2>2. /\ Part(sub, own[sk]) = Part(sub, k) /\ Part(sub, own[sv]) = Part(sub, r)
        /\ own1[sv] = n
      BY <1>14
  <2>3. Part(sub, k) \intersect Part(sub, r) = {}
      BY <1>11, <1>14, <1>16
  <2> HIDE DEF k, n, g
  <2> QED BY <1>1, <1>3, <1>5, <1>14, <1>17, <2>1, <2>2, <2>3, NewOwned DEF n, g
<1>19. PICK sub1, slot1 :
         /\ Owned(g, sub1, own1, slot1)
         /\ slot1[n] = sv
         /\ \A x \in InUse(h) : slot1[x] = IF slot[x] = sk \/ slot[x] = sv THEN sv ELSE slot[x]
    BY <1>18
<1>20. IsHeap(g) /\ IsForest(g, sub1)
    BY <1>19 DEF Owned
<1>21. /\ back \in ListNodes(g) /\ NextOf(g, back) = NULL /\ slot1[back] = d
       /\ n \in ListNodes(g) /\ g[n].type = g[back].type /\ g[n].value # NULL /\ n # back
  <2> HIDE DEF n, g
  <2>1. back \in DOMAIN h /\ h[back].type \in {"object", "array"} /\ back \in InUse(h)
      BY <1>2, <1>8, ListNodesInUse DEF ListNodes
  <2>2. g[back] = h[back] /\ back \in DOMAIN g
      BY <1>4, <2>1
  <2>3. back \in ListNodes(g) /\ NextOf(g, back) = NULL
      BY <1>8, <2>1, <2>2 DEF ListNodes, NextOf
  <2>4. slot1[back] = d
      BY <1>8, <1>11, <1>19, <2>1
  <2>5. n \in ListNodes(g) /\ g[n].type = g[back].type /\ n # back
      BY <1>4, <1>8, <2>1, <2>2 DEF ListNodes
  <2>6. g[n].value = ValueOf(g, n)
      BY <2>5 DEF ListNodes, ValueOf, Lists
  <2> QED BY <1>5, <2>3, <2>4, <2>5, <2>6 DEF n, g
<1>22. Part(sub1, own2[sv]) = {} /\ own2[sv] \in Pointers(g)
    BY <1>15, <1>20, NothingOwned
<1> HIDE DEF n, g
<1>23. \E sub2, slot2 :
         /\ Owned(Linked(g, back, n), sub2, own2, slot2)
         /\ \A x \in InUse(g) : slot2[x] = IF slot1[x] = sv THEN slot1[back] ELSE slot1[x]
    BY <1>11, <1>14, <1>15, <1>19, <1>21, <1>22, LinkOwned
<1>24. PICK sub2, slot2 :
         /\ Owned(g2, sub2, own2, slot2)
         /\ \A x \in InUse(g) : slot2[x] = IF slot1[x] = sv THEN d ELSE slot1[x]
    BY <1>21, <1>23
<1>25. ASSUME NEW i \in 1..(m - 1) PROVE Keeps(h, slot, g2, slot2, <<"list", i>>)
  <2> DEFINE s == <<"list", i>>
  <2>1. s # d /\ s # sk /\ s # sv
      BY <1>11
  <2> HIDE DEF s
  <2>2. \A x \in InUse(h) : slot[x] = s => slot1[x] = s
      BY <1>19, <2>1
  <2>3. Keeps(h, slot, g, slot1, s)
      BY <1>2, <1>3, <2>2, NewKeeps DEF g
  <2>4. \A x \in InUse(g) : slot1[x] = s => slot2[x] = s
      BY <1>24, <2>1
  <2>5. Keeps(g, slot1, g2, slot2, s)
      BY <1>20, <1>21, <2>1, <2>4, LinkKeeps
  <2>6. Keeps(h, slot, g2, slot2, s)
      BY <2>3, <2>5, KeepsOn
  <2> QED BY <2>6 DEF s
<1>26. /\ ListNodes(g2) = ListNodes(g) /\ DOMAIN g2 = DOMAIN g /\ InUse(g2) = InUse(g)
       /\ g2[n].type = g[n].type /\ NextOf(g2, n) = NextOf(g, n)
  <2>1. n \in DOMAIN g
      BY <1>21 DEF ListNodes
  <2> QED BY <1>20, <1>21, <2>1, LinkedNodes
<1> HIDE DEF g2
<1>27. f \in Frames(g2) /\ IsFrame(g2, slot2, m, f)
  <2>1. n \in InUse(g) /\ n \in Pointers(g2) /\ Last(S).list \in Pointers(g2)
    <3>1. n \in InUse(g)
        BY <1>20, <1>21, ListNodesInUse
    <3> QED BY <1>4, <1>8, <1>26, <3>1 DEF Pointers, InUse, g, n
  <2>2. f \in Frames(g2)
      BY <1>8, <2>1, BetweenReads DEF n
  <2>3. slot2[n] = d
      BY <1>19, <1>24, <2>1
  <2>4. g2[n].type = KindOf(f.close) /\ NextOf(g2, n) = NULL /\ n \in ListNodes(g2)
    <3>1. g[n] = node /\ NextOf(g, n) = NULL
        BY <1>4, <1>5 DEF g, n
    <3> QED BY <1>9, <1>21, <1>26, <3>1
  <2> QED BY <1>9, <2>2, <2>3, <2>4 DEF IsFrame, d, n
<1>28. StackInv(g2, slot2, Topped(S, f))
    BY <1>1, <1>24, <1>25, <1>27, ToppedInv DEF own2, m
<1>29. H \subseteq InUse(g2)
  <2>1. InUse(h) \subseteq InUse(g)
      BY <1>4 DEF g, n
  <2> QED BY <1>26, <2>1 DEF OwnersOf
<1>30. OwnersOf(g2, H, Topped(S, f), NULL)
    BY <1>24, <1>28, <1>29 DEF OwnersOf, own2
<1> QED BY <1>30 DEF g2, g, n, back


LEMMA SameKeeps ==
    ASSUME NEW h, IsHeap(h), NEW slot, NEW slot2, NEW s,
           \A x \in InUse(h) : slot[x] = s => slot2[x] = s
    PROVE  Keeps(h, slot, h, slot2, s)
BY ListNodesInUse DEF Keeps

LEMMA DropKeeps ==
    ASSUME NEW h, IsHeap(h), NEW g, NEW own2, NEW slot, NEW slot2, NEW s, NEW d, s # d,
           Dropped(h, g, slot, d, own2), \A x \in InUse(g) : slot2[x] = slot[x]
    PROVE  Keeps(h, slot, g, slot2, s)
<1>1. InUse(g) = {x \in InUse(h) : slot[x] # d} /\ \A x \in DOMAIN g : g[x] = h[x]
    BY DEF Dropped
<1>2. ListNodes(h) \subseteq InUse(h)
    BY ListNodesInUse
<1>3. ASSUME NEW x \in ListNodes(h), slot[x] = s
      PROVE  /\ x \in ListNodes(g) /\ g[x].type = h[x].type
             /\ slot2[x] = s /\ NextOf(g, x) = NextOf(h, x)
  <2>1. x \in InUse(g) /\ x \in DOMAIN g /\ g[x] = h[x] /\ h[x].type \in {"object", "array"}
      BY <1>1, <1>2, <1>3 DEF InUse, ListNodes
  <2> QED BY <1>3, <2>1 DEF ListNodes, NextOf
<1> QED BY <1>3 DEF Keeps

\* What the program holds is its own, and stays.
LEMMA HeldSlots ==
    ASSUME NEW h, NEW sub, NEW H, NEW S, NEW r, NEW slot, Owned(h, sub, OwnOf(H, S, r), slot),
           NEW x \in H, H \subseteq InUse(h)
    PROVE  x \in Nat /\ slot[x] = <<"held", x>>
<1> DEFINE own == OwnOf(H, S, r)
           s == <<"held", x>>
<1>1. IsHeap(h) /\ IsForest(h, sub) /\ Parted(h, sub, own, slot)
    BY DEF Owned
<1>2. x \in Nat /\ x \in InUse(h)
    BY <1>1, Addresses
<1>3. Reading(own, H, S, r) /\ s \in Slots
    BY <1>2, OwnReads, SlotForms
<1>4. x \in Part(sub, x)
    BY <1>1, <1>2, KidsWithin DEF Part
<1> HIDE DEF own
<1>5. own[s] = x
    BY <1>2, <1>3 DEF Reading
<1> HIDE DEF s
<1>6. Part(sub, own[s]) = {y \in InUse(h) : slot[y] = s}
    BY <1>1, <1>3 DEF Parted
<1> QED BY <1>2, <1>4, <1>5, <1>6 DEF s

LEMMA HeldStay ==
    ASSUME NEW h, NEW sub, NEW H, NEW S, NEW r, NEW slot, Owned(h, sub, OwnOf(H, S, r), slot),
           H \subseteq InUse(h), NEW g, NEW own2, NEW d, Dropped(h, g, slot, d, own2)
    PROVE  \A x \in H : <<"held", x>> # d => x \in InUse(g)
<1> TAKE x \in H
<1>1. x \in InUse(h) /\ slot[x] = <<"held", x>>
    BY HeldSlots
<1> QED BY <1>1 DEF Dropped

\* The frame f differs from the top of the stack S in its name, and in that it is
\* not to read a first item any more.
Renamed(S, f, k) ==
    /\ f = [close |-> f.close, list |-> f.list, back |-> f.back, key |-> f.key, first |-> f.first]
    /\ f.close = Last(S).close /\ f.list = Last(S).list /\ f.back = Last(S).back /\ f.key = k
    /\ f.first \in BOOLEAN /\ (f.first => Last(S).first)

LEMMA RenamedInv ==
    ASSUME NEW h, NEW slot, NEW S, StackInv(h, slot, S), S # <<>>, Last(S).close = CloseObject,
           NEW f, NEW k, Renamed(S, f, k), NEW H2, NEW r2,
           NEW h2, NEW sub2, NEW slot2, Owned(h2, sub2, OwnOf(H2, Topped(S, f), r2), slot2),
           \A i \in 1..Len(S) : Keeps(h, slot, h2, slot2, <<"list", i>>)
    PROVE  StackInv(h2, slot2, Topped(S, f))
<1>1. /\ Len(S) \in Nat \ {0} /\ Last(S) \in Frames(h) /\ IsFrame(h, slot, Len(S), Last(S))
    BY TopFrame
<1>2. S \in Seq(Frames(h)) /\ IsSequence(S)
    BY StackSequence
<1> DEFINE T == Topped(S, f)
<1>3. IsSequence(T) /\ Len(T) = Len(S) /\ T[Len(S)] = f
    BY <1>2, Replaced
<1> HIDE DEF T
<1>4. f.list \in Pointers(h2) /\ f.key \in Pointers(h2)
  <2>1. Len(S) \in 1..Len(T)
      BY <1>1, <1>3
  <2>2. Owned(h2, sub2, OwnOf(H2, T, r2), slot2)
      BY DEF T
  <2> QED BY <1>3, <2>1, <2>2, StackPointers
<1>5. CloseArray # CloseObject
    BY DEF CloseArray, CloseObject
<1>6. /\ Keeps(h, slot, h2, slot2, <<"list", Len(S)>>)
      /\ \A i \in 1..(Len(S) - 1) : Keeps(h, slot, h2, slot2, <<"list", i>>)
    BY <1>1
<1>7. f \in Frames(h2) /\ IsFrame(h2, slot2, Len(S), f)
  <2>1. Last(S).list \in Pointers(h2) /\ NULL \in Pointers(h2)
      BY <1>4 DEF Renamed, Pointers
  <2> DEFINE e == [close |-> f.close, list |-> f.list, back |-> f.back, key |-> NULL,
                   first |-> f.first]
  <2>2. /\ e.close = Last(S).close /\ e.list = Last(S).list /\ e.back = Last(S).back
        /\ e.key = NULL /\ e.first = f.first
      BY DEF Renamed
  <2>3. e \in Frames(h)
    <3>1. NULL \in Pointers(h)
        BY DEF Pointers
    <3> QED BY <1>1, <3>1 DEF Frames, Renamed
  <2> HIDE DEF e
  <2>4. IsFrame(h, slot, Len(S), e)
      BY <1>1, <1>5, <2>2 DEF IsFrame, Renamed
  <2>5. e \in Frames(h2) /\ IsFrame(h2, slot2, Len(S), e)
      BY <1>6, <2>1, <2>2, <2>3, <2>4, FrameKept
  <2>6. f \in Frames(h2)
    <3>1. e.back \in Pointers(h2) /\ e.close \in {CloseArray, CloseObject}
        BY <2>5 DEF Frames
    <3> QED BY <1>4, <2>2, <3>1 DEF Frames, Renamed
  <2>7. IsFrame(h2, slot2, Len(S), f)
      BY <1>5, <2>2, <2>5 DEF IsFrame, Renamed
  <2> QED BY <2>6, <2>7
<1> QED BY <1>6, <1>7, ToppedInv


\* The rest of a pair is not there.
LEMMA GoesOn ==
    ASSUME NEW h, NEW H, NEW S, NEW r, OwnersOf(h, H, S, r), S # <<>>,
           Last(S).close = CloseObject, NEW f, Renamed(S, f, Last(S).key)
    PROVE  OwnersOf(h, H, Topped(S, f), r)
<1> DEFINE own == OwnOf(H, S, r)
           own2 == OwnOf(H, Topped(S, f), r)
<1>1. PICK sub, slot : Owned(h, sub, own, slot) /\ StackInv(h, slot, S)
    BY DEF OwnersOf
<1>2. IsHeap(h) /\ S \in Seq(Frames(h))
    BY <1>1, StackSequence DEF Owned
<1>3. TopRead(own, own2, S, r, f, r)
    BY <1>2, TopReads
<1> HIDE DEF own, own2
<1>4. \A s \in Slots : own2[s] = own[s]
    BY <1>3 DEF TopRead, Renamed
<1>5. Owned(h, sub, own2, slot)
    BY <1>1, <1>4, SameOwned
<1>6. \A i \in 1..Len(S) : Keeps(h, slot, h, slot, <<"list", i>>)
    BY <1>2, SameKeeps
<1>7. StackInv(h, slot, Topped(S, f))
    BY <1>1, <1>5, <1>6, RenamedInv DEF own2
<1> QED BY <1>5, <1>7 DEF OwnersOf, own2

\* read_k_v takes what json_parser returns for a name.
LEMMA TakesName ==
    ASSUME NEW h, NEW H, NEW S, NEW r, OwnersOf(h, H, S, r), S # <<>>,
           Last(S).close = CloseObject, Last(S).key = NULL, NEW f, Renamed(S, f, r)
    PROVE  OwnersOf(h, H, Topped(S, f), NULL)
<1> DEFINE d == <<"key", Len(S)>>
           s == <<"ret", 0>>
           own == OwnOf(H, S, r)
           own2 == OwnOf(H, Topped(S, f), NULL)
<1>1. PICK sub, slot : Owned(h, sub, own, slot) /\ StackInv(h, slot, S)
    BY DEF OwnersOf
<1>2. IsHeap(h) /\ IsForest(h, sub) /\ S \in Seq(Frames(h))
    BY <1>1, StackSequence DEF Owned
<1>3. TopRead(own, own2, S, r, f, NULL)
    BY <1>2, TopReads
<1>4. Part(sub, NULL) = {}
    BY <1>2, NothingOwned
<1>5. \A i \in 1..Len(S) : <<"list", i>> # s /\ <<"list", i>> # d
    OBVIOUS
<1> HIDE DEF own, own2
<1>6. /\ s \in Slots /\ d \in Slots /\ s # d /\ own[d] = NULL
      /\ own2[d] = own[s] /\ own2[s] = NULL
      /\ \A t \in Slots \ {s, d} : own2[t] = own[t]
    BY <1>3 DEF TopRead, Renamed
<1> HIDE DEF d, s
<1>7. PICK slot2 :
        /\ Owned(h, sub, own2, slot2)
        /\ \A x \in InUse(h) : slot2[x] = IF slot[x] = s THEN d ELSE slot[x]
    BY <1>1, <1>4, <1>6, MoveOwned
<1>8. \A i \in 1..Len(S) : Keeps(h, slot, h, slot2, <<"list", i>>)
    BY <1>2, <1>5, <1>7, SameKeeps
<1>9. StackInv(h, slot2, Topped(S, f))
    BY <1>1, <1>7, <1>8, RenamedInv DEF own2
<1> QED BY <1>7, <1>9 DEF OwnersOf, own2

\* read_k_v deletes the name that it has read.
LEMMA DropsName ==
    ASSUME NEW h, NEW H, NEW S, NEW r, OwnersOf(h, H, S, r), S # <<>>,
           Last(S).close = CloseObject, NEW f, Renamed(S, f, NULL)
    PROVE  OwnersOf(Deleted(h, Last(S).key), H, Topped(S, f), r)
<1> DEFINE s == <<"key", Len(S)>>
           a == Last(S).key
           g == Deleted(h, a)
           own == OwnOf(H, S, r)
           own2 == OwnOf(H, Topped(S, f), r)
<1>1. PICK sub, slot : Owned(h, sub, own, slot) /\ StackInv(h, slot, S)
    BY DEF OwnersOf
<1>2. IsHeap(h) /\ IsForest(h, sub) /\ S \in Seq(Frames(h))
    BY <1>1, StackSequence DEF Owned
<1>3. TopRead(own, own2, S, r, f, r)
    BY <1>2, TopReads
<1>4. \A i \in 1..Len(S) : <<"list", i>> # s
    OBVIOUS
<1> HIDE DEF own, own2
<1>5. a = own[s] /\ GivesUp(own, own2, s)
    BY <1>3 DEF TopRead, Renamed, GivesUp
<1> HIDE DEF s, a
<1>6. Dropped(h, g, slot, s, own2)
  <2>1. Dropped(h, Deleted(h, own[s]), slot, s, own2)
      BY <1>1, <1>5, DropOwned
  <2> QED BY <1>5, <2>1
<1> HIDE DEF g
<1>7. PICK sub2, slot2 : Owned(g, sub2, own2, slot2) /\ \A x \in InUse(g) : slot2[x] = slot[x]
    BY <1>6 DEF Dropped
<1>8. \A i \in 1..Len(S) : Keeps(h, slot, g, slot2, <<"list", i>>)
    BY <1>2, <1>4, <1>6, <1>7, DropKeeps
<1>9. StackInv(g, slot2, Topped(S, f))
    BY <1>1, <1>7, <1>8, RenamedInv DEF own2
<1>10. H \subseteq InUse(g)
  <2>1. \A x \in H : <<"held", x>> # s
      BY DEF s
  <2>2. H \subseteq InUse(h)
      BY DEF OwnersOf
  <2> QED BY <1>1, <1>6, <2>1, <2>2, HeldStay DEF own
<1> QED BY <1>7, <1>9, <1>10 DEF OwnersOf, own2, g, a

\* read_k_v deletes what json_parser returns to it.
LEMMA DropsValue ==
    ASSUME NEW h, NEW H, NEW S, NEW r, OwnersOf(h, H, S, r)
    PROVE  OwnersOf(Deleted(h, r), H, S, NULL)
<1> DEFINE s == <<"ret", 0>>
           g == Deleted(h, r)
           own == OwnOf(H, S, r)
           own2 == OwnOf(H, S, NULL)
           X == {s}
<1>1. PICK sub, slot : Owned(h, sub, own, slot) /\ StackInv(h, slot, S)
    BY DEF OwnersOf
<1>2. IsHeap(h)
    BY <1>1 DEF Owned
<1>3. s \in Slots /\ Reading(own, H, S, r) /\ Reading(own2, H, S, NULL)
    BY SlotForms, OwnReads
<1>4. s \in X
    OBVIOUS
<1> HIDE DEF X
<1>5. Apart(X, H, S, r, H, S, NULL)
    BY <1>4 DEF Apart
<1>6. \A t \in Slots : t \notin X => own2[t] = own[t]
    BY <1>5, OwnSame
<1> HIDE DEF own, own2
<1>7. r = own[s] /\ own2[s] = NULL
    BY <1>3 DEF Reading
<1>8. GivesUp(own, own2, s)
    BY <1>3, <1>6, <1>7 DEF GivesUp, X
<1>9. \A i \in 1..Len(S) : <<"list", i>> # s
    OBVIOUS
<1> HIDE DEF s
<1>10. Dropped(h, g, slot, s, own2)
  <2>1. Dropped(h, Deleted(h, own[s]), slot, s, own2)
      BY <1>1, <1>8, DropOwned
  <2> QED BY <1>7, <2>1
<1> HIDE DEF g
<1>11. PICK sub2, slot2 : Owned(g, sub2, own2, slot2) /\ \A x \in InUse(g) : slot2[x] = slot[x]
    BY <1>10 DEF Dropped
<1>12. \A i \in 1..Len(S) : Keeps(h, slot, g, slot2, <<"list", i>>)
    BY <1>2, <1>9, <1>10, <1>11, DropKeeps
<1>13. StackInv(g, slot2, S)
    BY <1>1, <1>11, <1>12, StackSame DEF own2
<1>14. H \subseteq InUse(g)
  <2>1. \A x \in H : <<"held", x>> # s
      BY DEF s
  <2>2. H \subseteq InUse(h)
      BY DEF OwnersOf
  <2> QED BY <1>1, <1>10, <2>1, <2>2, HeldStay DEF own
<1> QED BY <1>11, <1>13, <1>14 DEF OwnersOf, own2, g


\* An array or object ends, and json_parser returns it.
LEMMA EndsList ==
    ASSUME NEW h, NEW H, NEW S, NEW r, OwnersOf(h, H, S, r), r \in Statics \union {NULL},
           S # <<>>, Last(S).key = NULL
    PROVE  OwnersOf(h, H, Front(S), Last(S).list)
<1> DEFINE m == Len(S)
           T == Front(S)
           s == <<"list", m>>
           k == <<"key", m>>
           d == <<"ret", 0>>
           own == OwnOf(H, S, r)
           own2 == OwnOf(H, T, Last(S).list)
           X == {s, k, d}
<1>1. PICK sub, slot : Owned(h, sub, own, slot) /\ StackInv(h, slot, S)
    BY DEF OwnersOf
<1>2. IsHeap(h) /\ IsForest(h, sub) /\ S \in Seq(Frames(h))
    BY <1>1, StackSequence DEF Owned
<1>3. /\ T \in Seq(Frames(h)) /\ Len(T) = m - 1 /\ m \in Nat \ {0} /\ Last(S) = S[m]
      /\ \A i \in 1..(m - 1) : T[i] = S[i]
      /\ \A n \in Nat :
           /\ ListAt(T, n) = IF n = m THEN NULL ELSE ListAt(S, n)
           /\ KeyAt(T, n) = IF n = m THEN NULL ELSE KeyAt(S, n)
    BY <1>2, Popped
<1>4. ListAt(S, m) = Last(S).list /\ KeyAt(S, m) = NULL
  <2>1. m \in DOMAIN S
      BY <1>2, <1>3
  <2> QED BY <1>3, <2>1 DEF ListAt, KeyAt
<1>5. s \in Slots /\ k \in Slots /\ d \in Slots /\ s # d /\ s # k /\ k # d
    BY <1>3, SlotForms
<1>6. Reading(own, H, S, r) /\ Reading(own2, H, T, Last(S).list)
    BY OwnReads
<1>7. /\ \A n \in Nat : (<<"list", n>> \notin X => n # m) /\ (<<"key", n>> \notin X => n # m)
      /\ <<"ret", 0>> \in X
    OBVIOUS
<1> HIDE DEF T, X
<1>8. Apart(X, H, S, r, H, T, Last(S).list)
    BY <1>3, <1>7 DEF Apart
<1>9. \A t \in Slots : t \notin X => own2[t] = own[t]
    BY <1>8, OwnSame
<1> HIDE DEF own, own2
<1>10. /\ own[s] = Last(S).list /\ own[k] = NULL /\ own[d] = r
       /\ own2[s] = NULL /\ own2[k] = NULL /\ own2[d] = Last(S).list
    BY <1>3, <1>4, <1>6 DEF Reading
<1>11. \A i \in 1..(m - 1) : <<"list", i>> # s /\ <<"list", i>> # d
    BY <1>3
<1> HIDE DEF s, k, d
<1>12. \A t \in Slots \ {s, d} : own2[t] = own[t]
    BY <1>9, <1>10 DEF X
<1>13. Part(sub, own[d]) = {}
    BY <1>2, <1>10, NothingOwned
<1>14. PICK slot2 :
         /\ Owned(h, sub, own2, slot2)
         /\ \A x \in InUse(h) : slot2[x] = IF slot[x] = s THEN d ELSE slot[x]
    BY <1>1, <1>5, <1>10, <1>12, <1>13, MoveOwned
<1>15. IsSequence(T)
    BY <1>3, Sequences
<1>16. ASSUME NEW i \in 1..Len(T) PROVE T[i] \in Frames(h) /\ IsFrame(h, slot2, i, T[i])
  <2>1. i \in 1..(m - 1) /\ i \in 1..Len(S) /\ T[i] = S[i]
      BY <1>3 DEF m
  <2>2. Keeps(h, slot, h, slot2, <<"list", i>>)
      BY <1>2, <1>11, <1>14, <2>1, SameKeeps
  <2> QED BY <1>1, <1>14, <1>15, <2>1, <2>2, StackKept DEF own2
<1>17. StackInv(h, slot2, T)
    BY <1>15, <1>16, StackMade
<1> QED BY <1>14, <1>17 DEF OwnersOf, own2, T

\* The program gets what json_parser returns.
LEMMA GetsValue ==
    ASSUME NEW h, NEW H, NEW S, NEW r, OwnersOf(h, H, S, r),
           NEW H2, H2 = H \union ({r} \ ({NULL} \union Statics))
    PROVE  OwnersOf(h, H2, S, NULL)
<1>1. CASE r \in Statics \union {NULL}
  <2>1. H2 = H
      BY <1>1
  <2>2. OwnersOf(h, H, S, NULL)
      BY <1>1, ReturnsStatic
  <2> QED BY <2>1, <2>2
<1>2. CASE r \notin Statics \union {NULL}
  <2> DEFINE s == <<"ret", 0>>
             d == <<"held", r>>
             own == OwnOf(H, S, r)
             own2 == OwnOf(H2, S, NULL)
             X == {s, d}
  <2>1. PICK sub, slot : Owned(h, sub, own, slot) /\ StackInv(h, slot, S)
      BY DEF OwnersOf
  <2>2. IsHeap(h) /\ IsForest(h, sub) /\ Parted(h, sub, own, slot)
      BY <2>1 DEF Owned
  <2>3. Reading(own, H, S, r) /\ Reading(own2, H2, S, NULL) /\ s \in Slots
      BY OwnReads, SlotForms
  <2>4. H2 = H \union {r} /\ H \subseteq InUse(h)
      BY <1>2 DEF OwnersOf
  <2> HIDE DEF own, own2
  <2>5. own[s] = r /\ own2[s] = NULL
      BY <2>3 DEF Reading
  <2>6. \A t \in Slots :
           own[t] \in Pointers(h) /\ Part(sub, own[t]) = {x \in InUse(h) : slot[x] = t}
      BY <2>2 DEF Parted
  <2>7. r \in InUse(h)
    <3>1. own[s] \in Pointers(h)
        BY <2>3, <2>6
    <3> QED BY <1>2, <2>5, <3>1 DEF Pointers, InUse
  <2>8. r \in Nat /\ r \in Part(sub, r)
    <3>1. r \in Nat
        BY <2>2, <2>7, Addresses
    <3>2. r \in sub[r] /\ r \in DOMAIN sub
        BY <2>2, <2>7, KidsWithin DEF IsForest
    <3> QED BY <3>1, <3>2 DEF Part
  <2>9. d \in Slots /\ s # d
      BY <2>8, SlotForms
  <2>10. slot[r] = s
      BY <2>3, <2>5, <2>6, <2>8
  <2>11. r \notin H
    <3> SUFFICES ASSUME r \in H PROVE FALSE
        OBVIOUS
    <3>1. slot[r] = <<"held", r>>
        BY <2>1, <2>4, HeldSlots DEF own
    <3> QED BY <2>9, <2>10, <3>1
  <2>12. own[d] = NULL /\ own2[d] = r
      BY <2>3, <2>4, <2>8, <2>11 DEF Reading
  <2>13. /\ \A n \in Nat : <<"held", n>> \notin X => n # r
         /\ <<"ret", 0>> \in X
      OBVIOUS
  <2> HIDE DEF X
  <2>14. Apart(X, H, S, r, H2, S, NULL)
      BY <2>4, <2>13 DEF Apart
  <2>15. \A t \in Slots : t \notin X => own2[t] = own[t]
      BY <2>14, OwnSame DEF own, own2
  <2>16. \A t \in Slots \ {s, d} : own2[t] = own[t]
      BY <2>15 DEF X
  <2>17. \A i \in 1..Len(S) : <<"list", i>> # s /\ <<"list", i>> # d
      OBVIOUS
  <2> HIDE DEF s, d
  <2>18. Part(sub, own[d]) = {} /\ own2[d] = own[s]
      BY <2>2, <2>5, <2>12, NothingOwned
  <2>19. PICK slot2 :
           /\ Owned(h, sub, own2, slot2)
           /\ \A x \in InUse(h) : slot2[x] = IF slot[x] = s THEN d ELSE slot[x]
      BY <2>1, <2>3, <2>5, <2>9, <2>16, <2>18, MoveOwned
  <2>20. \A i \in 1..Len(S) : Keeps(h, slot, h, slot2, <<"list", i>>)
      BY <2>2, <2>17, <2>19, SameKeeps
  <2>21. StackInv(h, slot2, S)
      BY <2>1, <2>19, <2>20, StackSame DEF own2
  <2> QED BY <2>4, <2>7, <2>19, <2>21 DEF OwnersOf, own2
<1> QED BY <1>1, <1>2


(***************************************************************************)
(* The program's calls, as they change who owns what.                      *)
(***************************************************************************)
LEMMA EmptyStack ==
    ASSUME NEW h, NEW slot
    PROVE  StackInv(h, slot, <<>>)
BY DEF StackInv

\* The slot of what the program gives to a constructor; 0 is no value.
HeldAt(H, k) == IF k \in H THEN <<"held", k>> ELSE <<"held", 0>>

LEMMA HeldReads ==
    ASSUME NEW h, NEW sub, NEW H, NEW slot, Owned(h, sub, OwnOf(H, <<>>, NULL), slot),
           H \subseteq InUse(h), NEW k \in H \union Statics \union {NULL}
    PROVE  /\ HeldAt(H, k) \in Slots /\ k \in Pointers(h)
           /\ Part(sub, OwnOf(H, <<>>, NULL)[HeldAt(H, k)]) = Part(sub, k)
           /\ Part(sub, k) = {x \in InUse(h) : slot[x] = HeldAt(H, k)}
<1> DEFINE own == OwnOf(H, <<>>, NULL)
           s == HeldAt(H, k)
<1>1. IsHeap(h) /\ IsForest(h, sub) /\ Parted(h, sub, own, slot)
    BY DEF Owned
<1>2. H \subseteq Nat /\ 0 \notin H /\ NULL = 0
    BY <1>1, Addresses
<1>3. Reading(own, H, <<>>, NULL)
    BY OwnReads
<1> HIDE DEF own
<1>4. s \in Slots /\ Part(sub, own[s]) = Part(sub, k) /\ k \in Pointers(h)
  <2>1. CASE k \in H
    <3>1. s = <<"held", k>> /\ k \in Nat
        BY <1>2, <2>1 DEF HeldAt
    <3>2. own[s] = k
        BY <1>3, <2>1, <3>1 DEF Reading
    <3>3. k \in Pointers(h)
        BY <2>1 DEF Pointers, InUse
    <3> QED BY <3>1, <3>2, <3>3, SlotForms
  <2>2. CASE k \notin H
    <3>1. s = <<"held", 0>> /\ 0 \in Nat
        BY <2>2 DEF HeldAt
    <3>2. own[s] = NULL
        BY <1>2, <1>3, <3>1 DEF Reading
    <3>3. Part(sub, NULL) = {} /\ Part(sub, k) = {} /\ k \in Pointers(h)
        BY <1>1, <2>2, NothingOwned
    <3> QED BY <3>1, <3>2, <3>3, SlotForms
  <2> QED BY <2>1, <2>2
<1> HIDE DEF s
<1>5. Part(sub, own[s]) = {x \in InUse(h) : slot[x] = s}
    BY <1>1, <1>4 DEF Parted
<1> QED BY <1>4, <1>5 DEF own, s

\* A constructor makes a value of k and v, which the program gives up.
LEMMA NewHeld ==
    ASSUME NEW h, NEW H, OwnersOf(h, H, <<>>, NULL), NEW node,
           NEW k \in H \union Statics \union {NULL}, NEW v \in H \union Statics \union {NULL},
           Fits(h, node, k, v), k # v \/ k \notin H,
           NEW H2, H2 = (H \ {k, v}) \union {Fresh(h)}
    PROVE  OwnersOf(New(h, node), H2, <<>>, NULL)
<1> DEFINE n == Fresh(h)
           g == New(h, node)
           d == <<"held", n>>
           sk == HeldAt(H, k)
           sv == HeldAt(H, v)
           own == OwnOf(H, <<>>, NULL)
           own2 == OwnOf(H2, <<>>, NULL)
           X == {d, sk, sv}
<1>1. PICK sub, slot : Owned(h, sub, own, slot)
    BY DEF OwnersOf
<1>2. IsHeap(h) /\ IsForest(h, sub) /\ Parted(h, sub, own, slot) /\ H \subseteq InUse(h)
    BY <1>1 DEF Owned, OwnersOf
<1>3. /\ sk \in Slots /\ k \in Pointers(h) /\ Part(sub, own[sk]) = Part(sub, k)
      /\ Part(sub, k) = {x \in InUse(h) : slot[x] = sk}
    BY <1>1, <1>2, HeldReads
<1>4. /\ sv \in Slots /\ v \in Pointers(h) /\ Part(sub, own[sv]) = Part(sub, v)
      /\ Part(sub, v) = {x \in InUse(h) : slot[x] = sv}
    BY <1>1, <1>2, HeldReads
<1>5. /\ n \notin DOMAIN h /\ n # NULL /\ n \in Nat /\ InUse(g) = InUse(h) \union {n}
  <2>1. HasRoom(h)
      BY DEF Fits
  <2> QED BY <1>2, <2>1, NewHeap, ValueAssumption
<1>6. H \subseteq Nat \ {0} /\ n \notin H /\ NULL = 0 /\ \A x \in H : x \notin Statics
    BY <1>2, <1>5, Addresses DEF InUse
<1>7. Part(sub, NULL) = {} /\ NULL \in Pointers(h)
    BY <1>2, NothingOwned
<1>8. Part(sub, k) \intersect Part(sub, v) = {}
  <2>1. CASE k \in H /\ v \in H
    <3>1. sk # sv
        BY <2>1 DEF HeldAt
    <3> QED BY <1>3, <1>4, <3>1
  <2>2. CASE k \notin H
      BY <1>2, <2>2, NothingOwned
  <2>3. CASE v \notin H
      BY <1>2, <2>3, NothingOwned
  <2> QED BY <2>1, <2>2, <2>3
<1>9. Reading(own, H, <<>>, NULL) /\ Reading(own2, H2, <<>>, NULL)
    BY OwnReads
<1>10. \A x \in Nat : <<"held", x>> \notin X => (x \in H <=> x \in H2)
  <2> TAKE x \in Nat
  <2> HAVE <<"held", x>> \notin X
  <2>1. x # n /\ <<"held", x>> # sk /\ <<"held", x>> # sv
      OBVIOUS
  <2> HIDE DEF X
  <2>2. (k \in H => x # k) /\ (v \in H => x # v)
      BY <2>1 DEF HeldAt
  <2> QED BY <2>1, <2>2
<1> HIDE DEF X
<1>11. Apart(X, H, <<>>, NULL, H2, <<>>, NULL)
    BY <1>10 DEF Apart
<1>12. \A s \in Slots : s \notin X => own2[s] = own[s]
    BY <1>11, OwnSame
<1>13. d \in Slots /\ n \in H2
    BY <1>5, SlotForms
<1> HIDE DEF own, own2
<1>14. own[d] = NULL /\ own2[d] = n
    BY <1>5, <1>6, <1>9, <1>13 DEF Reading
<1>15. ASSUME NEW u \in {k, v}, HeldAt(H, u) # d PROVE own2[HeldAt(H, u)] = NULL
  <2>1. CASE u \in H
    <3>1. HeldAt(H, u) = <<"held", u>> /\ u \in Nat /\ u \notin H2
        BY <1>6, <2>1 DEF HeldAt
    <3> QED BY <1>9, <3>1 DEF Reading
  <2>2. CASE u \notin H
    <3>1. HeldAt(H, u) = <<"held", 0>> /\ 0 \in Nat /\ 0 \notin H2
        BY <1>5, <1>6, <2>2 DEF HeldAt
    <3> QED BY <1>9, <3>1 DEF Reading
  <2> QED BY <2>1, <2>2
<1>16. \A s \in Slots : own[s] \in Pointers(h)
    BY <1>2 DEF Parted
<1>17. \A s \in Slots \ {d} :
          /\ own2[s] \in Pointers(h)
          /\ Part(sub, own2[s]) = IF s = sk \/ s = sv THEN {} ELSE Part(sub, own[s])
  <2>1. ASSUME NEW s \in Slots \ {d}
        PROVE  /\ own2[s] \in Pointers(h)
               /\ Part(sub, own2[s]) = IF s = sk \/ s = sv THEN {} ELSE Part(sub, own[s])
    <3>1. CASE s = sk \/ s = sv
      <4>1. own2[s] = NULL
          BY <1>15, <2>1, <3>1
      <4> QED BY <1>7, <3>1, <4>1
    <3>2. CASE s # sk /\ s # sv
        BY <1>12, <1>16, <2>1, <3>2 DEF X
    <3> QED BY <3>1, <3>2
  <2> QED BY <2>1
<1>18. /\ IsNode(h, node) /\ HasRoom(h)
       /\ k = NameOf(g, n) /\ v = ValueOf(g, n) /\ NextOf(g, n) = NULL
    BY DEF Fits
<1> HIDE DEF n, g, d, sk, sv
<1>19. \E sub2, slot2 :
         /\ Owned(g, sub2, own2, slot2)
         /\ slot2[n] = d
         /\ \A x \in InUse(h) : slot2[x] = IF slot[x] = sk \/ slot[x] = sv THEN d ELSE slot[x]
  <2>1. /\ Part(sub, own[d]) = {} /\ own2[d] = n
        /\ Part(sub, own[sk]) = Part(sub, k) /\ Part(sub, own[sv]) = Part(sub, v)
      BY <1>3, <1>4, <1>7, <1>14
  <2>2. sk \in Slots /\ sv \in Slots /\ d \in Slots /\ k \in Pointers(h) /\ v \in Pointers(h)
      BY <1>3, <1>4, <1>13
  <2> QED BY <1>1, <1>8, <1>17, <1>18, <2>1, <2>2, NewOwned DEF n, g
<1>20. PICK sub2, slot2 : Owned(g, sub2, own2, slot2)
    BY <1>19
<1>21. H2 \subseteq InUse(g)
    BY <1>2, <1>5 DEF n
<1> QED BY <1>20, <1>21, EmptyStack DEF OwnersOf, own2, g


\* The program deletes a value that it has.
LEMMA DropsHeld ==
    ASSUME NEW h, NEW H, OwnersOf(h, H, <<>>, NULL), NEW a \in H
    PROVE  OwnersOf(Deleted(h, a), H \ {a}, <<>>, NULL)
<1> DEFINE s == <<"held", a>>
           g == Deleted(h, a)
           H2 == H \ {a}
           own == OwnOf(H, <<>>, NULL)
           own2 == OwnOf(H2, <<>>, NULL)
           X == {s}
<1>1. PICK sub, slot : Owned(h, sub, own, slot)
    BY DEF OwnersOf
<1>2. H \subseteq InUse(h)
    BY DEF OwnersOf
<1>3. a \in Nat /\ a \notin H2
    BY <1>1, <1>2, HeldSlots
<1>4. s \in Slots /\ Reading(own, H, <<>>, NULL) /\ Reading(own2, H2, <<>>, NULL)
    BY <1>3, SlotForms, OwnReads
<1>5. \A n \in Nat : <<"held", n>> \notin X => (n \in H <=> n \in H2)
    OBVIOUS
<1>6. \A x \in H2 : x \in H /\ <<"held", x>> # s
    OBVIOUS
<1> HIDE DEF X, H2
<1>7. Apart(X, H, <<>>, NULL, H2, <<>>, NULL)
    BY <1>5 DEF Apart
<1>8. \A t \in Slots : t \notin X => own2[t] = own[t]
    BY <1>7, OwnSame
<1> HIDE DEF own, own2
<1>9. own[s] = a /\ own2[s] = NULL
    BY <1>3, <1>4 DEF Reading
<1>10. GivesUp(own, own2, s)
    BY <1>4, <1>8, <1>9 DEF GivesUp, X
<1> HIDE DEF s
<1>11. Dropped(h, g, slot, s, own2)
  <2>1. Dropped(h, Deleted(h, own[s]), slot, s, own2)
      BY <1>1, <1>10, DropOwned
  <2> QED BY <1>9, <2>1
<1> HIDE DEF g
<1>12. PICK sub2, slot2 : Owned(g, sub2, own2, slot2)
    BY <1>11 DEF Dropped
<1>13. \A x \in H : <<"held", x>> # s => x \in InUse(g)
    BY <1>1, <1>2, <1>11, HeldStay DEF own
<1>14. H2 \subseteq InUse(g)
    BY <1>6, <1>13
<1> QED BY <1>12, <1>14, EmptyStack DEF OwnersOf, own2, g, H2

\* The program joins two lists, of which the second has items.
LEMMA JoinsHeld ==
    ASSUME NEW h, NEW H, OwnersOf(h, H, <<>>, NULL), NEW a \in H, NEW b \in H, a # b,
           a \in ListNodes(h), b \in ListNodes(h), h[a].type = h[b].type, h[b].value # NULL,
           NEW back, back = Last(Nodes(h, a))
    PROVE  OwnersOf(Linked(h, back, b), H \ {b}, <<>>, NULL)
<1> DEFINE sb == <<"held", b>>
           g == Linked(h, back, b)
           H2 == H \ {b}
           own == OwnOf(H, <<>>, NULL)
           own2 == OwnOf(H2, <<>>, NULL)
           X == {sb}
<1>1. PICK sub, slot : Owned(h, sub, own, slot)
    BY DEF OwnersOf
<1>2. IsHeap(h) /\ IsForest(h, sub) /\ H \subseteq InUse(h)
    BY <1>1 DEF Owned, OwnersOf
<1>3. a \in Nat /\ b \in Nat /\ b \notin H2 /\ slot[a] = <<"held", a>> /\ slot[b] = sb
    BY <1>1, <1>2, HeldSlots
<1>4. sb \in Slots /\ Reading(own, H, <<>>, NULL) /\ Reading(own2, H2, <<>>, NULL)
    BY <1>3, SlotForms, OwnReads
<1>5. \A n \in Nat : <<"held", n>> \notin X => (n \in H <=> n \in H2)
    OBVIOUS
<1>6. H2 \subseteq H
    OBVIOUS
<1> HIDE DEF X, H2
<1>7. Apart(X, H, <<>>, NULL, H2, <<>>, NULL)
    BY <1>5 DEF Apart
<1>8. \A t \in Slots : t \notin X => own2[t] = own[t]
    BY <1>7, OwnSame
<1> HIDE DEF own, own2
<1>9. own[sb] = b /\ own2[sb] = NULL
    BY <1>3, <1>4 DEF Reading
<1>10. \A t \in Slots \ {sb} : own2[t] = own[t]
    BY <1>8 DEF X
<1>11. /\ back \in sub[a] /\ h[back].type = h[a].type /\ NextOf(h, back) = NULL
  <2>1. Chain(h, sub, a, Nodes(h, a))
      BY <1>2, NodesChain
  <2> DEFINE s == Nodes(h, a)
  <2>2. back = s[Len(s)]
      BY DEF Last
  <2> HIDE DEF s
  <2>3. s \in Seq(Int) /\ Len(s) # 0 /\ NextOf(h, s[Len(s)]) = NULL
        /\ \A i \in 1..Len(s) : s[i] \in sub[a] /\ h[s[i]].type = h[a].type
      BY <2>1 DEF Chain, s
  <2>4. Len(s) \in 1..Len(s)
      BY <2>3
  <2> QED BY <2>2, <2>3, <2>4
<1>12. back \in InUse(h) /\ slot[back] = <<"held", a>>
    BY <1>1, <1>2, <1>3, <1>11, OwnedWhole
<1>13. back \in ListNodes(h) /\ slot[back] # sb /\ h[b].type = h[back].type
    BY <1>11, <1>12 DEF ListNodes, InUse
<1>14. Part(sub, NULL) = {} /\ NULL \in Pointers(h)
    BY <1>2, NothingOwned
<1> HIDE DEF sb
<1>15. \E sub2, slot2 :
         /\ Owned(g, sub2, own2, slot2)
         /\ \A x \in InUse(h) : slot2[x] = IF slot[x] = sb THEN slot[back] ELSE slot[x]
  <2>1. Part(sub, own2[sb]) = {} /\ own2[sb] \in Pointers(h)
      BY <1>9, <1>14
  <2> QED BY <1>1, <1>4, <1>9, <1>10, <1>11, <1>13, <2>1, LinkOwned
<1>16. PICK sub2, slot2 : Owned(g, sub2, own2, slot2)
    BY <1>15
<1>17. InUse(g) = InUse(h)
  <2>1. b # back
      BY <1>3, <1>12, <1>13 DEF sb
  <2> QED BY <1>2, <1>13, <2>1, LinkedNodes
<1>18. H2 \subseteq InUse(g)
    BY <1>2, <1>6, <1>17
<1> QED BY <1>16, <1>18, EmptyStack DEF OwnersOf, own2, H2

\* A number is set.
LEMMA SetsHeld ==
    ASSUME NEW h, NEW H, OwnersOf(h, H, <<>>, NULL), NEW a \in DOMAIN h, h[a].type = "number",
           NEW node, node.type = "number", NEW g, g = [h EXCEPT ![a] = node]
    PROVE  OwnersOf(g, H, <<>>, NULL)
<1> DEFINE own == OwnOf(H, <<>>, NULL)
<1>1. PICK sub, slot : Owned(h, sub, own, slot)
    BY DEF OwnersOf
<1>2. IsHeap(h) /\ IsForest(h, sub) /\ Parted(h, sub, own, slot) /\ H \subseteq InUse(h)
    BY <1>1 DEF Owned, OwnersOf
<1> HIDE DEF own
<1>3. /\ DOMAIN g = DOMAIN h /\ InUse(g) = InUse(h) /\ Pointers(g) = Pointers(h)
      /\ g[a] = node /\ \A x \in DOMAIN h : x # a => g[x] = h[x]
    BY DEF InUse, Pointers
<1>4. InUse(h) \subseteq DOMAIN h
    BY DEF InUse
<1>5. \A x \in DOMAIN h : /\ g[x].type = h[x].type /\ (x = a => g[x].type = "number")
                          /\ (g[x].type \in Lists => g[x] = h[x])
    BY <1>3 DEF Lists
<1>6. \A x \in DOMAIN h : /\ NameOf(g, x) = NameOf(h, x) /\ ValueOf(g, x) = ValueOf(h, x)
                          /\ NextOf(g, x) = NextOf(h, x)
    BY <1>5 DEF NameOf, ValueOf, NextOf, Lists
<1>7. IsHeap(g)
  <2>1. \A x \in Statics : g[x] = StaticHeap[x]
    <3>1. a \notin Statics
        BY <1>2, NodeTypes
    <3> QED BY <1>2, <1>3, <3>1 DEF IsHeap
  <2>2. ASSUME NEW x \in InUse(g) PROVE IsNode(g, g[x]) /\ Followed(g, x)
    <3>1. IsNode(h, h[x]) /\ Followed(h, x) /\ x \in DOMAIN h
        BY <1>2, <1>3, <1>4 DEF IsHeap
    <3>2. IsNode(g, g[x])
      <4>1. CASE x = a
          BY <1>3, <4>1 DEF IsNode
      <4>2. CASE x # a
          BY <1>3, <3>1, <4>2 DEF IsNode
      <4> QED BY <4>1, <4>2
    <3>3. Followed(g, x)
      <4> SUFFICES ASSUME NextOf(g, x) # NULL
                   PROVE  g[NextOf(g, x)].type = g[x].type /\ g[NextOf(g, x)].value # NULL
          BY DEF Followed
      <4> DEFINE y == NextOf(g, x)
      <4>1. y = NextOf(h, x) /\ y # NULL
          BY <1>6, <3>1
      <4>2. y \in DOMAIN h /\ h[x].type \in Lists
          BY <1>2, <1>3, <1>4, <4>1, NodePointers DEF NextOf
      <4> HIDE DEF y
      <4>3. h[y].type = h[x].type /\ h[y].value # NULL
          BY <3>1, <4>1 DEF Followed
      <4>4. g[y] = h[y] /\ g[x].type = h[x].type
          BY <1>5, <3>1, <4>2, <4>3
      <4>5. g[y].type = g[x].type /\ g[y].value # NULL
          BY <4>3, <4>4
      <4> QED BY <4>5 DEF y
    <3> QED BY <3>2, <3>3
  <2> QED BY <1>2, <1>3, <2>1, <2>2 DEF IsHeap
<1>8. IsForest(g, sub)
    BY <1>2, <1>3, <1>4, <1>6 DEF IsForest, Holds
<1>9. Parted(g, sub, own, slot)
    BY <1>2, <1>3 DEF Parted
<1> QED BY <1>2, <1>3, <1>7, <1>8, <1>9, EmptyStack DEF OwnersOf, Owned, own


(***************************************************************************)
(* The steps of json_parser preserve the invariant.                        *)
(***************************************************************************)
LEMMA WholeHeap ==
    ASSUME NEW h, NEW H, NEW S, NEW r, OwnersOf(h, H, S, r)
    PROVE  /\ IsHeap(h) /\ r \in Pointers(h) /\ r # Calling /\ H \subseteq InUse(h)
           /\ S \in Seq(Frames(h)) /\ IsSequence(S)
           /\ \E sub : IsForest(h, sub)
<1> DEFINE own == OwnOf(H, S, r)
<1>1. PICK sub, slot : Owned(h, sub, own, slot) /\ StackInv(h, slot, S)
    BY DEF OwnersOf
<1>2. IsHeap(h) /\ IsForest(h, sub) /\ Parted(h, sub, own, slot)
    BY <1>1 DEF Owned
<1>3. S \in Seq(Frames(h)) /\ IsSequence(S)
    BY <1>1, StackSequence
<1>4. Reading(own, H, S, r) /\ <<"ret", 0>> \in Slots
    BY OwnReads, SlotForms
<1> HIDE DEF own
<1>5. own[<<"ret", 0>>] = r /\ own[<<"ret", 0>>] \in Pointers(h)
    BY <1>2, <1>4 DEF Reading, Parted
<1>6. Calling # NULL
    BY DEF Calling, NULL
<1>7. Calling \notin Pointers(h)
    BY <1>2, <1>6, Addresses DEF Pointers
<1> QED BY <1>2, <1>3, <1>5, <1>7 DEF OwnersOf

\* What a constructor makes a node of.
LEMMA LeafFits ==
    ASSUME NEW h, IsHeap(h), HasRoom(h), NEW node, node.type \notin Lists, IsNode(h, node)
    PROVE  Fits(h, node, NULL, NULL)
<1>1. New(h, node)[Fresh(h)] = node
    BY NewHeap
<1> QED BY <1>1 DEF Fits, NameOf, ValueOf, NextOf, Lists

LEMMA ItemFits ==
    ASSUME NEW h, IsHeap(h), HasRoom(h), NEW v \in Pointers(h)
    PROVE  Fits(h, Array(v), NULL, v) /\ Array(v).type = "array"
<1> DEFINE node == Array(v)
<1>1. node.type = "array" /\ node.value = v /\ node.next = NULL
    BY DEF Array
<1>2. node \in [type : {"array"}, value : Pointers(h), next : InUse(h) \union {NULL}]
    BY DEF Array
<1> HIDE DEF node
<1>3. New(h, node)[Fresh(h)] = node
    BY NewHeap
<1>4. IsNode(h, node)
    BY <1>2 DEF IsNode
<1>5. Fits(h, node, NULL, v)
    BY <1>1, <1>3, <1>4 DEF Fits, NameOf, ValueOf, NextOf, Lists
<1> QED BY <1>1, <1>5 DEF node

LEMMA PairFits ==
    ASSUME NEW h, IsHeap(h), HasRoom(h), NEW k \in Pointers(h), NEW v \in Pointers(h),
           v # NULL => k # NULL
    PROVE  Fits(h, Object(k, v), k, v) /\ Object(k, v).type = "object"
<1> DEFINE node == Object(k, v)
<1>1. node.type = "object" /\ node.name = k /\ node.value = v /\ node.next = NULL
    BY DEF Object
<1>2. node \in [type : {"object"}, name : Pointers(h), value : Pointers(h),
                next : InUse(h) \union {NULL}]
    BY DEF Object
<1> HIDE DEF node
<1>3. New(h, node)[Fresh(h)] = node
    BY NewHeap
<1>4. IsNode(h, node)
    BY <1>1, <1>2 DEF IsNode
<1>5. Fits(h, node, k, v)
    BY <1>1, <1>3, <1>4 DEF Fits, NameOf, ValueOf, NextOf, Lists
<1> QED BY <1>1, <1>5 DEF node

\* json_parser at its entry
LEMMA AtEntry ==
    ASSUME JsonInv, Entering
    PROVE  /\ text # <<>> /\ IsText(text) /\ Here \in 1..Len(text)
           /\ OwnersOf(heap, held, stack, NULL) /\ IsHeap(heap)
<1>1. text # <<>> /\ IsText(text) /\ pos \in 1..Len(text) /\ OwnersOf(heap, held, stack, NULL)
    BY DEF JsonInv, Entering, InHand
<1>2. Here \in 1..Len(text)
    BY <1>1, SkipsWhiteSpace DEF Here
<1> QED BY <1>1, <1>2, WholeHeap

\* json_parser where a call of itself has returned.
LEMMA AtReturn ==
    ASSUME JsonInv, Returned
    PROVE  /\ text # <<>> /\ IsText(text) /\ pos \in 1..Len(text) /\ PastComma \in 1..Len(text)
           /\ OwnersOf(heap, held, stack, ret) /\ IsHeap(heap) /\ ret \in Pointers(heap)
           /\ stack # <<>> /\ stack \in Seq(Frames(heap)) /\ Top \in Frames(heap)
           /\ Top.first => Top.list = NULL
           /\ Top.close = CloseArray => Top.key = NULL /\ (Top.first \/ Top.list # NULL)
<1>1. text # <<>> /\ IsText(text) /\ pos \in 1..Len(text) /\ OwnersOf(heap, held, stack, ret)
      /\ stack # <<>>
    BY DEF JsonInv, Returned, InHand
<1>2. PastComma \in 1..Len(text)
  <2>1. Comma # 0
      BY DEF Comma
  <2>2. text[pos] = Comma => pos + 1 \in 1..Len(text)
      BY <1>1, <2>1, NextCharacter
  <2>3. text[pos] = Comma => SkipWhiteSpace(text, pos + 1) \in 1..Len(text)
      BY <1>1, <2>2, SkipsWhiteSpace
  <2> QED BY <1>1, <2>3 DEF PastComma
<1>3. IsHeap(heap) /\ ret \in Pointers(heap) /\ stack \in Seq(Frames(heap))
    BY <1>1, WholeHeap
<1>4. PICK sub, slot : StackInv(heap, slot, stack)
    BY <1>1 DEF OwnersOf
<1>5. Top \in Frames(heap) /\ IsFrame(heap, slot, Len(stack), Top)
    BY <1>1, <1>4, TopFrame DEF Top
<1> QED BY <1>1, <1>2, <1>3, <1>5 DEF IsFrame

LEMMA ReturnsTo ==
    ASSUME JsonInv, text # <<>>, NEW v, NEW p \in 1..Len(text), Return(v, p),
           UNCHANGED <<held, text, fault, work>>, OwnersOf(heap', held, stack', v)
    PROVE  JsonInv'
<1>1. IsText(text)
    BY DEF JsonInv
<1>2. pos' \in 1..Len(text')
    BY <1>1, SkipsWhiteSpace DEF Return
<1>3. ret' = v /\ v # Calling
    BY WholeHeap DEF Return
<1>4. InHand' = v
    BY <1>3 DEF InHand
<1> QED BY <1>1, <1>2, <1>4 DEF JsonInv

LEMMA CallsAgain ==
    ASSUME JsonInv, text # <<>>, NEW f, NEW p \in 1..Len(text), CallAgain(f, p),
           UNCHANGED <<held, text, fault, work>>, OwnersOf(heap', held, Topped(stack, f), NULL)
    PROVE  JsonInv'
<1>1. IsText(text)
    BY DEF JsonInv
<1>2. pos' \in 1..Len(text') /\ stack' = Topped(stack, f) /\ ret' = Calling
    BY DEF CallAgain, Topped
<1>3. InHand' = NULL
    BY <1>2 DEF InHand
<1> QED BY <1>1, <1>2, <1>3 DEF JsonInv

LEMMA ReadsStringInv == JsonInv /\ ReadsString => JsonInv'
<1> SUFFICES ASSUME JsonInv, ReadsString PROVE JsonInv'
    OBVIOUS
<1> DEFINE end == SkipString(text, Here + 1)
           p == IF text[end] = Quote THEN end + 1 ELSE end
<1>1. /\ Entering /\ text[Here] = Quote /\ HasRoom(heap)
      /\ \E b \in Behind : heap' = New(heap, StringRead(b))
      /\ Return(Fresh(heap), p)
      /\ UNCHANGED <<held, text, stack, fault, work>>
    BY DEF ReadsString
<1>2. /\ text # <<>> /\ IsText(text) /\ Here \in 1..Len(text)
      /\ OwnersOf(heap, held, stack, NULL) /\ IsHeap(heap)
    BY <1>1, AtEntry
<1>3. Quote # 0
    BY DEF Quote
<1>4. Here + 1 \in 1..Len(text)
    BY <1>1, <1>2, <1>3, NextCharacter
<1>5. end \in 1..Len(text)
    BY <1>2, <1>4, SkipsString
<1>6. p \in 1..Len(text)
  <2>1. text[end] = Quote => end + 1 \in 1..Len(text)
      BY <1>2, <1>3, <1>5, NextCharacter
  <2> QED BY <1>5, <2>1
<1>7. PICK b \in Behind : heap' = New(heap, StringRead(b))
    BY <1>1
<1> DEFINE node == StringRead(b)
<1>8. node.type = "string" /\ IsSequence(node.text)
  <2>1. Here + 1 \in Nat /\ end \in Nat
      BY <1>4, <1>5
  <2>2. node = String(Unescaped(text \o b, Here + 1, end))
      BY DEF StringRead
  <2> HIDE DEF end, node
  <2>3. IsSequence(Unescaped(text \o b, Here + 1, end))
      BY <2>1, UnescapedSequence
  <2> QED BY <2>2, <2>3, StringsAreSequences
<1> HIDE DEF end, node, p
<1>9. IsNode(heap, node) /\ node.type \notin Lists
    BY <1>8 DEF IsNode, Lists
<1>10. Fits(heap, node, NULL, NULL)
    BY <1>1, <1>2, <1>9, LeafFits
<1>11. OwnersOf(New(heap, node), held, stack, Fresh(heap))
    BY <1>2, <1>10, ReturnsNew DEF Fits
<1>12. heap' = New(heap, node)
    BY <1>7 DEF node
<1> QED BY <1>1, <1>2, <1>6, <1>11, <1>12, ReturnsTo

LEMMA ReadsNumberInv == JsonInv /\ ReadsNumber => JsonInv'
<1> SUFFICES ASSUME JsonInv, ReadsNumber PROVE JsonInv'
    OBVIOUS
<1> DEFINE node == ReadNumber(text, Here).node
           p == ReadNumber(text, Here).pos
<1>1. /\ Entering /\ text[Here] \in Digit \union {Minus} /\ HasRoom(heap)
      /\ heap' = New(heap, node) /\ Return(Fresh(heap), p)
      /\ UNCHANGED <<held, text, stack, fault, work>>
    BY DEF ReadsNumber
<1>2. /\ text # <<>> /\ IsText(text) /\ Here \in 1..Len(text)
      /\ OwnersOf(heap, held, stack, NULL) /\ IsHeap(heap)
    BY <1>1, AtEntry
<1>3. p \in 1..Len(text) /\ node.type = "number"
    BY <1>1, <1>2, ReadsNumbers
<1> HIDE DEF p, node
<1>4. IsNode(heap, node) /\ node.type \notin Lists
    BY <1>3 DEF IsNode, Lists
<1>5. Fits(heap, node, NULL, NULL)
    BY <1>1, <1>2, <1>4, LeafFits
<1>6. OwnersOf(New(heap, node), held, stack, Fresh(heap))
    BY <1>2, <1>5, ReturnsNew DEF Fits
<1> QED BY <1>1, <1>2, <1>3, <1>6, ReturnsTo

LEMMA ReadsWordInv == JsonInv /\ ReadsWord => JsonInv'
<1> SUFFICES ASSUME JsonInv, ReadsWord PROVE JsonInv'
    OBVIOUS
<1>1. /\ Entering
      /\ UNCHANGED <<heap, held, text, stack, fault, work>>
      /\ \E v \in Statics \union {NULL}, p \in {Here, Len(text)} : Return(v, p)
    BY DEF ReadsWord, Statics
<1>2. /\ text # <<>> /\ IsText(text) /\ Here \in 1..Len(text)
      /\ OwnersOf(heap, held, stack, NULL)
    BY <1>1, AtEntry
<1>3. Len(text) \in 1..Len(text)
    BY <1>2, TextLength
<1>4. PICK v \in Statics \union {NULL}, p \in 1..Len(text) : Return(v, p)
    BY <1>1, <1>2, <1>3
<1>5. OwnersOf(heap, held, stack, v)
    BY <1>2, ReturnsStatic
<1> QED BY <1>1, <1>2, <1>4, <1>5, ReturnsTo

LEMMA ReadsNothingInv == JsonInv /\ ReadsNothing => JsonInv'
<1> SUFFICES ASSUME JsonInv, ReadsNothing PROVE JsonInv'
    OBVIOUS
<1>1. /\ Entering
      /\ UNCHANGED <<heap, held, text, stack, fault, work>>
      /\ \E v \in Statics \union {NULL} : Return(v, Here)
    BY DEF ReadsNothing, Statics
<1>2. /\ text # <<>> /\ IsText(text) /\ Here \in 1..Len(text)
      /\ OwnersOf(heap, held, stack, NULL)
    BY <1>1, AtEntry
<1>3. PICK v \in Statics \union {NULL} : Return(v, Here)
    BY <1>1
<1>4. OwnersOf(heap, held, stack, v)
    BY <1>2, ReturnsStatic
<1> QED BY <1>1, <1>2, <1>3, <1>4, ReturnsTo

LEMMA OpensInv ==
    ASSUME JsonInv, NEW open, open # 0, NEW close \in {CloseArray, CloseObject},
           NEW empty, empty \in {Array(NULL), Object(NULL, NULL)}, Opens(open, close, empty)
    PROVE  JsonInv'
<1> DEFINE p == SkipWhiteSpace(text, Here + 1)
           q == IF text[p] = close THEN p + 1 ELSE p
           f == [close |-> close, list |-> NULL, back |-> NULL, key |-> NULL, first |-> TRUE]
<1>1. /\ Entering /\ text[Here] = open /\ HasRoom(heap)
      /\ UNCHANGED <<held, text, fault, work>>
      /\ \/ heap' = New(heap, empty) /\ Return(Fresh(heap), q) /\ stack' = stack
         \/ stack' = Append(stack, f) /\ pos' = p /\ UNCHANGED <<heap, ret>>
    BY DEF Opens
<1>2. /\ text # <<>> /\ IsText(text) /\ Here \in 1..Len(text)
      /\ OwnersOf(heap, held, stack, NULL) /\ IsHeap(heap)
    BY <1>1, AtEntry
<1>3. Here + 1 \in 1..Len(text)
    BY <1>1, <1>2, NextCharacter
<1>4. p \in 1..Len(text)
    BY <1>2, <1>3, SkipsWhiteSpace
<1> HIDE DEF p
<1>5. CASE heap' = New(heap, empty) /\ Return(Fresh(heap), q) /\ stack' = stack
  <2>1. close # 0
      BY DEF CloseArray, CloseObject
  <2>2. text[p] = close => p + 1 \in 1..Len(text)
      BY <1>2, <1>4, <2>1, NextCharacter
  <2>3. q \in 1..Len(text)
      BY <1>4, <2>2
  <2> HIDE DEF q
  <2>4. Fits(heap, empty, NULL, NULL)
    <3>1. NULL \in Pointers(heap)
        BY DEF Pointers
    <3>2. Fits(heap, Array(NULL), NULL, NULL) /\ Fits(heap, Object(NULL, NULL), NULL, NULL)
        BY <1>1, <1>2, <3>1, ItemFits, PairFits
    <3> QED BY <3>2
  <2>5. OwnersOf(New(heap, empty), held, stack, Fresh(heap))
      BY <1>2, <2>4, ReturnsNew DEF Fits
  <2> QED BY <1>1, <1>2, <1>5, <2>3, <2>5, ReturnsTo
<1>6. CASE stack' = Append(stack, f) /\ pos' = p /\ UNCHANGED <<heap, ret>>
  <2>1. OwnersOf(heap, held, Append(stack, f), NULL)
      BY <1>2, Opening
  <2> HIDE DEF f
  <2>2. InHand' = NULL
      BY <1>1, <1>6 DEF Entering, InHand
  <2> QED BY <1>1, <1>2, <1>4, <1>6, <2>1, <2>2 DEF JsonInv
<1> QED BY <1>1, <1>5, <1>6

LEMMA OpensListInv == JsonInv /\ (OpensArray \/ OpensObject) => JsonInv'
<1>1. OpenArray # 0 /\ OpenObject # 0
    BY DEF OpenArray, OpenObject
<1>2. ASSUME JsonInv, OpensArray PROVE JsonInv'
    BY <1>1, <1>2, OpensInv DEF OpensArray
<1>3. ASSUME JsonInv, OpensObject PROVE JsonInv'
    BY <1>1, <1>3, OpensInv DEF OpensObject
<1> QED BY <1>2, <1>3


LEMMA LinkedFrame ==
    ASSUME NEW h, NEW f \in Frames(h), NEW n
    PROVE  [f EXCEPT !.list = IF f.first THEN n ELSE @, !.back = n, !.key = NULL, !.first = FALSE]
             = Between(f.close, IF f.first THEN n ELSE f.list, n)
<1> DEFINE D == {"close", "list", "back", "key", "first"}
           x == IF f.first THEN n ELSE f.list
           g == [f EXCEPT !.list = x, !.back = n, !.key = NULL, !.first = FALSE]
           e == Between(f.close, x, n)
<1>1. DOMAIN f = D /\ f = [y \in D |-> f[y]]
    BY DEF Frames
<1> HIDE DEF x
<1>2. g = [y \in D |-> IF y = "first" THEN FALSE ELSE IF y = "key" THEN NULL
                       ELSE IF y = "back" THEN n ELSE IF y = "list" THEN x ELSE f[y]]
    BY <1>1
<1>3. /\ g = [y \in D |-> g[y]] /\ g.close = f.close /\ g.list = x /\ g.back = n
      /\ g.key = NULL /\ g.first = FALSE
    BY <1>2
<1> HIDE DEF g
<1>4. g = [close |-> g.close, list |-> g.list, back |-> g.back, key |-> g.key, first |-> g.first]
    BY <1>3
<1>5. g = e
    BY <1>3, <1>4 DEF Between
<1> QED BY <1>5 DEF x, g

LEMMA RenamedFrame ==
    ASSUME NEW h, NEW S, NEW f \in Frames(h), Last(S) = f, NEW k
    PROVE  Renamed(S, [f EXCEPT !.key = k], k)
           /\ Renamed(S, [f EXCEPT !.key = k, !.first = FALSE], k)
<1> DEFINE D == {"close", "list", "back", "key", "first"}
           Fields(g) == g = [close |-> g.close, list |-> g.list, back |-> g.back, key |-> g.key,
                             first |-> g.first]
<1>1. DOMAIN f = D /\ f = [y \in D |-> f[y]] /\ f.first \in BOOLEAN
    BY DEF Frames
<1>2. ASSUME NEW g, g = [y \in D |-> g[y]] PROVE Fields(g)
    BY <1>2
<1> HIDE DEF Fields
<1>3. ASSUME NEW g, g = [f EXCEPT !.key = k] PROVE Renamed(S, g, k)
  <2>1. g = [y \in D |-> IF y = "key" THEN k ELSE f[y]]
      BY <1>1, <1>3
  <2>2. /\ g = [y \in D |-> g[y]] /\ g.close = f.close /\ g.list = f.list /\ g.back = f.back
        /\ g.key = k /\ g.first = f.first
      BY <2>1
  <2>3. Fields(g)
      BY <1>2, <2>2
  <2> QED BY <1>1, <2>2, <2>3 DEF Renamed, Fields
<1>4. ASSUME NEW g, g = [f EXCEPT !.key = k, !.first = FALSE] PROVE Renamed(S, g, k)
  <2>1. g = [y \in D |-> IF y = "first" THEN FALSE ELSE IF y = "key" THEN k ELSE f[y]]
      BY <1>1, <1>4
  <2>2. /\ g = [y \in D |-> g[y]] /\ g.close = f.close /\ g.list = f.list /\ g.back = f.back
        /\ g.key = k /\ g.first = FALSE
      BY <2>1
  <2>3. Fields(g)
      BY <1>2, <2>2
  <2> QED BY <2>2, <2>3 DEF Renamed, Fields
<1> QED BY <1>3, <1>4

\* A node is linked behind the list of the innermost frame.
LEMMA LinksInv ==
    ASSUME JsonInv, Returned, NEW node, Fits(heap, node, Top.key, ret),
           node.type = KindOf(Top.close), Links(node), UNCHANGED <<held, text, fault, work>>,
           Top.first \/ (Top.list # NULL /\ ret # NULL)
    PROVE  JsonInv'
<1> DEFINE n == Fresh(heap)
           f == Between(Top.close, IF Top.first THEN n ELSE Top.list, n)
<1>1. /\ text # <<>> /\ PastComma \in 1..Len(text)
      /\ OwnersOf(heap, held, stack, ret) /\ IsHeap(heap)
      /\ stack # <<>> /\ Top \in Frames(heap)
    BY AtReturn
<1>2. [Top EXCEPT !.list = IF Top.first THEN n ELSE @, !.back = n, !.key = NULL, !.first = FALSE] = f
    BY <1>1, LinkedFrame
<1>3. /\ heap' = IF Top.first THEN New(heap, node) ELSE Linked(New(heap, node), Top.back, n)
      /\ CallAgain(f, PastComma)
    BY <1>2 DEF Links, Linked
<1>4. Top = Last(stack)
    BY DEF Top
<1> HIDE DEF n, f
<1>5. OwnersOf(heap', held, Topped(stack, f), NULL)
  <2>1. CASE Top.first
    <3>1. f = Between(Top.close, n, n)
        BY <2>1 DEF f
    <3>2. OwnersOf(New(heap, node), held, Topped(stack, f), NULL)
        BY <1>1, <1>4, <2>1, <3>1, LinksFirst DEF n
    <3> QED BY <1>3, <2>1, <3>2
  <2>2. CASE ~Top.first
    <3>1. f = Between(Top.close, Top.list, n)
        BY <2>2 DEF f
    <3>2. Top.list # NULL /\ ret # NULL
        BY <2>2
    <3>3. OwnersOf(Linked(New(heap, node), Top.back, n), held, Topped(stack, f), NULL)
        BY <1>1, <1>4, <3>1, <3>2, LinksNext DEF n
    <3> QED BY <1>3, <2>2, <3>3
  <2> QED BY <2>1, <2>2
<1> QED BY <1>1, <1>3, <1>5, CallsAgain

LEMMA ReadsItemInv == JsonInv /\ ReadsItem => JsonInv'
<1> SUFFICES ASSUME JsonInv, ReadsItem PROVE JsonInv'
    OBVIOUS
<1>1. /\ Returned /\ Top.close = CloseArray /\ (Top.first \/ ret # NULL) /\ HasRoom(heap)
      /\ Links(Array(ret)) /\ UNCHANGED <<held, text, fault, work>>
    BY DEF ReadsItem
<1>2. /\ IsHeap(heap) /\ ret \in Pointers(heap) /\ Top.key = NULL
      /\ Top.first \/ (Top.list # NULL /\ ret # NULL)
    BY <1>1, AtReturn
<1>3. Fits(heap, Array(ret), NULL, ret) /\ Array(ret).type = "array"
    BY <1>1, <1>2, ItemFits
<1>4. KindOf(Top.close) = "array"
    BY <1>1 DEF KindOf
<1> QED BY <1>1, <1>2, <1>3, <1>4, LinksInv

LEMMA RunsOutInv == JsonInv /\ RunsOutOfMemory => JsonInv'
<1> SUFFICES ASSUME JsonInv, RunsOutOfMemory PROVE JsonInv'
    OBVIOUS
<1>1. fault' = "memory" /\ UNCHANGED <<heap, held, text, pos, stack, ret, work>>
    BY DEF RunsOutOfMemory
<1>2. InHand' = InHand
    BY <1>1 DEF InHand
<1> QED BY <1>1, <1>2 DEF JsonInv

\* A list ends, whose frame holds no name, with nothing left of its last item.
LEMMA ClosesInv ==
    ASSUME JsonInv, Returned, CloseList, UNCHANGED <<held, text, fault, work>>,
           NEW f, f.list = Top.list, f.key = NULL, NEW S, S # <<>>, Last(S) = f,
           Front(S) = Front(stack), OwnersOf(heap', held, S, NULL)
    PROVE  JsonInv'
<1> DEFINE p == IF text[pos] = Top.close THEN pos + 1 ELSE pos
<1>1. text # <<>> /\ IsText(text) /\ pos \in 1..Len(text) /\ Top \in Frames(heap)
    BY AtReturn
<1>2. Top.close # 0
    BY <1>1 DEF Frames, CloseArray, CloseObject
<1>3. text[pos] = Top.close => pos + 1 \in 1..Len(text)
    BY <1>1, <1>2, NextCharacter
<1>4. p \in 1..Len(text)
    BY <1>1, <1>3
<1>5. Return(Top.list, p) /\ stack' = Front(stack)
    BY DEF CloseList
<1> HIDE DEF p
<1>6. OwnersOf(heap', held, Front(S), f.list)
    BY EndsList
<1> QED BY <1>1, <1>4, <1>5, <1>6, ReturnsTo

LEMMA EndsArrayInv == JsonInv /\ EndsArray => JsonInv'
<1> SUFFICES ASSUME JsonInv, EndsArray PROVE JsonInv'
    OBVIOUS
<1>1. /\ Returned /\ Top.close = CloseArray /\ ret = NULL /\ CloseList
      /\ UNCHANGED <<heap, held, text, fault, work>>
    BY DEF EndsArray
<1>2. OwnersOf(heap, held, stack, ret) /\ stack # <<>> /\ Top.key = NULL
    BY <1>1, AtReturn
<1>3. Last(stack) = Top
    BY DEF Top
<1> QED BY <1>1, <1>2, <1>3, ClosesInv

LEMMA ReadsNameInv == JsonInv /\ ReadsName => JsonInv'
<1> SUFFICES ASSUME JsonInv, ReadsName PROVE JsonInv'
    OBVIOUS
<1> DEFINE f == [Top EXCEPT !.key = ret]
           p == SkipWhiteSpace(text, pos + 1)
<1>1. /\ Returned /\ Top.close = CloseObject /\ Top.key = NULL /\ text[pos] = Colon
      /\ CallAgain(f, p) /\ UNCHANGED <<heap, held, text, fault, work>>
    BY DEF ReadsName
<1>2. /\ text # <<>> /\ IsText(text) /\ pos \in 1..Len(text)
      /\ OwnersOf(heap, held, stack, ret) /\ stack # <<>> /\ Top \in Frames(heap)
    BY <1>1, AtReturn
<1>3. Colon # 0
    BY DEF Colon
<1>4. pos + 1 \in 1..Len(text)
    BY <1>1, <1>2, <1>3, NextCharacter
<1>5. p \in 1..Len(text)
    BY <1>2, <1>4, SkipsWhiteSpace
<1>6. Last(stack) = Top
    BY DEF Top
<1>7. Renamed(stack, f, ret)
    BY <1>2, <1>6, RenamedFrame
<1> HIDE DEF f, p
<1>8. OwnersOf(heap, held, Topped(stack, f), NULL)
    BY <1>1, <1>2, <1>6, <1>7, TakesName
<1> QED BY <1>1, <1>2, <1>5, <1>8, CallsAgain

LEMMA ReadsPairInv == JsonInv /\ ReadsPair => JsonInv'
<1> SUFFICES ASSUME JsonInv, ReadsPair PROVE JsonInv'
    OBVIOUS
<1>1. /\ Returned /\ Top.close = CloseObject /\ Top.key # NULL /\ ret # NULL /\ HasRoom(heap)
      /\ UNCHANGED <<held, text, work>>
    BY DEF ReadsPair
<1>2. CASE ~Top.first /\ Top.list = NULL
  <2>1. fault' = "null" /\ UNCHANGED <<heap, pos, stack, ret>>
      BY <1>2 DEF ReadsPair
  <2>2. InHand' = InHand
      BY <1>1, <2>1 DEF InHand
  <2> QED BY <1>1, <2>1, <2>2 DEF JsonInv
<1>3. CASE ~(~Top.first /\ Top.list = NULL)
  <2>1. Links(Object(Top.key, ret)) /\ UNCHANGED fault
      BY <1>3 DEF ReadsPair
  <2>2. IsHeap(heap) /\ ret \in Pointers(heap) /\ Top \in Frames(heap)
      BY <1>1, AtReturn
  <2>3. Top.key \in Pointers(heap)
      BY <2>2 DEF Frames
  <2>4. Fits(heap, Object(Top.key, ret), Top.key, ret) /\ Object(Top.key, ret).type = "object"
      BY <1>1, <2>2, <2>3, PairFits
  <2>5. KindOf(Top.close) = "object"
      BY <1>1 DEF KindOf, CloseArray, CloseObject
  <2>6. Top.first \/ (Top.list # NULL /\ ret # NULL)
      BY <1>1, <1>3
  <2> QED BY <1>1, <2>1, <2>4, <2>5, <2>6, LinksInv
<1> QED BY <1>2, <1>3

LEMMA ToppedReads ==
    ASSUME NEW F, NEW S \in Seq(F), S # <<>>, NEW f
    PROVE  Topped(S, f) # <<>> /\ Last(Topped(S, f)) = f /\ Front(Topped(S, f)) = Front(S)
<1> DEFINE T == Front(S)
           G == F \union {f}
<1>1. T \in Seq(F)
    BY Popped
<1>2. T \in Seq(G) /\ f \in G
    BY <1>1
<1> HIDE DEF T, G
<1>3. /\ Append(T, f) # <<>> /\ Len(Append(T, f)) = Len(T) + 1 /\ Len(T) \in Nat
      /\ Append(T, f)[Len(T) + 1] = f /\ \A i \in 1..Len(T) : Append(T, f)[i] = T[i]
    BY <1>2
<1>4. SubSeq(Append(T, f), 1, Len(T)) = T
    BY <1>2, <1>3
<1>5. Last(Append(T, f)) = f /\ Front(Append(T, f)) = T
    BY <1>3, <1>4 DEF Last, Front
<1> QED BY <1>3, <1>5 DEF Topped, T

LEMMA GivesPairUpInv == JsonInv /\ GivesPairUp => JsonInv'
<1> SUFFICES ASSUME JsonInv, GivesPairUp PROVE JsonInv'
    OBVIOUS
<1> DEFINE f == [Top EXCEPT !.key = NULL, !.first = FALSE]
<1>1. /\ Returned /\ Top.close = CloseObject /\ (ret = NULL \/ Top.key = NULL)
      /\ heap' = Deleted(heap, IF Top.key = NULL THEN ret ELSE Top.key)
      /\ IF Top.first THEN CallAgain(f, PastComma) ELSE CloseList
      /\ UNCHANGED <<held, text, fault, work>>
    BY DEF GivesPairUp, NameDeleted
<1>2. /\ text # <<>> /\ PastComma \in 1..Len(text)
      /\ OwnersOf(heap, held, stack, ret) /\ stack # <<>> /\ stack \in Seq(Frames(heap))
      /\ Top \in Frames(heap)
    BY <1>1, AtReturn
<1>3. Last(stack) = Top
    BY DEF Top
<1>4. Renamed(stack, f, NULL)
    BY <1>2, <1>3, RenamedFrame
<1>5. f.list = Top.list /\ f.key = NULL
    BY <1>3, <1>4 DEF Renamed
<1> HIDE DEF f
<1>6. OwnersOf(heap', held, Topped(stack, f), NULL)
  <2>1. CASE Top.key = NULL
    <3>1. OwnersOf(Deleted(heap, ret), held, stack, NULL)
        BY <1>2, DropsValue
    <3>2. OwnersOf(heap', held, stack, NULL)
        BY <1>1, <2>1, <3>1
    <3> QED BY <1>1, <1>2, <1>3, <1>4, <2>1, <3>2, GoesOn
  <2>2. CASE Top.key # NULL
    <3>1. OwnersOf(heap, held, stack, NULL) /\ heap' = Deleted(heap, Top.key)
        BY <1>1, <1>2, <2>2
    <3>2. OwnersOf(Deleted(heap, Top.key), held, Topped(stack, f), NULL)
        BY <1>1, <1>2, <1>3, <1>4, <3>1, DropsName
    <3> QED BY <3>1, <3>2
  <2> QED BY <2>1, <2>2
<1>7. CASE Top.first
    BY <1>1, <1>2, <1>6, <1>7, CallsAgain
<1>8. CASE ~Top.first
  <2>1. /\ Topped(stack, f) # <<>> /\ Last(Topped(stack, f)) = f
        /\ Front(Topped(stack, f)) = Front(stack)
      BY <1>2, ToppedReads
  <2>2. CloseList
      BY <1>1, <1>8
  <2> QED BY <1>1, <1>5, <1>6, <2>1, <2>2, ClosesInv
<1> QED BY <1>7, <1>8

LEMMA ParserInv == JsonInv /\ ParserStep => JsonInv'
BY ReadsStringInv, ReadsNumberInv, ReadsWordInv, ReadsNothingInv, OpensListInv, ReadsItemInv,
   RunsOutInv, EndsArrayInv, ReadsNameInv, ReadsPairInv, GivesPairUpInv DEF ParserStep


(***************************************************************************)
(* The program's calls preserve it.                                        *)
(***************************************************************************)
LEMMA ParsesInv ==
    ASSUME JsonInv, Idle, NEW t, IsText(t), NEW from, NEW cost \in Nat, Parses(t, from, cost),
           work + cost \in 0..MaxWork
    PROVE  JsonInv'
<1>1. /\ text' = t /\ pos' = 1 /\ ret' = Calling /\ work' = work + cost
      /\ UNCHANGED <<heap, held, stack, fault>>
    BY DEF Parses
<1>2. OwnersOf(heap, held, stack, NULL)
    BY DEF JsonInv, InHand, Idle
<1>3. InHand' = NULL
    BY <1>1 DEF InHand
<1>4. 1 \in 1..Len(t) /\ t # <<>>
    BY TextLength
<1> QED BY <1>1, <1>2, <1>3, <1>4 DEF JsonInv

LEMMA ParsesTextInv == JsonInv /\ ParsesText => JsonInv'
<1> SUFFICES ASSUME JsonInv, ParsesText PROVE JsonInv'
    OBVIOUS
<1>1. work \in 0..MaxWork /\ MaxWork \in Nat
    BY JsonAssumption DEF JsonInv
<1>2. PICK t \in Texts \union Samples, cost \in Nat :
        Idle /\ Parses(t, NULL, cost) /\ work + cost \in 0..MaxWork
  <2>1. Idle /\ (\/ work = 0 /\ \E t \in Texts : Parses(t, NULL, MaxWork)
                 \/ work < MaxWork /\ \E t \in Samples : Parses(t, NULL, 1))
      BY DEF ParsesText
  <2>2. CASE work = 0 /\ \E t \in Texts : Parses(t, NULL, MaxWork)
      BY <1>1, <2>1, <2>2
  <2>3. CASE work < MaxWork /\ \E t \in Samples : Parses(t, NULL, 1)
    <3>1. work + 1 \in 0..MaxWork /\ 1 \in Nat
        BY <1>1, <2>3
    <3> QED BY <2>1, <2>3, <3>1
  <2> QED BY <2>1, <2>2, <2>3
<1>3. IsText(t)
  <2> DEFINE N == Nat
  <2>1. t \in Seq(N) /\ t # <<>> /\ \A i \in DOMAIN t : t[i] = 0 <=> i = Len(t)
      BY JsonAssumption
  <2> HIDE DEF N
  <2>2. Len(t) # 0 /\ Len(t) \in DOMAIN t
      BY <2>1
  <2>3. IsSequence(t)
      BY <2>1, Sequences
  <2> QED BY <2>1, <2>2, <2>3 DEF IsText
<1> QED BY <1>2, <1>3, ParsesInv

LEMMA ParsesPrintInv == JsonInv /\ ParsesPrint => JsonInv'
<1> SUFFICES ASSUME JsonInv, ParsesPrint PROVE JsonInv'
    OBVIOUS
<1>1. PICK a \in held \union Statics :
        Idle /\ work < MaxWork /\ Parses(Printed(heap, a) \o <<0>>, a, 1)
    BY DEF ParsesPrint
<1>2. OwnersOf(heap, held, stack, InHand)
    BY DEF JsonInv
<1>3. PICK sub : IsHeap(heap) /\ IsForest(heap, sub) /\ held \subseteq InUse(heap)
    BY <1>2, WholeHeap
<1>4. a \in DOMAIN heap
    BY <1>3 DEF InUse, IsHeap
<1> DEFINE s == Printed(heap, a)
<1>5. IsSequence(s)
    BY <1>3, <1>4, PrintedSequence
<1> HIDE DEF s
<1>6. IsText(s \o <<0>>)
  <2>1. IsSequence(s \o <<0>>)
    <3>1. IsSequence(<<0>>)
        BY ShortSequences
    <3> QED BY <1>5, <3>1, SequencesJoin
  <2>2. Len(s \o <<0>>) = Len(s) + 1 /\ Len(s) \in Nat /\ (s \o <<0>>)[Len(s) + 1] = 0
    <3>1. s \in Seq(ToSet(s) \union {0}) /\ <<0>> \in Seq(ToSet(s) \union {0})
        BY <1>5 DEF IsSequence
    <3> QED BY <3>1
  <2> QED BY <2>1, <2>2 DEF IsText
<1>7. work + 1 \in 0..MaxWork
    BY <1>1, JsonAssumption DEF JsonInv
<1> QED BY <1>1, <1>6, <1>7, ParsesInv DEF s

LEMMA ParsedInv == JsonInv /\ Parsed => JsonInv'
<1> SUFFICES ASSUME JsonInv, Parsed PROVE JsonInv'
    OBVIOUS
<1>1. /\ text # <<>> /\ stack = <<>> /\ ret # Calling
      /\ held' = held \union ({ret} \ ({NULL} \union Statics))
      /\ text' = <<>> /\ pos' = 0 /\ ret' = NULL /\ UNCHANGED <<heap, stack, fault, work>>
    BY DEF Parsed, Done
<1>2. OwnersOf(heap, held, stack, ret)
    BY <1>1 DEF JsonInv, InHand
<1>3. OwnersOf(heap, held', stack, NULL)
    BY <1>1, <1>2, GetsValue
<1>4. InHand' = NULL
    BY <1>1 DEF InHand
<1> QED BY <1>1, <1>3, <1>4 DEF JsonInv

LEMMA CalledInv ==
    ASSUME JsonInv, Call
    PROVE  /\ OwnersOf(heap, held, <<>>, NULL) /\ IsHeap(heap) /\ held \subseteq InUse(heap)
           /\ OwnersOf(heap', held', <<>>, NULL) => JsonInv'
<1>1. text = <<>> /\ stack = <<>> /\ InHand = NULL
    BY DEF Call, Idle, JsonInv, InHand
<1>2. OwnersOf(heap, held, <<>>, NULL)
    BY <1>1 DEF JsonInv
<1>3. InHand' = NULL /\ UNCHANGED <<text, pos, stack, ret, fault>>
    BY <1>1 DEF Call, InHand, parserVars
<1>4. work' \in 0..MaxWork
    BY JsonAssumption DEF Call, JsonInv
<1> QED BY <1>1, <1>2, <1>3, <1>4, WholeHeap DEF JsonInv

LEMMA MakesInv ==
    ASSUME JsonInv, NEW node, NEW used, Makes(node, used),
           NEW k \in held \union Statics \union {NULL}, NEW v \in held \union Statics \union {NULL},
           Fits(heap, node, k, v), k # v \/ k \notin held, held \ used = held \ {k, v}
    PROVE  JsonInv'
<1>1. Call /\ heap' = New(heap, node) /\ held' = (held \ {k, v}) \union {Fresh(heap)}
    BY DEF Makes
<1>2. OwnersOf(heap, held, <<>>, NULL)
    BY <1>1, CalledInv
<1>3. OwnersOf(New(heap, node), held', <<>>, NULL)
    BY <1>1, <1>2, NewHeld
<1> QED BY <1>1, <1>3, CalledInv

LEMMA MakesLeafInv == JsonInv /\ MakesLeaf => JsonInv'
<1> SUFFICES ASSUME JsonInv, MakesLeaf PROVE JsonInv'
    OBVIOUS
<1> DEFINE Leaves == {String(s) : s \in Strings} \union {IntNumber(v) : v \in Ints}
                     \union {FloatNumber(v) : v \in Floats} \union {Object(NULL, NULL), Array(NULL)}
<1>1. PICK node \in Leaves : Makes(node, {})
    BY DEF MakesLeaf
<1>2. Call /\ HasRoom(heap)
    BY <1>1 DEF Makes
<1>3. IsHeap(heap) /\ NULL \notin held
    BY <1>2, CalledInv, Addresses DEF InUse
<1>4. Fits(heap, node, NULL, NULL)
  <2>1. CASE node \in {String(s) : s \in Strings}
    <3>1. PICK s \in Strings : node = String(s)
        BY <2>1
    <3>2. IsSequence(s)
      <4> DEFINE N == Nat
      <4>1. s \in Seq(N)
          BY JsonAssumption
      <4> HIDE DEF N
      <4> QED BY <4>1, Sequences
    <3>3. node.type = "string" /\ IsSequence(node.text)
        BY <3>1, <3>2, StringsAreSequences
    <3>4. IsNode(heap, node) /\ node.type \notin Lists
        BY <3>3 DEF IsNode, Lists
    <3> QED BY <1>2, <1>3, <3>4, LeafFits
  <2>2. CASE node \in {IntNumber(v) : v \in Ints} \union {FloatNumber(v) : v \in Floats}
    <3>1. node.type = "number"
        BY <2>2 DEF IntNumber, FloatNumber
    <3>2. IsNode(heap, node) /\ node.type \notin Lists
        BY <3>1 DEF IsNode, Lists
    <3> QED BY <1>2, <1>3, <3>2, LeafFits
  <2>3. CASE node \in {Object(NULL, NULL), Array(NULL)}
    <3>1. NULL \in Pointers(heap)
        BY DEF Pointers
    <3>2. Fits(heap, Array(NULL), NULL, NULL) /\ Fits(heap, Object(NULL, NULL), NULL, NULL)
        BY <1>2, <1>3, <3>1, ItemFits, PairFits
    <3> QED BY <2>3, <3>2
  <2> QED BY <2>1, <2>2, <2>3
<1> HIDE DEF Leaves
<1>5. held \ {} = held \ {NULL, NULL}
    BY <1>3
<1> QED BY <1>1, <1>3, <1>4, <1>5, MakesInv

LEMMA MakesArrayInv == JsonInv /\ MakesArray => JsonInv'
<1> SUFFICES ASSUME JsonInv, MakesArray PROVE JsonInv'
    OBVIOUS
<1>1. PICK v \in held \union Statics : Makes(Array(v), {v})
    BY DEF MakesArray
<1>2. Call /\ HasRoom(heap)
    BY <1>1 DEF Makes
<1>3. IsHeap(heap) /\ held \subseteq InUse(heap) /\ NULL \notin held
    BY <1>2, CalledInv, Addresses DEF InUse
<1>4. v \in Pointers(heap)
    BY <1>3, Addresses DEF Pointers
<1>5. Fits(heap, Array(v), NULL, v)
    BY <1>2, <1>3, <1>4, ItemFits
<1>6. held \ {v} = held \ {NULL, v}
    BY <1>3
<1> QED BY <1>1, <1>3, <1>5, <1>6, MakesInv

LEMMA MakesPairInv == JsonInv /\ MakesPair => JsonInv'
<1> SUFFICES ASSUME JsonInv, MakesPair PROVE JsonInv'
    OBVIOUS
<1>1. PICK k \in held, v \in held \union Statics : k # v /\ Makes(Object(k, v), {k, v})
    BY DEF MakesPair
<1>2. Call /\ HasRoom(heap)
    BY <1>1 DEF Makes
<1>3. IsHeap(heap) /\ held \subseteq InUse(heap) /\ NULL \notin held
    BY <1>2, CalledInv, Addresses DEF InUse
<1>4. k \in Pointers(heap) /\ v \in Pointers(heap) /\ k # NULL
    BY <1>3, Addresses DEF Pointers
<1>5. Fits(heap, Object(k, v), k, v)
    BY <1>2, <1>3, <1>4, PairFits
<1> QED BY <1>1, <1>5, MakesInv

LEMMA SetsNumberInv == JsonInv /\ SetsNumber => JsonInv'
<1> SUFFICES ASSUME JsonInv, SetsNumber PROVE JsonInv'
    OBVIOUS
<1> DEFINE Numbers == {IntNumber(v) : v \in Ints} \union {FloatNumber(v) : v \in Floats}
<1>1. PICK a \in held, node \in Numbers :
        Call /\ heap[a].type = "number" /\ heap' = [heap EXCEPT ![a] = node] /\ held' = held
    BY DEF SetsNumber
<1>2. node.type = "number"
    BY DEF IntNumber, FloatNumber
<1> HIDE DEF Numbers
<1>3. OwnersOf(heap, held, <<>>, NULL) /\ a \in DOMAIN heap
    BY <1>1, CalledInv DEF InUse
<1>4. OwnersOf(heap', held, <<>>, NULL)
    BY <1>1, <1>2, <1>3, SetsHeld
<1> QED BY <1>1, <1>4, CalledInv

LEMMA ConcatInv ==
    ASSUME JsonInv, NEW a \in held, NEW b \in held, NEW type \in Lists, Concat(type, a, b)
    PROVE  JsonInv'
<1> DEFINE c == Concated(heap, a, b)
           back == Last(Nodes(heap, a))
<1>1. /\ Call /\ a # b /\ heap[a].type = type /\ heap[b].type = type
      /\ heap' = c.heap /\ held' = (held \ {a, b}) \union {c.ret}
    BY DEF Concat
<1>2. OwnersOf(heap, held, <<>>, NULL) /\ held \subseteq InUse(heap)
    BY <1>1, CalledInv
<1>3. a \in ListNodes(heap) /\ b \in ListNodes(heap)
    BY <1>1, <1>2 DEF ListNodes, Lists, InUse
<1>4. OwnersOf(heap', held', <<>>, NULL)
  <2>1. CASE heap[b].value = NULL
    <3>1. c.heap = Deleted(heap, b) /\ c.ret = a
        BY <2>1 DEF Concated
    <3>2. held' = held \ {b}
        BY <1>1, <3>1
    <3>3. OwnersOf(Deleted(heap, b), held \ {b}, <<>>, NULL)
        BY <1>2, DropsHeld
    <3> QED BY <1>1, <3>1, <3>2, <3>3
  <2>2. CASE heap[b].value # NULL /\ heap[a].value = NULL
    <3>1. c.heap = Deleted(heap, a) /\ c.ret = b
        BY <2>2 DEF Concated
    <3>2. held' = held \ {a}
        BY <1>1, <3>1
    <3>3. OwnersOf(Deleted(heap, a), held \ {a}, <<>>, NULL)
        BY <1>2, DropsHeld
    <3> QED BY <1>1, <3>1, <3>2, <3>3
  <2>3. CASE heap[b].value # NULL /\ heap[a].value # NULL
    <3>1. c.heap = Linked(heap, back, b) /\ c.ret = a
        BY <2>3 DEF Concated, Linked
    <3>2. held' = held \ {b}
        BY <1>1, <3>1
    <3>3. OwnersOf(Linked(heap, back, b), held \ {b}, <<>>, NULL)
        BY <1>1, <1>2, <1>3, <2>3, JoinsHeld
    <3> QED BY <1>1, <3>1, <3>2, <3>3
  <2> QED BY <2>1, <2>2, <2>3
<1> QED BY <1>1, <1>4, CalledInv

LEMMA DeletesValueInv == JsonInv /\ DeletesValue => JsonInv'
<1> SUFFICES ASSUME JsonInv, DeletesValue PROVE JsonInv'
    OBVIOUS
<1>1. PICK a \in held : Call /\ heap' = Deleted(heap, a) /\ held' = held \ {a}
    BY DEF DeletesValue
<1>2. OwnersOf(heap, held, <<>>, NULL)
    BY <1>1, CalledInv
<1>3. OwnersOf(Deleted(heap, a), held \ {a}, <<>>, NULL)
    BY <1>2, DropsHeld
<1> QED BY <1>1, <1>3, CalledInv

(***************************************************************************)
(* The theorems.                                                           *)
(***************************************************************************)

\* The invariant holds: at every moment of a parse, and between any calls, each
\* value in memory has one owner, and json_parser stands within the text, before
\* its '\0' or at it.
THEOREM JsonInvariant == JsonSpec => []JsonInv
<1>1. JsonInit => JsonInv
  <2> SUFFICES ASSUME JsonInit PROVE JsonInv
      OBVIOUS
  <2>1. OwnersOf(heap, held, stack, InHand)
      BY NoOwners DEF JsonInit, InHand
  <2> QED BY <2>1, JsonAssumption DEF JsonInit, JsonInv
<1>2. JsonInv /\ [JsonNext]_jsonVars => JsonInv'
  <2> SUFFICES ASSUME JsonInv, [JsonNext]_jsonVars PROVE JsonInv'
      OBVIOUS
  <2>1. CASE ParserStep
      BY <2>1, ParserInv
  <2>2. CASE ParsesText \/ ParsesPrint \/ Parsed
      BY <2>2, ParsesTextInv, ParsesPrintInv, ParsedInv
  <2>3. CASE MakesLeaf \/ MakesArray \/ MakesPair \/ SetsNumber
      BY <2>3, MakesLeafInv, MakesArrayInv, MakesPairInv, SetsNumberInv
  <2>4. CASE \E a, b \in held : ObjectConcat(a, b) \/ ArrayConcat(a, b)
      BY <2>4, ConcatInv DEF ObjectConcat, ArrayConcat, Lists
  <2>5. CASE DeletesValue
      BY <2>5, DeletesValueInv
  <2>6. CASE UNCHANGED jsonVars
    <3>1. UNCHANGED <<heap, held, text, pos, stack, ret, fault, work>>
        BY <2>6 DEF jsonVars, parserVars
    <3>2. InHand' = InHand
        BY <3>1 DEF InHand
    <3> QED BY <3>1, <3>2 DEF JsonInv
  <2> QED BY <2>1, <2>2, <2>3, <2>4, <2>5, <2>6 DEF JsonNext
<1> QED BY <1>1, <1>2, PTL DEF JsonSpec

\* json_parser never goes beyond the '\0' of its text, and every pointer of the
\* program and of the parser is to a value in memory.
THEOREM JsonTypeCorrect == JsonSpec => []JsonTypeOK
<1>1. JsonInv => JsonTypeOK
  <2> SUFFICES ASSUME JsonInv PROVE JsonTypeOK
      OBVIOUS
  <2>1. /\ IsHeap(heap) /\ InHand \in Pointers(heap) /\ held \subseteq InUse(heap)
        /\ stack \in Seq(Frames(heap))
      BY WholeHeap DEF JsonInv
  <2>2. pos \in 0..Len(text)
    <3>1. CASE text = <<>>
        BY <3>1 DEF JsonInv
    <3>2. CASE text # <<>>
        BY <3>2, TextLength DEF JsonInv
    <3> QED BY <3>1, <3>2
  <2>3. \A a \in DOMAIN heap :
          heap[a].type \in {"string", "number", "object", "array", "true", "false", "null"}
    <3> TAKE a \in DOMAIN heap
    <3>1. CASE a \in Statics
        BY <2>1, <3>1 DEF IsHeap, StaticHeap, Statics
    <3>2. CASE a \in InUse(heap)
      <4>1. IsNode(heap, heap[a])
          BY <2>1, <3>2 DEF IsHeap
      <4> QED BY <4>1 DEF IsNode
    <3> QED BY <3>1, <3>2 DEF InUse
  <2>4. \A i \in DOMAIN stack :
          {stack[i].list, stack[i].back, stack[i].key} \subseteq DOMAIN heap \union {NULL}
    <3> DEFINE F == Frames(heap)
    <3> TAKE i \in DOMAIN stack
    <3>1. stack[i] \in F
      <4>1. stack \in Seq(F)
          BY <2>1
      <4> HIDE DEF F
      <4> QED BY <4>1
    <3> QED BY <3>1 DEF Frames, Pointers
  <2>5. ret \in DOMAIN heap \union {NULL, Calling}
      BY <2>1 DEF JsonInv, InHand, Pointers
  <2>6. InUse(heap) \subseteq Memory
      BY <2>1 DEF IsHeap
  <2>7. ASSUME NEW a \in ListNodes(heap), NEW next, next = heap[a].next
        PROVE  /\ heap[a].value \in DOMAIN heap \union {NULL}
               /\ next # NULL => /\ next \in ListNodes(heap) /\ heap[next].type = heap[a].type
                                 /\ heap[next].value # NULL
               /\ heap[a].type = "object" =>
                    /\ heap[a].name \in DOMAIN heap \union {NULL}
                    /\ heap[a].value # NULL => heap[a].name # NULL
    <3>1. a \in InUse(heap) /\ heap[a].type \in {"object", "array"}
        BY <2>1, ListNodesInUse DEF ListNodes
    <3>2. IsNode(heap, heap[a])
        BY <2>1, <3>1 DEF IsHeap
    <3>3. /\ heap[a].value \in DOMAIN heap \union {NULL}
          /\ heap[a].type = "object" =>
               /\ heap[a].name \in DOMAIN heap \union {NULL}
               /\ heap[a].value # NULL => heap[a].name # NULL
        BY <3>1, <3>2 DEF IsNode, Pointers
    <3>4. next # NULL => /\ next \in ListNodes(heap) /\ heap[next].type = heap[a].type
                         /\ heap[next].value # NULL
        BY <2>1, <2>7, ListNodesInUse
    <3> QED BY <3>3, <3>4
  <2> QED BY <2>1, <2>2, <2>3, <2>4, <2>5, <2>6, <2>7 DEF JsonTypeOK, JsonInv
<1> QED BY <1>1, JsonInvariant, PTL


(***************************************************************************)
(* What stands behind a text gets into no value.  Sequences agree if they  *)
(* differ behind a '\0' of both only; String makes the same of them.       *)
(***************************************************************************)
Agree(s, r) ==
    /\ Len(s) = Len(r)
    /\ \A i \in 1..Len(s) : s[i] = r[i] \/ \E j \in 1..i : s[j] = 0 /\ r[j] = 0

LEMMA AgreedString ==
    ASSUME NEW s, NEW r, IsSequence(s), IsSequence(r), Agree(s, r)
    PROVE  String(s) = String(r)
<1> DEFINE Cut(q) == [i \in DOMAIN q |-> IF \E j \in 1..i : q[j] = 0 THEN 0 ELSE q[i]]
           n == Len(s)
<1>1. n \in Nat /\ DOMAIN s = 1..n /\ DOMAIN r = 1..n
    BY DEF IsSequence, Agree
<1>2. ASSUME NEW i \in 1..n PROVE (\E j \in 1..i : s[j] = 0) <=> (\E j \in 1..i : r[j] = 0)
  <2>1. \A j \in 1..i : j \in 1..n /\ 1..j \subseteq 1..i
      BY <1>1
  <2>2. \A j \in 1..n : s[j] = r[j] \/ \E k \in 1..j : s[k] = 0 /\ r[k] = 0
      BY DEF Agree
  <2> HIDE DEF n
  <2> QED BY <2>1, <2>2
<1>3. \A i \in 1..n : s[i] = r[i] \/ \E j \in 1..i : s[j] = 0 /\ r[j] = 0
    BY DEF Agree
<1>4. \A i \in 1..n : (IF \E j \in 1..i : s[j] = 0 THEN 0 ELSE s[i])
                      = (IF \E j \in 1..i : r[j] = 0 THEN 0 ELSE r[i])
  <2> HIDE DEF n
  <2> QED BY <1>2, <1>3
<1>5. Cut(s) = Cut(r)
    BY <1>1, <1>4
<1> QED BY <1>5 DEF String

LEMMA AgreedJoin ==
    ASSUME NEW h, NEW s, NEW r, IsSequence(h), IsSequence(s), IsSequence(r), Agree(s, r)
    PROVE  Agree(h \o s, h \o r)
<1> DEFINE S == ToSet(h) \union ToSet(s) \union ToSet(r)
           a == Len(h)
           n == Len(s)
           v == h \o s
           w == h \o r
<1>1. h \in Seq(S) /\ s \in Seq(S) /\ r \in Seq(S)
  <2>1. h \in Seq(ToSet(h)) /\ s \in Seq(ToSet(s)) /\ r \in Seq(ToSet(r))
      BY DEF IsSequence
  <2> QED BY <2>1
<1> HIDE DEF S
<1>2. /\ a \in Nat /\ n \in Nat /\ Len(v) = a + n /\ Len(w) = a + n
      /\ \A i \in 1..a : v[i] = h[i] /\ w[i] = h[i]
      /\ \A i \in 1..n : v[a + i] = s[i] /\ w[a + i] = r[i]
  <2>1. /\ Len(v) = a + n /\ a \in Nat /\ n \in Nat
        /\ \A i \in 1..a : v[i] = h[i]
        /\ \A i \in 1..n : v[a + i] = s[i]
      BY <1>1, ConcatReads
  <2>2. /\ Len(w) = a + Len(r)
        /\ \A i \in 1..a : w[i] = h[i]
        /\ \A i \in 1..Len(r) : w[a + i] = r[i]
      BY <1>1, ConcatReads
  <2>3. Len(r) = n
      BY DEF Agree
  <2> HIDE DEF a, n, v, w
  <2> QED BY <2>1, <2>2, <2>3
<1>3. \A i \in 1..n : s[i] = r[i] \/ \E j \in 1..i : s[j] = 0 /\ r[j] = 0
    BY DEF Agree
<1> HIDE DEF a, n, v, w
<1>4. ASSUME NEW i \in 1..(a + n) PROVE v[i] = w[i] \/ \E j \in 1..i : v[j] = 0 /\ w[j] = 0
  <2>1. CASE i \in 1..a
      BY <1>2, <2>1
  <2>2. CASE i \notin 1..a
    <3>1. i - a \in 1..n /\ i = a + (i - a)
        BY <1>2, <2>2
    <3>2. CASE s[i - a] = r[i - a]
        BY <1>2, <3>1, <3>2
    <3>3. CASE \E j \in 1..(i - a) : s[j] = 0 /\ r[j] = 0
      <4>1. PICK j \in 1..(i - a) : s[j] = 0 /\ r[j] = 0
          BY <3>3
      <4>2. j \in 1..n /\ a + j \in 1..i
          BY <1>2, <3>1
      <4>3. v[a + j] = 0 /\ w[a + j] = 0
          BY <1>2, <4>1, <4>2
      <4> QED BY <4>2, <4>3
    <3> QED BY <1>3, <3>1, <3>2, <3>3
  <2> QED BY <2>1, <2>2
<1> QED BY <1>2, <1>4 DEF Agree, v, w

\* A '\0' is no digit, and hex2char gives it back.
LEMMA NoDigit ==
    /\ \A h : HexDigit(h) \in Int
    /\ \A l : Hex2Char(0, l) = 0
    /\ \A h : HexDigit(h) >= 0 => Hex2Char(h, 0) = 0
<1>1. HexDigit(0) = -1
    BY DEF HexDigit
<1>2. ASSUME NEW h PROVE HexDigit(h) \in Int
  <2>1. CASE h \in 48..57 \union 97..102 \union 65..70
      BY <2>1 DEF HexDigit
  <2>2. CASE h \notin 48..57 \union 97..102 \union 65..70
    <3>1. HexDigit(h) = -1
        BY <2>2 DEF HexDigit
    <3> QED BY <3>1
  <2> QED BY <2>1, <2>2
<1>3. \A l : Hex2Char(0, l) = 0
    BY <1>1 DEF Hex2Char
<1>4. ASSUME NEW h, HexDigit(h) >= 0 PROVE Hex2Char(h, 0) = 0
  <2>1. ~(HexDigit(h) < 0)
      BY <1>2, <1>4
  <2> QED BY <1>1, <2>1 DEF Hex2Char
<1> QED BY <1>2, <1>3, <1>4

\* The text t in memory, with something behind it.
Stored(t, u) == \A k \in 1..Len(t) : u[k] = t[k]

\* A position in a string that ends at end: what is read from there has no
\* character from behind the text but ones that a '\0' precedes.
LEMMA AgreedReads ==
    ASSUME NEW t, IsText(t), ~EndsInEscape(t),
           NEW end \in 1..Len(t), t[end] \in {0, Quote}, NEW i \in Nat, 1 <= i, i < end,
           NEW u, NEW v, Stored(t, u), Stored(t, v)
    PROVE  /\ PassedAt(u, i) = PassedAt(v, i)
           /\ \/ ReadAt(u, i) = ReadAt(v, i)
              \/ i + PassedAt(u, i) >= end /\ Agree(ReadAt(u, i), ReadAt(v, i))
<1> DEFINE n == Len(t)
<1>1. n \in Nat /\ t[n] = 0 /\ end <= n /\ i \in 1..n /\ i + 1 \in 1..n
    BY TextLength
<1>2. u[i] = t[i] /\ v[i] = t[i] /\ u[i + 1] = t[i + 1] /\ v[i + 1] = t[i + 1]
    BY <1>1 DEF Stored
<1>3. PassedAt(u, i) = PassedAt(v, i)
    BY <1>2 DEF PassedAt
<1>4. CASE ~(t[i] = Backslash /\ t[i + 1] = 117)
    BY <1>2, <1>3, <1>4 DEF ReadAt
<1>5. CASE t[i] = Backslash /\ t[i + 1] = 117
  <2>1. PassedAt(u, i) = 6
      BY <1>2, <1>5 DEF PassedAt
  <2>2. ReadAt(u, i) = <<Hex2Char(u[i + 2], u[i + 3]), Hex2Char(u[i + 4], u[i + 5])>>
      BY <1>2, <1>5 DEF ReadAt
  <2>3. ReadAt(v, i) = <<Hex2Char(v[i + 2], v[i + 3]), Hex2Char(v[i + 4], v[i + 5])>>
      BY <1>2, <1>5 DEF ReadAt
  <2>4. i + 2 <= n
    <3>1. t[i + 1] # t[end]
        BY <1>5 DEF Quote
    <3> QED BY <1>1, <3>1
  <2>5. CASE i + 5 <= n
    <3>1. i + 2 \in 1..n /\ i + 3 \in 1..n /\ i + 4 \in 1..n /\ i + 5 \in 1..n
        BY <1>1, <2>5
    <3>2. u[i + 2] = v[i + 2] /\ u[i + 3] = v[i + 3] /\ u[i + 4] = v[i + 4] /\ u[i + 5] = v[i + 5]
        BY <3>1 DEF Stored
    <3> QED BY <1>3, <2>2, <2>3, <3>2
  <2>6. CASE i + 4 = n
    <3>1. i + 2 \in 1..n /\ i + 3 \in 1..n /\ i + 4 \in 1..n
        BY <1>1, <2>6
    <3>2. u[i + 2] = v[i + 2] /\ u[i + 3] = v[i + 3] /\ u[i + 4] = 0 /\ v[i + 4] = 0
        BY <1>1, <2>6, <3>1 DEF Stored
    <3>3. Hex2Char(u[i + 4], u[i + 5]) = 0 /\ Hex2Char(v[i + 4], v[i + 5]) = 0
        BY <3>2, NoDigit
    <3> QED BY <1>3, <2>2, <2>3, <3>2, <3>3
  <2>7. CASE i + 3 = n \/ i + 2 = n
    <3>1. Hex2Char(u[i + 2], u[i + 3]) = 0 /\ Hex2Char(v[i + 2], v[i + 3]) = 0
      <4>1. CASE i + 3 = n
        <5>1. i + 2 \in 1..n /\ i + 3 \in 1..n /\ n > 3 /\ n - 3 = i /\ n - 2 = i + 1 /\ n - 1 = i + 2
            BY <1>1, <4>1
        <5>2. HexDigit(t[i + 2]) >= 0
          <6>1. ~(HexDigit(t[i + 2]) < 0)
              BY <1>5, <5>1 DEF EndsInEscape
          <6>2. HexDigit(t[i + 2]) \in Int
              BY NoDigit
          <6> QED BY <6>1, <6>2
        <5>3. u[i + 2] = t[i + 2] /\ v[i + 2] = t[i + 2] /\ u[i + 3] = 0 /\ v[i + 3] = 0
            BY <1>1, <4>1, <5>1 DEF Stored
        <5> QED BY <5>2, <5>3, NoDigit
      <4>2. CASE i + 2 = n
        <5>1. u[i + 2] = 0 /\ v[i + 2] = 0
            BY <1>1, <4>2 DEF Stored
        <5> QED BY <5>1, NoDigit
      <4> QED BY <2>7, <4>1, <4>2
    <3>2. Agree(<<0, Hex2Char(u[i + 4], u[i + 5])>>, <<0, Hex2Char(v[i + 4], v[i + 5])>>)
        BY DEF Agree
    <3>3. Agree(ReadAt(u, i), ReadAt(v, i))
        BY <2>2, <2>3, <3>1, <3>2
    <3>4. i + PassedAt(u, i) >= end
        BY <1>1, <2>1, <2>7
    <3> QED BY <1>3, <3>3, <3>4
  <2> QED BY <1>1, <2>4, <2>5, <2>6, <2>7
<1> QED BY <1>4, <1>5

LEMMA ReadSequence ==
    ASSUME NEW t, NEW i
    PROVE  IsSequence(ReadAt(t, i)) /\ ReadAt(t, i) \o <<>> = ReadAt(t, i)
<1> DEFINE x == Hex2Char(t[i + 2], t[i + 3])
           y == Hex2Char(t[i + 4], t[i + 5])
<1>1. <<x, y>> \in Seq({x, y}) /\ <<x, y>> \o <<>> = <<x, y>>
    OBVIOUS
<1>2. IsSequence(<<x, y>>)
    BY <1>1, Sequences
<1> HIDE DEF x, y
<1>3. \A z : <<z>> \o <<>> = <<z>>
    OBVIOUS
<1> QED BY <1>1, <1>2, <1>3, ShortSequences DEF ReadAt, x, y

LEMMA AgreedUnescaped ==
    ASSUME NEW t, IsText(t), ~EndsInEscape(t), NEW end \in 1..Len(t), t[end] \in {0, Quote},
           NEW u, NEW v, Stored(t, u), Stored(t, v)
    PROVE  \A i \in Nat \ {0} : Agree(Unescaped(u, i, end), Unescaped(v, i, end))
<1> DEFINE U(i) == Unescaped(u, i, end)
           V(i) == Unescaped(v, i, end)
           B == {i \in Nat \ {0} : ~Agree(U(i), V(i))}
           m == [i \in B |-> IF i >= end THEN 0 ELSE end - i]
<1>1. end \in Nat
    BY TextLength
<1>2. \A i \in Nat :
        /\ IsSequence(U(i)) /\ i + PassedAt(u, i) \in Nat /\ i < i + PassedAt(u, i)
        /\ U(i) = IF i >= end THEN <<>> ELSE ReadAt(u, i) \o U(i + PassedAt(u, i))
    BY <1>1, UnescapedSequence
<1>3. \A i \in Nat :
        /\ IsSequence(V(i))
        /\ V(i) = IF i >= end THEN <<>> ELSE ReadAt(v, i) \o V(i + PassedAt(v, i))
    BY <1>1, UnescapedSequence
<1>4. m \in [B -> Nat] /\ \A i \in B : m[i] = IF i >= end THEN 0 ELSE end - i
    BY <1>1
<1> SUFFICES ASSUME B # {} PROVE FALSE
    OBVIOUS
<1> HIDE DEF U, V, m
<1>5. PICK i \in B : \A j \in B : m[i] <= m[j]
    BY <1>4, LeastMeasure
<1>6. i \in Nat /\ 1 <= i /\ ~Agree(U(i), V(i))
    BY <1>5
<1>7. i < end
  <2>1. Agree(<<>>, <<>>)
      BY DEF Agree
  <2> QED BY <1>1, <1>2, <1>3, <1>6, <2>1
<1> DEFINE k == i + PassedAt(u, i)
<1>8. k \in Nat /\ i < k /\ Agree(U(k), V(k))
  <2>1. k \in Nat /\ i < k
      BY <1>2, <1>6
  <2> HIDE DEF k
  <2>2. k \notin B
    <3> SUFFICES ASSUME k \in B PROVE FALSE
        OBVIOUS
    <3>1. m[i] <= m[k] /\ m[i] = end - i /\ m[k] = IF k >= end THEN 0 ELSE end - k
        BY <1>1, <1>4, <1>5, <1>7
    <3> QED BY <1>1, <1>6, <1>7, <2>1, <3>1
  <2> QED BY <1>6, <2>1, <2>2
<1>9. /\ PassedAt(u, i) = PassedAt(v, i)
      /\ \/ ReadAt(u, i) = ReadAt(v, i)
         \/ k >= end /\ Agree(ReadAt(u, i), ReadAt(v, i))
    BY <1>6, <1>7, AgreedReads
<1>10. U(i) = ReadAt(u, i) \o U(k) /\ V(i) = ReadAt(v, i) \o V(k)
  <2>1. ~(i >= end)
      BY <1>1, <1>6, <1>7
  <2>2. V(i) = ReadAt(v, i) \o V(i + PassedAt(v, i))
      BY <1>3, <1>6, <2>1
  <2>3. U(i) = ReadAt(u, i) \o U(i + PassedAt(u, i))
      BY <1>2, <1>6, <2>1
  <2> QED BY <1>9, <2>2, <2>3
<1>11. IsSequence(U(k)) /\ IsSequence(V(k)) /\ (k >= end => U(k) = <<>> /\ V(k) = <<>>)
    BY <1>2, <1>3, <1>8
<1> HIDE DEF k, B
<1>12. CASE ReadAt(u, i) = ReadAt(v, i)
  <2>1. IsSequence(ReadAt(u, i))
      BY ReadSequence
  <2>2. Agree(ReadAt(u, i) \o U(k), ReadAt(u, i) \o V(k))
      BY <1>8, <1>11, <2>1, AgreedJoin
  <2> QED BY <1>6, <1>10, <1>12, <2>2
<1>13. CASE k >= end /\ Agree(ReadAt(u, i), ReadAt(v, i))
  <2>1. U(i) = ReadAt(u, i) /\ V(i) = ReadAt(v, i)
      BY <1>10, <1>11, <1>13, ReadSequence
  <2> QED BY <1>6, <1>13, <2>1
<1> QED BY <1>9, <1>12, <1>13

LEMMA StoredBehind ==
    ASSUME NEW t, IsText(t), NEW b \in Seq(Nat)
    PROVE  Stored(t, t \o b)
<1> DEFINE S == ToSet(t) \union Nat
<1>1. t \in Seq(S) /\ b \in Seq(S)
    BY DEF IsText, IsSequence
<1> HIDE DEF S
<1> QED BY <1>1, ConcatReads DEF Stored

\* Although a \u escape that is cut off is read beyond the '\0', the string that
\* json_parser makes of it is the same whatever stands there, for every text but
\* one that ends in a \u with a single character that is no digit.
THEOREM NothingFromBehindCorrect == JsonSpec => []NothingFromBehind
<1>1. JsonInv => NothingFromBehind
  <2> SUFFICES ASSUME JsonInv, Entering, text[Here] = Quote, ~EndsInEscape(text),
                      NEW b \in Behind, NEW c \in Behind
               PROVE  StringRead(b) = StringRead(c)
      BY DEF NothingFromBehind
  <2> DEFINE i == Here + 1
             end == SkipString(text, i)
  <2>1. IsText(text) /\ Here \in 1..Len(text) /\ Quote # 0
      BY AtEntry DEF Quote
  <2>2. i \in 1..Len(text)
      BY <2>1, NextCharacter
  <2>3. end \in 1..Len(text) /\ text[end] \in {0, Quote}
      BY <2>1, <2>2, SkipsString
  <2>4. b \in Seq(Nat) /\ c \in Seq(Nat)
      BY JsonAssumption
  <2>5. Stored(text, text \o b) /\ Stored(text, text \o c)
      BY <2>1, <2>4, StoredBehind
  <2>6. i \in Nat \ {0} /\ end \in Nat
      BY <2>2, <2>3
  <2>7. /\ StringRead(b) = String(Unescaped(text \o b, i, end))
        /\ StringRead(c) = String(Unescaped(text \o c, i, end))
      BY DEF StringRead
  <2> HIDE DEF i, end
  <2> DEFINE s == Unescaped(text \o b, i, end)
             r == Unescaped(text \o c, i, end)
  <2>8. IsSequence(s) /\ IsSequence(r)
      BY <2>6, UnescapedSequence
  <2>9. Agree(s, r)
      BY <2>1, <2>3, <2>5, <2>6, AgreedUnescaped
  <2> HIDE DEF s, r
  <2>10. String(s) = String(r)
      BY <2>8, <2>9, AgreedString
  <2> QED BY <2>7, <2>10 DEF s, r
<1> QED BY <1>1, JsonInvariant, PTL


(***************************************************************************)
(* Owners, as a sequence.  In Owners there is each slot that has a value   *)
(* once, and its value lists the addresses that have this owner.           *)
(***************************************************************************)
Named(own, s, o, X) ==
    /\ s \in Seq(Int) /\ o \in [1..Len(s) -> X]
    /\ \A i \in 1..Len(s) : s[i] = own[o[i]]
    /\ \A i, j \in 1..Len(s) : o[i] = o[j] => i = j
    /\ \A x \in X : \E i \in 1..Len(s) : o[i] = x

IsNamed(own, s, X) == \E o : Named(own, s, o, X)

LEMMA NamedJoin ==
    ASSUME NEW own, NEW s, NEW X, IsNamed(own, s, X),
           NEW t, NEW Y, IsNamed(own, t, Y), X \intersect Y = {}
    PROVE  IsNamed(own, s \o t, X \union Y)
<1>0. PICK o, q : Named(own, s, o, X) /\ Named(own, t, q, Y)
    BY DEF IsNamed
<1> DEFINE a == Len(s)
           b == Len(t)
           c == s \o t
           r == [i \in 1..(a + b) |-> IF i <= a THEN o[i] ELSE q[i - a]]
<1>1. s \in Seq(Int) /\ t \in Seq(Int)
    BY <1>0 DEF Named
<1>2. /\ c \in Seq(Int) /\ Len(c) = a + b /\ a \in Nat /\ b \in Nat
      /\ \A i \in 1..a : c[i] = s[i]
      /\ \A i \in 1..b : c[a + i] = t[i]
    BY <1>1, ConcatReads
<1> HIDE DEF c
<1>3. /\ \A i \in 1..a : i \in 1..(a + b) /\ r[i] = o[i] /\ o[i] \in X
      /\ \A i \in 1..b : a + i \in 1..(a + b) /\ r[a + i] = q[i] /\ q[i] \in Y
  <2>1. \A i \in 1..a : o[i] \in X
      BY <1>0 DEF Named
  <2>2. \A i \in 1..b : q[i] \in Y
      BY <1>0 DEF Named
  <2>3. \A i \in 1..b : a + i \in 1..(a + b) /\ ~(a + i <= a) /\ (a + i) - a = i
      BY <1>2
  <2>4. \A i \in 1..a : i \in 1..(a + b) /\ i <= a
      BY <1>2
  <2> QED BY <2>1, <2>2, <2>3, <2>4
<1>4. ASSUME NEW i \in 1..(a + b) PROVE i \in 1..a \/ \E k \in 1..b : i = a + k
  <2>1. CASE i > a
    <3>1. i - a \in 1..b /\ i = a + (i - a)
        BY <1>2, <2>1
    <3> QED BY <3>1
  <2> QED BY <1>2, <2>1
<1>5. r = [i \in 1..(a + b) |-> r[i]]
    OBVIOUS
<1> HIDE DEF r
<1>6. r \in [1..(a + b) -> X \union Y]
  <2>1. \A i \in 1..(a + b) : r[i] \in X \union Y
      BY <1>3, <1>4
  <2> QED BY <1>5, <2>1
<1>7. \A i \in 1..(a + b) : c[i] = own[r[i]]
  <2>1. \A i \in 1..a : c[i] = own[r[i]]
      BY <1>0, <1>2, <1>3 DEF Named
  <2>2. \A i \in 1..b : c[a + i] = own[r[a + i]]
      BY <1>0, <1>2, <1>3 DEF Named
  <2> QED BY <1>4, <2>1, <2>2
<1>8. ASSUME NEW i \in 1..(a + b), NEW j \in 1..(a + b), r[i] = r[j] PROVE i = j
  <2>1. CASE i \in 1..a /\ j \in 1..a
      BY <1>0, <1>3, <1>8, <2>1 DEF Named
  <2>2. CASE \E k, l \in 1..b : i = a + k /\ j = a + l
      BY <1>0, <1>3, <1>8, <2>2 DEF Named
  <2>3. CASE i \in 1..a /\ \E l \in 1..b : j = a + l
    <3>1. r[i] \in X /\ r[j] \in Y
        BY <1>3, <2>3
    <3> QED BY <1>8, <3>1
  <2>4. CASE j \in 1..a /\ \E l \in 1..b : i = a + l
    <3>1. r[j] \in X /\ r[i] \in Y
        BY <1>3, <2>4
    <3> QED BY <1>8, <3>1
  <2> QED BY <1>4, <2>1, <2>2, <2>3, <2>4
<1>9. ASSUME NEW x \in X \union Y PROVE \E i \in 1..(a + b) : r[i] = x
  <2>1. CASE x \in X
    <3>1. PICK i \in 1..a : o[i] = x
        BY <1>0, <2>1 DEF Named
    <3> QED BY <1>3, <3>1
  <2>2. CASE x \in Y
    <3>1. PICK i \in 1..b : q[i] = x
        BY <1>0, <2>2 DEF Named
    <3> QED BY <1>3, <3>1
  <2> QED BY <2>1, <2>2
<1>10. Named(own, c, r, X \union Y)
    BY <1>2, <1>6, <1>7, <1>8, <1>9 DEF Named
<1> QED BY <1>10 DEF c, IsNamed

\* The program's values
LEMMA NamedHeld ==
    ASSUME NEW own, NEW H, NEW S, NEW r, Reading(own, H, S, r),
           H \subseteq Nat, IsFiniteSet(H)
    PROVE  IsNamed(own, SetToSeq(H), {<<"held", x>> : x \in H})
<1> DEFINE s == SetToSeq(H)
           n == Cardinality(H)
           o == [i \in 1..n |-> <<"held", s[i]>>]
<1>1. n \in Nat /\ ExistsBijection(1..n, H)
    BY FS_CardinalityType
<1>2. \E f \in [1..n -> H] : IsInjective(f)
    BY <1>1 DEF ExistsBijection, Bijection, Injection
<1>3. s \in [1..n -> H] /\ IsInjective(s)
    BY <1>2 DEF SetToSeq
<1> HIDE DEF s
<1>4. \A x \in H : \E i \in 1..n : s[i] = x
  <2>1. s \in Injection(1..n, H)
      BY <1>3 DEF Injection
  <2>2. Cardinality(1..n) = n
    <3> DEFINE one == 1
    <3>1. one \in Int /\ n \in Int
        BY <1>1
    <3> HIDE DEF one
    <3>2. Cardinality(one..n) = IF one > n THEN 0 ELSE n - one + 1
        BY <3>1, FS_Interval
    <3> QED BY <1>1, <3>2 DEF one
  <2>3. s \in Surjection(1..n, H)
      BY <2>1, <2>2, FS_Injection
  <2> QED BY <2>3 DEF Surjection
<1>5. s \in Seq(Int) /\ Len(s) = n
  <2>1. s \in [1..n -> H]
      BY <1>3
  <2>2. H \subseteq Int
      OBVIOUS
  <2> HIDE DEF n
  <2>3. s \in [1..n -> Int]
      BY <2>1, <2>2
  <2> QED BY <1>1, <2>3
<1>6. \A i, j \in 1..n : s[i] = s[j] => i = j
    BY <1>3 DEF IsInjective
<1>7. o \in [1..n -> {<<"held", x>> : x \in H}] /\ \A i \in 1..n : o[i] = <<"held", s[i]>>
    BY <1>3
<1> HIDE DEF o
<1>8. \A i \in 1..n : s[i] = own[o[i]]
    BY <1>3, <1>7 DEF Reading
<1>9. \A i, j \in 1..n : o[i] = o[j] => i = j
    BY <1>6, <1>7
<1>10. \A x \in {<<"held", y>> : y \in H} : \E i \in 1..n : o[i] = x
    BY <1>4, <1>7
<1>11. Named(own, s, o, {<<"held", x>> : x \in H})
    BY <1>5, <1>7, <1>8, <1>9, <1>10 DEF Named
<1> QED BY <1>11 DEF s, IsNamed

\* The frames' values
FrameSlots(m) == UNION {{<<"list", i>>, <<"key", i>>} : i \in 1..m}

LEMMA NamedFrames ==
    ASSUME NEW own, NEW H, NEW S, NEW r, Reading(own, H, S, r), IsSequence(S),
           \A i \in 1..Len(S) : S[i].list \in Int /\ S[i].key \in Int
    PROVE  IsNamed(own, FlattenSeq([i \in DOMAIN S |-> <<S[i].list, S[i].key>>]),
                   FrameSlots(Len(S)))
<1> DEFINE n == Len(S)
           T == [i \in DOMAIN S |-> <<S[i].list, S[i].key>>]
           D == Int
<1>1. n \in Nat /\ DOMAIN S = 1..n
    BY DEF IsSequence
<1>2. T \in Seq(Seq(D)) /\ Len(T) = n /\ \A i \in 1..n : T[i] = <<S[i].list, S[i].key>>
    BY <1>1
<1> HIDE DEF T, D
<1>3. PICK F \in [0..Len(T) -> Seq(D)] : Pieces(T, F)
    BY <1>2, PiecesExist
<1>4. FlattenSeq(T) = F[n]
    BY <1>2, <1>3, FlattenPieces
<1> DEFINE A == {m \in Nat : m <= n => IsNamed(own, F[m], FrameSlots(m))}
<1>5. 0 \in A
  <2>1. F[0] = <<>>
      BY <1>3 DEF Pieces
  <2>2. FrameSlots(0) = {}
      BY DEF FrameSlots
  <2>3. Named(own, <<>>, [i \in 1..0 |-> 0], {})
      BY DEF Named
  <2>4. IsNamed(own, F[0], FrameSlots(0))
      BY <2>1, <2>2, <2>3 DEF IsNamed
  <2> QED BY <2>4
<1>6. ASSUME NEW m \in A, m < n PROVE m + 1 \in A
  <2>1. m \in Nat /\ m + 1 \in 1..n /\ (m + 1) - 1 = m
      BY <1>1, <1>6
  <2>2. IsNamed(own, F[m], FrameSlots(m))
      BY <1>1, <1>6
  <2> DEFINE k == m + 1
             l == <<"list", k>>
             e == <<"key", k>>
             t == <<S[k].list, S[k].key>>
             q == [i \in 1..2 |-> IF i = 1 THEN l ELSE e]
  <2>3. F[k] = F[m] \o t
      BY <1>2, <1>3, <2>1 DEF Pieces
  <2>4. S[k].list = own[l] /\ S[k].key = own[e]
    <3>1. k \in Nat /\ k \in DOMAIN S
        BY <1>1, <2>1
    <3> HIDE DEF k
    <3>2. own[l] = ListAt(S, k) /\ own[e] = KeyAt(S, k)
        BY <3>1 DEF Reading
    <3> QED BY <3>1, <3>2 DEF ListAt, KeyAt
  <2>5. S[k].list \in Int /\ S[k].key \in Int /\ l # e
      BY <2>1
  <2>6. FrameSlots(m) \intersect {l, e} = {} /\ FrameSlots(k) = FrameSlots(m) \union {l, e}
    <3>1. \A i \in 1..m : i # k
        BY <2>1
    <3>2. 1..k = 1..m \union {k}
        BY <2>1
    <3> HIDE DEF k
    <3>3. FrameSlots(m) \intersect {l, e} = {}
        BY <3>1 DEF FrameSlots
    <3>4. FrameSlots(k) = FrameSlots(m) \union {l, e}
        BY <3>2 DEF FrameSlots
    <3> QED BY <3>3, <3>4
  <2> HIDE DEF l, e, k
  <2>7. IsNamed(own, t, {l, e})
    <3>1. t \in Seq(Int) /\ Len(t) = 2 /\ t[1] = own[l] /\ t[2] = own[e]
        BY <2>4, <2>5
    <3>2. q \in [1..2 -> {l, e}] /\ q[1] = l /\ q[2] = e
        OBVIOUS
    <3> HIDE DEF t, q
    <3>3. Named(own, t, q, {l, e})
        BY <2>5, <3>1, <3>2 DEF Named
    <3> QED BY <3>3 DEF IsNamed
  <2> HIDE DEF t, q
  <2>8. IsNamed(own, F[m] \o t, FrameSlots(m) \union {l, e})
    <3> DEFINE Y == {l, e}
    <3> HIDE DEF Y
    <3> QED BY <2>2, <2>6, <2>7, NamedJoin DEF Y
  <2>9. IsNamed(own, F[k], FrameSlots(k))
      BY <2>3, <2>6, <2>8
  <2> QED BY <2>1, <2>9 DEF k
<1>7. A \in SUBSET Nat
    OBVIOUS
<1>8. n \in A
  <2> HIDE DEF A
  <2>1. 0..n \subseteq A
      BY <1>1, <1>5, <1>6, <1>7, CountedTo
  <2> QED BY <1>1, <2>1
<1>9. IsNamed(own, F[n], FrameSlots(n))
    BY <1>1, <1>8
<1> QED BY <1>4, <1>9 DEF T


\* What lists disjoint parts one after the other lists their union.
LEMMA ListsAll ==
    ASSUME NEW T \in Seq(Seq(Int)), NEW P, \A i \in 1..Len(T) : Lists1(T[i], P[i]),
           \A i, j \in 1..Len(T) : i # j => P[i] \intersect P[j] = {}
    PROVE  Lists1(FlattenSeq(T), UNION {P[i] : i \in 1..Len(T)})
<1> DEFINE n == Len(T)
           D == Int
           U(m) == UNION {P[i] : i \in 1..m}
<1>1. n \in Nat
    OBVIOUS
<1>2. PICK F \in [0..Len(T) -> Seq(D)] : Pieces(T, F)
    <2>1. T \in Seq(Seq(D))
        OBVIOUS
    <2> HIDE DEF D
    <2> QED BY <2>1, PiecesExist
<1>3. FlattenSeq(T) = F[n]
    <2>1. T \in Seq(Seq(D))
        OBVIOUS
    <2> HIDE DEF D
    <2> QED BY <1>2, <2>1, FlattenPieces
<1> HIDE DEF D
<1> DEFINE A == {m \in Nat : m <= n => Lists1(F[m], U(m))}
<1>4. 0 \in A
  <2>1. F[0] = <<>> /\ U(0) = {}
      BY <1>2 DEF Pieces
  <2> HIDE DEF U
  <2> QED BY <2>1, ListsNone
<1>5. ASSUME NEW m \in A, m < n PROVE m + 1 \in A
  <2> DEFINE k == m + 1
  <2>1. m \in Nat /\ k \in 1..n /\ k - 1 = m /\ m <= n
      BY <1>1, <1>5
  <2>2. 1..k = 1..m \union {k} /\ \A i \in 1..m : i # k /\ i \in 1..n
    <3> HIDE DEF n
    <3>1. 1..k = 1..m \union {k}
        BY <2>1
    <3>2. \A i \in 1..m : i # k /\ i \in 1..n
        BY <1>1, <2>1
    <3> QED BY <3>1, <3>2
  <2>3. Lists1(F[m], U(m))
      BY <1>5, <2>1
  <2> HIDE DEF k
  <2>4. Lists1(T[k], P[k])
      BY <2>1
  <2>5. F[k] = F[m] \o T[k]
      BY <1>2, <2>1 DEF Pieces
  <2>6. U(m) \intersect P[k] = {}
    <3>1. \A i \in 1..m : P[i] \intersect P[k] = {}
        BY <2>1, <2>2
    <3> QED BY <3>1
  <2>7. U(k) = U(m) \union P[k]
      BY <2>2
  <2> HIDE DEF U
  <2>8. Lists1(F[m] \o T[k], U(m) \union P[k])
      BY <2>3, <2>4, <2>6, ListsJoin
  <2>9. Lists1(F[k], U(k))
      BY <2>5, <2>7, <2>8
  <2>10. k \in A
      BY <2>1, <2>9
  <2> QED BY <2>10 DEF k
<1>6. A \in SUBSET Nat
    OBVIOUS
<1>7. n \in A
  <2> HIDE DEF A
  <2>1. 0..n \subseteq A
      BY <1>1, <1>4, <1>5, <1>6, CountedTo
  <2>2. n \in 0..n
    <3> HIDE DEF n
    <3> QED BY <1>1
  <2> QED BY <2>1, <2>2
<1>8. Lists1(F[n], U(n))
    BY <1>1, <1>7
<1> QED BY <1>3, <1>8

\* A list of the elements of a set is as long as the set is large.
LEMMA ListsCount ==
    ASSUME NEW s, NEW S, Lists1(s, S)
    PROVE  Len(s) = Cardinality(S)
<1> DEFINE n == Len(s)
<1>1. n \in Nat /\ DOMAIN s = 1..n /\ s = [i \in 1..n |-> s[i]]
  <2> DEFINE D == Int
  <2>1. s \in Seq(D)
      BY DEF Lists1
  <2> HIDE DEF D
  <2> QED BY <2>1
<1>2. S = {s[i] : i \in 1..n} /\ \A i, j \in 1..n : s[i] = s[j] => i = j
    BY <1>1 DEF Lists1, ToSet
<1> HIDE DEF n
<1>3. s \in [1..n -> S]
    BY <1>1, <1>2
<1>4. s \in Injection(1..n, S)
    BY <1>1, <1>2, <1>3 DEF Injection, IsInjective
<1>5. s \in Surjection(1..n, S)
    BY <1>2, <1>3 DEF Surjection
<1>6. ExistsBijection(1..n, S)
    BY <1>4, <1>5 DEF ExistsBijection, Bijection
<1> QED BY <1>1, <1>6, FS_CountingElements DEF n

\* The slots that may have a value are those that Owners names.
LEMMA OwnersNamed ==
    ASSUME JsonInv, NEW own, own = OwnOf(held, stack, InHand)
    PROVE  \E X : /\ IsNamed(own, Owners, X) /\ X \subseteq Slots
                  /\ \A s \in Slots \ X : own[s] = NULL
<1> DEFINE X == {<<"held", x>> : x \in held}
           Y == FrameSlots(Len(stack))
           Z == IF text # <<>> /\ ret # Calling THEN {<<"ret", 0>>} ELSE {}
           A == SetToSeq(held)
           B == FlattenSeq([i \in DOMAIN stack |-> <<stack[i].list, stack[i].key>>])
           C == IF text # <<>> /\ ret # Calling THEN <<ret>> ELSE <<>>
<1>1. Reading(own, held, stack, InHand)
    BY OwnReads
<1>2. /\ IsHeap(heap) /\ InHand \in Pointers(heap) /\ held \subseteq InUse(heap)
      /\ stack \in Seq(Frames(heap)) /\ IsSequence(stack)
    BY WholeHeap DEF JsonInv
<1>3. held \subseteq Nat /\ IsFiniteSet(held) /\ InHand \in Int /\ Pointers(heap) \subseteq Int
  <2>1. IsFiniteSet(InUse(heap))
      BY <1>2 DEF IsHeap
  <2>2. IsFiniteSet(held)
      BY <1>2, <2>1, FS_Subset
  <2> QED BY <1>2, <2>2, Addresses
<1>4. Len(stack) \in Nat /\ DOMAIN stack = 1..Len(stack)
      /\ \A i \in 1..Len(stack) : stack[i].list \in Int /\ stack[i].key \in Int
  <2> DEFINE F == Frames(heap)
  <2>1. stack \in Seq(F)
      BY <1>2
  <2>2. \A f \in F : f.list \in Pointers(heap) /\ f.key \in Pointers(heap)
      BY DEF Frames
  <2> HIDE DEF F
  <2>3. /\ Len(stack) \in Nat /\ DOMAIN stack = 1..Len(stack)
        /\ \A i \in 1..Len(stack) : stack[i] \in F
      BY <2>1
  <2> QED BY <1>3, <2>2, <2>3
<1>5. IsNamed(own, A, X)
    BY <1>1, <1>3, NamedHeld
<1>6. IsNamed(own, B, Y)
    BY <1>1, <1>2, <1>4, NamedFrames
<1>7. IsNamed(own, C, Z)
  <2>1. CASE text # <<>> /\ ret # Calling
    <3>1. C = <<ret>> /\ Z = {<<"ret", 0>>} /\ InHand = ret
        BY <2>1 DEF InHand
    <3>2. own[<<"ret", 0>>] = ret
        BY <1>1, <3>1 DEF Reading
    <3> DEFINE o == [i \in 1..1 |-> <<"ret", 0>>]
               s == <<ret>>
    <3>3. s \in Seq(Int) /\ Len(s) = 1 /\ s[1] = ret
        BY <1>3, <3>1
    <3>4. o \in [1..1 -> {<<"ret", 0>>}] /\ o[1] = <<"ret", 0>>
        OBVIOUS
    <3> HIDE DEF o, s
    <3>5. Named(own, s, o, {<<"ret", 0>>})
        BY <3>2, <3>3, <3>4 DEF Named
    <3> QED BY <3>1, <3>5 DEF IsNamed, s
  <2>2. CASE ~(text # <<>> /\ ret # Calling)
    <3>1. C = <<>> /\ Z = {}
        BY <2>2
    <3>2. Named(own, <<>>, [i \in 1..0 |-> 0], {})
        BY DEF Named
    <3> QED BY <3>1, <3>2 DEF IsNamed
  <2> QED BY <2>1, <2>2
<1>8. /\ X \intersect Y = {} /\ (X \union Y) \intersect Z = {}
      /\ X \subseteq Slots /\ Y \subseteq Slots /\ Z \subseteq Slots
  <2>1. X \subseteq Slots
      BY <1>3, SlotForms
  <2>2. \A y \in Y : \E i \in Nat : y = <<"list", i>> \/ y = <<"key", i>>
      BY <1>4 DEF FrameSlots
  <2>3. Y \subseteq Slots
      BY <2>2, SlotForms
  <2>4. Z \subseteq Slots /\ \A z \in Z : z = <<"ret", 0>>
      BY SlotForms
  <2> HIDE DEF Y, Z
  <2> QED BY <2>1, <2>2, <2>3, <2>4
<1>9. ASSUME NEW s \in Slots, s \notin X \union Y \union Z PROVE own[s] = NULL
  <2>1. PICK n \in Nat : \/ s = <<"held", n>> \/ s = <<"list", n>>
                         \/ s = <<"key", n>> \/ s = <<"ret", n>>
      BY SlotForms
  <2>2. /\ own[<<"held", n>>] = IF n \in held THEN n ELSE NULL
        /\ own[<<"list", n>>] = ListAt(stack, n)
        /\ own[<<"key", n>>] = KeyAt(stack, n)
        /\ own[<<"ret", n>>] = IF n = 0 THEN InHand ELSE NULL
      BY <1>1 DEF Reading
  <2>3. CASE s = <<"held", n>>
      BY <1>9, <2>2, <2>3
  <2>4. CASE s = <<"list", n>> \/ s = <<"key", n>>
    <3>1. n \notin 1..Len(stack)
        BY <1>9, <2>4 DEF FrameSlots
    <3> QED BY <1>4, <2>2, <2>4, <3>1 DEF ListAt, KeyAt
  <2>5. CASE s = <<"ret", n>>
    <3>1. n = 0 => InHand = NULL
        BY <1>9, <2>5 DEF InHand
    <3> QED BY <2>2, <2>5, <3>1
  <2> QED BY <2>1, <2>3, <2>4, <2>5
<1>10. Owners = (A \o B) \o C
  <2>1. Owners = A \o B \o C
      BY DEF Owners
  <2> QED BY <2>1
<1> HIDE DEF X, Y, Z, A, B, C
<1>11. IsNamed(own, A \o B, X \union Y)
    BY <1>5, <1>6, <1>8, NamedJoin
<1>12. IsNamed(own, (A \o B) \o C, (X \union Y) \union Z)
    BY <1>7, <1>8, <1>11, NamedJoin
<1> QED BY <1>8, <1>9, <1>10, <1>12

\* Every value in memory has one owner, at every moment of a parse and after
\* every call: deleting what the program has, frees everything once.
THEOREM ValuesOwnedOnce == JsonSpec => []OwnedOnce
<1>1. JsonInv => OwnedOnce
  <2> SUFFICES ASSUME JsonInv PROVE OwnedOnce
      OBVIOUS
  <2> DEFINE own == OwnOf(held, stack, InHand)
             s == Owners
             T == [i \in DOMAIN s |-> Frees(heap, s[i])]
             n == Len(s)
  <2>1. PICK sub, slot : Owned(heap, sub, own, slot)
      BY DEF JsonInv, OwnersOf
  <2>2. PICK X : IsNamed(own, s, X) /\ X \subseteq Slots /\ \A t \in Slots \ X : own[t] = NULL
      BY OwnersNamed
  <2>3. PICK o : Named(own, s, o, X)
      BY <2>2 DEF IsNamed
  <2>4. IsHeap(heap) /\ IsForest(heap, sub) /\ Parted(heap, sub, own, slot)
      BY <2>1 DEF Owned
  <2> HIDE DEF own, s
  <2>5. n \in Nat /\ DOMAIN s = 1..n
    <3>1. s \in Seq(Int)
        BY <2>3 DEF Named
    <3> QED BY <3>1
  <2> DEFINE P == [i \in 1..n |-> {x \in InUse(heap) : slot[x] = o[i]}]
  <2>6. ASSUME NEW i \in 1..n PROVE Lists1(Frees(heap, s[i]), P[i])
    <3>1. o[i] \in Slots /\ s[i] = own[o[i]]
        BY <2>2, <2>3 DEF Named
    <3>2. /\ own[o[i]] \in Pointers(heap)
          /\ Part(sub, own[o[i]]) = {x \in InUse(heap) : slot[x] = o[i]}
        BY <2>4, <3>1 DEF Parted
    <3>3. s[i] \in Pointers(heap) /\ Part(sub, s[i]) = P[i]
        BY <3>1, <3>2
    <3>4. Lists1(Frees(heap, s[i]), Part(sub, s[i]))
        BY <2>4, <3>3, FreesParts
    <3> QED BY <3>3, <3>4
  <2>7. T \in Seq(Seq(Int)) /\ Len(T) = n /\ \A i \in 1..n : T[i] = Frees(heap, s[i])
    <3>1. \A i \in 1..n : Frees(heap, s[i]) \in Seq(Int)
        BY <2>6 DEF Lists1
    <3>2. T \in [1..n -> Seq(Int)]
        BY <2>5, <3>1
    <3> QED BY <2>5, <3>2
  <2>8. \A i, j \in 1..n : i # j => P[i] \intersect P[j] = {}
      BY <2>3 DEF Named
  <2>9. UNION {P[i] : i \in 1..n} = InUse(heap)
    <3>1. ASSUME NEW x \in InUse(heap) PROVE \E i \in 1..n : x \in P[i]
      <4>1. slot[x] \in Slots /\ own[slot[x]] \in InUse(heap)
          BY <2>1, OwnedWhole
      <4>2. own[slot[x]] # NULL
          BY <2>4, <4>1, Addresses DEF InUse
      <4>3. slot[x] \in X
          BY <2>2, <4>1, <4>2
      <4>4. PICK i \in 1..n : o[i] = slot[x]
          BY <2>3, <4>3 DEF Named
      <4> QED BY <4>4
    <3>2. \A i \in 1..n : P[i] \subseteq InUse(heap)
        OBVIOUS
    <3> HIDE DEF P
    <3> QED BY <3>1, <3>2
  <2> DEFINE freed == FlattenSeq(T)
  <2>10. freed = FlattenSeq([i \in DOMAIN Owners |-> Frees(heap, Owners[i])])
      BY DEF s
  <2> HIDE DEF T, P, n
  <2>11. Lists1(freed, InUse(heap))
    <3>1. \A i \in 1..Len(T) : Lists1(T[i], P[i])
        BY <2>6, <2>7
    <3>2. \A i, j \in 1..Len(T) : i # j => P[i] \intersect P[j] = {}
        BY <2>7, <2>8
    <3>3. Lists1(FlattenSeq(T), UNION {P[i] : i \in 1..Len(T)})
        BY <2>7, <3>1, <3>2, ListsAll
    <3> QED BY <2>7, <2>9, <3>3
  <2>12. Len(freed) = Cardinality(InUse(heap)) /\ ToSet(freed) = InUse(heap)
      BY <2>11, ListsCount DEF Lists1
  <2> HIDE DEF freed
  <2> QED BY <2>10, <2>12 DEF OwnedOnce
<1> QED BY <1>1, JsonInvariant, PTL

=============================================================================
