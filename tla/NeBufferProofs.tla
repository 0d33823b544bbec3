---------------------------- MODULE NeBufferProofs ----------------------------
(***************************************************************************)
(* Theorems about NeBuffer, for a user that has at most one buffer queued  *)
(* at a time.  The list then has one cell or none (ListInv): the write of  *)
(* an unfinished buffer changes only its position, and the free of what    *)
(* is linked behind the front frees the front alone.                       *)
(***************************************************************************)
EXTENDS NeBuffer, CountingLemmas, FiniteSetTheorems, TLAPS

LEMMA CellCount ==
    /\ Cardinality(Cells) \in Nat
    /\ Cells # {} => 1 \in 1..Cardinality(Cells)
<1>1. Cardinality(Cells) \in Nat
    BY BufferAssumption, FS_CardinalityType
<1>2. Cells # {} => Cardinality(Cells) # 0
    BY BufferAssumption, FS_EmptySet
<1> QED BY <1>1, <1>2

\* A cell with nothing behind it is a list of its own.
LEMMA ShortList ==
    ASSUME NEW table, NEW c \in Cells \union {Null}, c # Null => table[c].next = Null
    PROVE  Linked(table, c) = IF c = Null THEN <<>> ELSE <<c>>
<1> DEFINE N == Cardinality(Cells)
           Solves(f) == f = [i \in 1..N |-> IF i = 1 THEN c
                                            ELSE IF f[i - 1] = Null THEN Null
                                            ELSE table[f[i - 1]].next]
           at == CHOOSE f : Solves(f)
           D == [i \in 1..N |-> IF i = 1 THEN c ELSE Null]
<1>1. N \in Nat /\ (c # Null => 1 \in 1..N)
    BY CellCount
<1>2. \A i \in 1..N : D[i] = IF i = 1 THEN c
                             ELSE IF D[i - 1] = Null THEN Null ELSE table[D[i - 1]].next
  <2> TAKE i \in 1..N
  <2>1. i # 1 => i - 1 \in 1..N
      BY <1>1
  <2>2. i # 1 => D[i] = Null /\ (D[i - 1] = Null \/ D[i - 1] = c)
      BY <2>1
  <2>3. i = 1 => D[i] = c
      OBVIOUS
  <2> HIDE DEF D
  <2> QED BY <2>2, <2>3
<1>3. D = [i \in 1..N |-> D[i]] /\ \A i \in 1..N : D[i] = IF i = 1 THEN c ELSE Null
    OBVIOUS
<1> HIDE DEF D, N
<1>4. Solves(at)
  <2>1. Solves(D)
      BY <1>2, <1>3
  <2> QED BY <2>1
<1>5. Linked(table, c) = [i \in {j \in 1..N : at[j] # Null} |-> at[i]]
    BY DEF Linked, N
<1> HIDE DEF at
<1>6. \A i \in 1..N : at[i] = IF i = 1 THEN c ELSE Null
  <2> DEFINE A == {i \in Nat : i \in 1..N => at[i] = IF i = 1 THEN c ELSE Null}
  <2>1. 0 \in A /\ A \in SUBSET Nat
      OBVIOUS
  <2>2. ASSUME NEW i \in A, i < N PROVE i + 1 \in A
    <3>1. i \in Nat /\ i + 1 \in 1..N /\ (i + 1) - 1 = i /\ (i # 0 => i \in 1..N)
        BY <1>1, <2>2
    <3>2. at[i + 1] = IF i + 1 = 1 THEN c
                      ELSE IF at[i] = Null THEN Null ELSE table[at[i]].next
        BY <1>4, <3>1
    <3>3. i # 0 => (at[i] = Null \/ at[i] = c)
        BY <3>1
    <3>4. at[i + 1] = IF i + 1 = 1 THEN c ELSE Null
        BY <3>1, <3>2, <3>3
    <3> QED BY <3>1, <3>4
  <2> HIDE DEF A
  <2>3. 0..N \subseteq A
      BY <1>1, <2>1, <2>2, CountedTo
  <2> QED BY <1>1, <2>3 DEF A
<1>7. CASE c = Null
  <2>1. {j \in 1..N : at[j] # Null} = {}
      BY <1>6, <1>7
  <2> QED BY <1>5, <1>7, <2>1
<1>8. CASE c # Null
  <2>1. {j \in 1..N : at[j] # Null} = 1..1
      BY <1>1, <1>6, <1>8
  <2>2. at[1] = c
      BY <1>1, <1>6, <1>8
  <2>3. [i \in 1..1 |-> at[i]] = <<c>>
      BY <2>2
  <2> QED BY <1>5, <1>8, <2>1, <2>3
<1> QED BY <1>7, <1>8

(***************************************************************************)
(* The inductive invariant.                                                *)
(***************************************************************************)
Items == [live : BOOLEAN, buff : Seq(Nat), pos : Nat, next : Cells \union {Null}]

Waiting(x) ==
    /\ x.live = TRUE /\ x.next = Null
    /\ x.buff \in Payloads
    /\ x.pos \in 0..(Len(x.buff) - 1)

\* A list of at most one cell, of which nothing else of the heap is live.
Alone(table, c) ==
    /\ table \in [Cells -> Items]
    /\ c \in Cells \union {Null}
    /\ \A x \in Cells \ {c} : table[x] = Free
    /\ c # Null => Waiting(table[c])

Left(table, c) == IF c = Null THEN <<>> ELSE UnsentBytes(table[c])

ListInv ==
    /\ Alone(heap, front) /\ back = front
    /\ wire \in Seq(Nat) /\ pushed \in Seq(Nat)
    /\ ~failed => wire \o Left(heap, front) = pushed

\* What the definitions of the model mean of such a list.
QueueOf(table, c) ==
    LET l == Linked(table, c)
    IN  [i \in 1..Len(l) |-> [buff |-> table[l[i]].buff, pos |-> table[l[i]].pos]]

Entry(x) == [buff |-> x.buff, pos |-> x.pos]

LEMMA AloneMeans ==
    ASSUME NEW table, NEW c, Alone(table, c)
    PROVE  /\ {Linked(table, c)[i] : i \in 1..Len(Linked(table, c))} = {c} \ {Null}
           /\ QueueOf(table, c) = IF c = Null THEN <<>> ELSE << Entry(table[c]) >>
<1>1. Linked(table, c) = IF c = Null THEN <<>> ELSE <<c>>
  <2>1. c \in Cells \union {Null} /\ (c # Null => table[c].next = Null)
      BY DEF Alone, Waiting
  <2> QED BY <2>1, ShortList
<1>2. CASE c = Null
  <2>1. Linked(table, c) = <<>>
      BY <1>1, <1>2
  <2>2. QueueOf(table, c) = <<>>
      BY <2>1 DEF QueueOf
  <2> QED BY <1>2, <2>1, <2>2
<1>3. CASE c # Null
  <2>1. Linked(table, c) = <<c>> /\ Len(<<c>>) = 1 /\ <<c>>[1] = c
      BY <1>1, <1>3
  <2>2. QueueOf(table, c) = << Entry(table[c]) >>
      BY <2>1 DEF QueueOf, Entry
  <2> QED BY <1>3, <2>1, <2>2
<1> QED BY <1>2, <1>3

\* The bytes that a buffer waiting has left, and how a write divides them.
LEMMA LeftOver ==
    ASSUME NEW x, Waiting(x)
    PROVE  /\ x.buff \in Seq(Nat) /\ Len(x.buff) \in 1..(SizeMod - 1)
           /\ Unsent(x) \in Nat \ {0} /\ UnsentBytes(x) \in Seq(Nat)
<1>1. x.buff \in Seq(Nat) /\ Len(x.buff) \in 1..(SizeMod - 1) /\ SizeMod \in Nat
    BY QueueAssumption DEF Waiting
<1>2. Unsent(x) \in Nat \ {0}
    BY <1>1 DEF Waiting, Unsent
<1>3. UnsentBytes(x) \in Seq(Nat)
  <2> DEFINE s == x.buff
             m == x.pos + 1
  <2>1. s \in Seq(Nat) /\ m \in Nat \ {0}
      BY <1>1 DEF Waiting
  <2> HIDE DEF s, m
  <2>2. SubSeq(s, m, Len(s)) \in Seq(Nat)
      BY <2>1
  <2> QED BY <2>2 DEF UnsentBytes, s, m
<1> QED BY <1>1, <1>2, <1>3

LEMMA Divided ==
    ASSUME NEW s \in Seq(Nat), NEW a \in Nat, NEW b \in Nat, a <= b, b <= Len(s),
           NEW w \in Seq(Nat)
    PROVE  /\ w \o SubSeq(s, a + 1, b) \in Seq(Nat)
           /\ (w \o SubSeq(s, a + 1, b)) \o SubSeq(s, b + 1, Len(s))
                = w \o SubSeq(s, a + 1, Len(s))
           /\ SubSeq(s, Len(s) + 1, Len(s)) = <<>>
<1> DEFINE x == SubSeq(s, a + 1, b)
           y == SubSeq(s, b + 1, Len(s))
           z == SubSeq(s, a + 1, Len(s))
<1>1. x \in Seq(Nat) /\ y \in Seq(Nat) /\ z \in Seq(Nat)
    OBVIOUS
<1>2. /\ Len(x) = b - a /\ Len(y) = Len(s) - b /\ Len(z) = Len(s) - a
      /\ \A i \in 1..(b - a) : x[i] = s[a + i]
      /\ \A i \in 1..(Len(s) - b) : y[i] = s[b + i]
      /\ \A i \in 1..(Len(s) - a) : z[i] = s[a + i]
    OBVIOUS
<1>3. SubSeq(s, Len(s) + 1, Len(s)) = <<>>
    OBVIOUS
<1> HIDE DEF x, y, z
<1>4. x \o y = z
  <2>1. /\ x \o y \in Seq(Nat) /\ Len(x \o y) = Len(x) + Len(y)
        /\ \A i \in 1..Len(x) : (x \o y)[i] = x[i]
        /\ \A i \in 1..Len(y) : (x \o y)[Len(x) + i] = y[i]
      BY <1>1, ConcatReads
  <2> DEFINE v == x \o y
             n == Len(s)
  <2> HIDE DEF v
  <2>2. n \in Nat /\ Len(v) = n - a
      BY <1>2, <2>1 DEF v
  <2>3. ASSUME NEW i \in 1..(n - a) PROVE v[i] = z[i]
    <3>1. CASE i <= b - a
        BY <1>2, <2>1, <2>2, <3>1 DEF v
    <3>2. CASE ~(i <= b - a)
      <4> DEFINE j == i - (b - a)
      <4>1. j \in 1..(n - b) /\ (b - a) + j = i /\ b + j = a + i
          BY <2>2, <3>2
      <4> HIDE DEF j
      <4>2. v[(b - a) + j] = y[j] /\ y[j] = s[b + j] /\ z[i] = s[a + i]
          BY <1>2, <2>1, <4>1 DEF v
      <4> QED BY <4>1, <4>2
    <3> QED BY <3>1, <3>2
  <2>4. v \in Seq(Nat)
      BY <2>1 DEF v
  <2>5. v = z
    <3> DEFINE l == n - a
    <3>1. Len(v) = l /\ Len(z) = l /\ \A i \in 1..l : v[i] = z[i]
        BY <1>2, <2>2, <2>3
    <3> HIDE DEF l
    <3>2. v = [i \in 1..l |-> v[i]] /\ z = [i \in 1..l |-> z[i]]
        BY <1>1, <2>4, <3>1
    <3> QED BY <3>1, <3>2
  <2> QED BY <2>5 DEF v
<1>5. (w \o x) \o y = w \o (x \o y)
    BY <1>1
<1>6. w \o x \in Seq(Nat)
    BY <1>1
<1>7. (w \o x) \o y = w \o z
    BY <1>4, <1>5
<1> QED BY <1>3, <1>6, <1>7 DEF x, y, z

LEMMA InitList == BufferInit => ListInv
<1> SUFFICES ASSUME BufferInit PROVE ListInv
    OBVIOUS
<1>1. /\ heap = [c \in Cells |-> Free] /\ front = Null /\ back = Null
      /\ wire = <<>> /\ pushed = <<>>
    BY DEF BufferInit
<1>2. Free \in Items
    BY DEF Free, Items
<1>3. Alone(heap, front)
    BY <1>1, <1>2 DEF Alone
<1>4. Left(heap, front) = <<>>
    BY <1>1 DEF Left
<1> QED BY <1>1, <1>3, <1>4 DEF ListInv

LEMMA PushKeeps ==
    ASSUME ListInv, MaxQueued <= 1, Push
    PROVE  ListInv' /\ \E p \in Payloads : Queue' = PushBack(Queue, FromBuff(p))
<1>1. PICK p \in Payloads, c \in {x \in Cells : ~heap[x].live} :
          WritePushBack(p, c) /\ pushed' = pushed \o p
    BY DEF Push
<1> DEFINE item == [live |-> TRUE, buff |-> p, pos |-> 0, next |-> Null]
<1>2. Queue = QueueOf(heap, front) /\ Queue' = QueueOf(heap', front')
    BY DEF Queue, QueueOf, Chain
<1>3. front = Null /\ Queue = <<>>
  <2>1. Len(Queue) < 1
      BY BufferAssumption DEF Push
  <2>2. Queue = IF front = Null THEN <<>> ELSE << Entry(heap[front]) >>
      BY <1>2, AloneMeans DEF ListInv
  <2> QED BY <2>1, <2>2
<1>4. /\ heap' = [heap EXCEPT ![c] = item] /\ front' = c /\ back' = c
      /\ wire' = wire /\ failed' = failed
    BY <1>1, <1>3 DEF WritePushBack, Push
<1>5. /\ heap \in [Cells -> Items] /\ \A x \in Cells : heap[x] = Free
      /\ c \in Cells /\ c # Null
    BY <1>3, BufferAssumption DEF ListInv, Alone
<1>6. item \in Items /\ Waiting(item) /\ p \in Seq(Nat) /\ Len(p) \in Nat
  <2>1. p \in Seq(Nat) /\ Len(p) \in 1..(SizeMod - 1) /\ SizeMod \in Nat
      BY QueueAssumption
  <2> QED BY <2>1 DEF Items, Waiting
<1>7. UnsentBytes(item) = p /\ Entry(item) = FromBuff(p)
    BY <1>6 DEF UnsentBytes, Entry, FromBuff
<1> HIDE DEF item
<1>8. Alone(heap', front') /\ heap'[c] = item
    BY <1>4, <1>5, <1>6 DEF Alone
<1>9. ~failed' => wire' \o Left(heap', front') = pushed'
  <2>1. Left(heap, front) = <<>> /\ Left(heap', front') = p
      BY <1>3, <1>4, <1>5, <1>7, <1>8 DEF Left
  <2>2. wire \in Seq(Nat) /\ wire \o <<>> = wire
      BY DEF ListInv
  <2> QED BY <1>1, <1>4, <2>1, <2>2 DEF ListInv
<1>10. Queue' = << FromBuff(p) >>
  <2>1. Alone(heap', c) /\ Queue' = QueueOf(heap', c)
      BY <1>2, <1>4, <1>8
  <2>2. QueueOf(heap', c) = IF c = Null THEN <<>> ELSE << Entry(heap'[c]) >>
      BY <2>1, AloneMeans
  <2> QED BY <1>5, <1>7, <1>8, <2>1, <2>2
<1>11. Queue' = PushBack(Queue, FromBuff(p))
    BY <1>3, <1>10 DEF PushBack
<1>12. wire' \in Seq(Nat) /\ pushed' \in Seq(Nat)
    BY <1>1, <1>4, <1>6 DEF ListInv
<1> QED BY <1>4, <1>8, <1>9, <1>11, <1>12 DEF ListInv

\* The free of the front, with what is linked after it, empties the list.
LEMMA FreedAlone ==
    ASSUME Alone(heap, front), front # Null
    PROVE  /\ Freed(front) = [x \in Cells |-> Free]
           /\ heap[front].next = Null
<1>1. CellsOf(front) = {front}
  <2>1. CellsOf(front) = {Linked(heap, front)[i] : i \in 1..Len(Linked(heap, front))}
      BY DEF CellsOf, Chain
  <2>2. CellsOf(front) = {front} \ {Null}
      BY <2>1, AloneMeans
  <2> QED BY <2>2
<1>2. heap[front].next = Null /\ \A x \in Cells \ {front} : heap[x] = Free
    BY DEF Alone, Waiting
<1>3. \A x \in Cells : (IF x \in CellsOf(front) THEN Free ELSE heap[x]) = Free
    BY <1>1, <1>2
<1> QED BY <1>2, <1>3 DEF Freed

LEMMA NoneLeft ==
    ASSUME NEW table, table = [x \in Cells |-> Free]
    PROVE  /\ Alone(table, Null) /\ Left(table, Null) = <<>>
           /\ QueueOf(table, Null) = <<>>
<1>1. Free \in Items
    BY DEF Free, Items
<1>2. Alone(table, Null)
    BY <1>1 DEF Alone
<1> QED BY <1>2, AloneMeans DEF Left

LEMMA DeleteKeeps ==
    ASSUME ListInv, NodeDelete
    PROVE  ListInv' /\ Queue' = <<>>
<1>1. /\ front' = Null /\ back' = Null /\ wire' = <<>> /\ pushed' = <<>>
      /\ heap' = IF front = Null THEN heap ELSE Freed(front)
    BY DEF NodeDelete
<1>2. heap' = [x \in Cells |-> Free]
  <2>1. CASE front = Null
    <3>1. heap \in [Cells -> Items] /\ \A x \in Cells : heap[x] = Free
        BY <2>1, BufferAssumption DEF ListInv, Alone
    <3> QED BY <1>1, <2>1, <3>1
  <2>2. CASE front # Null
      BY <1>1, <2>2, FreedAlone DEF ListInv
  <2> QED BY <2>1, <2>2
<1>3. Alone(heap', front') /\ Left(heap', front') = <<>> /\ QueueOf(heap', front') = <<>>
    BY <1>1, <1>2, NoneLeft
<1>4. Queue' = <<>>
    BY <1>3 DEF Queue, QueueOf, Chain
<1> QED BY <1>1, <1>3, <1>4 DEF ListInv

\* The position after a write(), whose size_t does not wrap.
LEMMA PosFound ==
    ASSUME NEW x, Waiting(x), NEW r \in {-1} \union 1..Unsent(x)
    PROVE  /\ r = -1 => PosAfter(x, r) = Len(x.buff) - 1
           /\ r # -1 => r \in Nat \ {0} /\ PosAfter(x, r) = x.pos + r
           /\ PosAfter(x, r) \in 0..Len(x.buff)
<1> DEFINE n == Len(x.buff)
           a == x.pos
<1>1. n \in 1..(SizeMod - 1) /\ a \in 0..(n - 1) /\ SizeMod \in Nat \ {0}
      /\ r \in {-1} \union 1..(n - a)
    BY LeftOver, QueueAssumption DEF Waiting, Unsent
<1>2. PosAfter(x, r) = ((IF r <= 0 THEN n ELSE a) + r + SizeMod) % SizeMod
    BY DEF PosAfter
<1> HIDE DEF n, a
<1>3. ASSUME NEW k \in 0..(SizeMod - 1) PROVE (k + SizeMod) % SizeMod = k
    BY <1>1
<1>4. CASE r = -1
  <2>1. n - 1 \in 0..(SizeMod - 1) /\ n + (-1) = n - 1 /\ n - 1 \in 0..n
      BY <1>1
  <2>2. PosAfter(x, r) = ((n - 1) + SizeMod) % SizeMod
      BY <1>2, <1>4, <2>1
  <2> QED BY <1>3, <1>4, <2>1, <2>2 DEF n
<1>5. CASE r # -1
  <2>1. r \in Nat \ {0} /\ ~(r <= 0) /\ a + r \in 0..(SizeMod - 1) /\ a + r \in 0..n
      BY <1>1, <1>5
  <2>2. PosAfter(x, r) = ((a + r) + SizeMod) % SizeMod
      BY <1>2, <2>1
  <2> QED BY <1>3, <1>5, <2>1, <2>2 DEF n, a
<1> QED BY <1>4, <1>5

LEMMA WriteKeeps ==
    ASSUME ListInv, WriteFront
    PROVE  /\ ListInv'
           /\ Queue # <<>> /\ \E r \in {-1} \union 1..Unsent(Head(Queue)) :
                                Queue' = Written(Queue, r)
<1> DEFINE x == heap[front]
           s == x.buff
           e == Entry(x)
<1>1. PICK r \in {-1} \union 1..Unsent(x) :
          /\ IF PosAfter(x, r) >= Len(s) THEN PopFrount
             ELSE heap' = [heap EXCEPT ![front].pos = PosAfter(x, r)] /\ UNCHANGED <<front, back>>
          /\ wire' = IF r <= 0 THEN wire ELSE wire \o SubSeq(s, x.pos + 1, x.pos + r)
          /\ failed' = (failed \/ r = -1)
    BY DEF WriteFront
<1> DEFINE p == PosAfter(x, r)
<1>2. Alone(heap, front) /\ front # Null /\ front \in Cells /\ back = front /\ pushed' = pushed
      /\ wire \in Seq(Nat) /\ pushed \in Seq(Nat)
    BY DEF ListInv, Alone, WriteFront
<1>3. Waiting(x) /\ x \in Items /\ heap \in [Cells -> Items] /\ \A y \in Cells \ {front} : heap[y] = Free
    BY <1>2 DEF Alone
<1>4. s \in Seq(Nat) /\ Len(s) \in Nat /\ x.pos \in Nat /\ x.pos < Len(s) /\ Unsent(x) \in Nat \ {0}
  <2>1. s \in Seq(Nat) /\ Len(s) \in 1..(SizeMod - 1) /\ Unsent(x) \in Nat \ {0}
      BY <1>3, LeftOver
  <2>2. x.pos \in 0..(Len(s) - 1)
      BY <1>3 DEF Waiting
  <2> HIDE DEF x, s
  <2> QED BY <2>1, <2>2
<1>5. /\ r = -1 => p = Len(s) - 1
      /\ r # -1 => r \in Nat \ {0} /\ p = x.pos + r
      /\ p \in 0..Len(s)
    BY <1>3, PosFound
<1>6. Queue = <<e>>
  <2>1. Queue = QueueOf(heap, front)
      BY DEF Queue, QueueOf, Chain
  <2>2. Queue = IF front = Null THEN <<>> ELSE <<e>>
      BY <1>2, <2>1, AloneMeans
  <2> QED BY <1>2, <2>2
<1>7. Head(Queue) = e /\ Tail(Queue) = <<>> /\ Queue # <<>> /\ Unsent(e) = Unsent(x)
      /\ PosAfter(e, r) = p /\ e.buff = s
  <2>1. e.buff = s /\ e.pos = x.pos
      BY DEF Entry
  <2> HIDE DEF e
  <2>2. Head(<<e>>) = e /\ Tail(<<e>>) = <<>> /\ <<e>> # <<>>
      OBVIOUS
  <2> QED BY <1>6, <2>1, <2>2 DEF Unsent, PosAfter
<1> HIDE DEF x, e, s, p
<1>8. Left(heap, front) = SubSeq(s, x.pos + 1, Len(s))
    BY <1>2 DEF Left, UnsentBytes, x, s
<1>9. wire' \in Seq(Nat)
  <2>1. CASE r = -1
      BY <1>1, <1>2, <2>1
  <2>2. CASE r # -1
    <3>0. ~(r <= 0) /\ p = x.pos + r
        BY <1>5, <2>2
    <3>1. wire' = wire \o SubSeq(s, x.pos + 1, p)
        BY <1>1, <3>0
    <3>2. x.pos <= p /\ p <= Len(s) /\ p \in Nat
        BY <1>4, <1>5, <2>2
    <3> QED BY <1>2, <1>4, <3>1, <3>2, Divided
  <2> QED BY <2>1, <2>2
<1>10. ~failed' => /\ wire' \o SubSeq(s, p + 1, Len(s)) = pushed'
                   /\ p = Len(s) => SubSeq(s, p + 1, Len(s)) = <<>>
  <2> SUFFICES ASSUME ~failed, r # -1
               PROVE  /\ wire' \o SubSeq(s, p + 1, Len(s)) = pushed'
                      /\ p = Len(s) => SubSeq(s, p + 1, Len(s)) = <<>>
      BY <1>1
  <2>0. ~(r <= 0) /\ p = x.pos + r
      BY <1>5
  <2>1. wire' = wire \o SubSeq(s, x.pos + 1, p)
      BY <1>1, <2>0
  <2>2. x.pos <= p /\ p <= Len(s) /\ p \in Nat
      BY <1>4, <1>5
  <2>3. /\ (wire \o SubSeq(s, x.pos + 1, p)) \o SubSeq(s, p + 1, Len(s))
             = wire \o SubSeq(s, x.pos + 1, Len(s))
        /\ SubSeq(s, Len(s) + 1, Len(s)) = <<>>
      BY <1>2, <1>4, <2>2, Divided
  <2>4. wire \o SubSeq(s, x.pos + 1, Len(s)) = pushed
      BY <1>8 DEF ListInv
  <2> QED BY <1>2, <2>1, <2>3, <2>4
<1>11. CASE p >= Len(s)
  <2>1. p = Len(s) /\ r # -1
      BY <1>4, <1>5, <1>11
  <2>2. PopFrount
      BY <1>1, <1>11 DEF p
  <2>3. front' = Null /\ back' = Null /\ heap' = [y \in Cells |-> Free]
      BY <1>2, <2>2, FreedAlone DEF PopFrount
  <2>4. Alone(heap', front') /\ Left(heap', front') = <<>> /\ QueueOf(heap', front') = <<>>
      BY <2>3, NoneLeft
  <2>5. Queue' = <<>>
      BY <2>4 DEF Queue, QueueOf, Chain
  <2>6. Written(Queue, r) = <<>>
      BY <1>7, <1>11 DEF Written, PopFront
  <2>7. ~failed' => wire' \o Left(heap', front') = pushed'
      BY <1>10, <2>1, <2>4
  <2>8. ListInv'
      BY <1>2, <1>9, <2>3, <2>4, <2>7 DEF ListInv
  <2> QED BY <1>7, <2>5, <2>6, <2>8
<1>12. CASE ~(p >= Len(s))
  <2> DEFINE y == [x EXCEPT !.pos = p]
  <2>1. p \in 0..(Len(s) - 1)
      BY <1>4, <1>5, <1>12
  <2>2. heap' = [heap EXCEPT ![front].pos = p] /\ front' = front /\ back' = back
      BY <1>1, <1>12 DEF p
  <2>3. heap' = [heap EXCEPT ![front] = y]
      BY <1>2, <2>2 DEF x
  <2>4. y \in Items /\ Waiting(y) /\ y.buff = s /\ y.pos = p
      BY <1>3, <1>4, <2>1 DEF Items, Waiting, s
  <2> HIDE DEF y
  <2>5. Alone(heap', front') /\ heap'[front'] = y
      BY <1>2, <1>3, <2>2, <2>3, <2>4 DEF Alone
  <2>6. Left(heap', front') = SubSeq(s, p + 1, Len(s))
      BY <1>2, <2>2, <2>4, <2>5 DEF Left, UnsentBytes
  <2>7. Queue' = << Entry(y) >>
    <3>1. Queue' = QueueOf(heap', front')
        BY DEF Queue, QueueOf, Chain
    <3>2. Queue' = IF front' = Null THEN <<>> ELSE << Entry(heap'[front']) >>
        BY <2>5, <3>1, AloneMeans
    <3> QED BY <1>2, <2>2, <2>5, <3>2
  <2>8. Written(Queue, r) = << Entry(y) >>
    <3>1. Written(Queue, r) = MovedTo(Queue, p)
        BY <1>7, <1>12 DEF Written
    <3>2. Entry(y) = [buff |-> s, pos |-> p]
        BY <2>4 DEF Entry
    <3>3. MovedTo(Queue, p) = << Entry(y) >> \o <<>>
        BY <1>7, <3>2 DEF MovedTo
    <3> QED BY <3>1, <3>3
  <2>9. ListInv'
      BY <1>2, <1>9, <1>10, <2>2, <2>5, <2>6 DEF ListInv
  <2> QED BY <1>7, <2>7, <2>8, <2>9
<1> QED BY <1>11, <1>12

(***************************************************************************)
(* The properties of NeBuffer.                                             *)
(***************************************************************************)

\* The invariant holds in every state of the specification.
THEOREM ListInvariant == ASSUME MaxQueued <= 1 PROVE BufferSpec => []ListInv
<1>1. ListInv /\ [BufferNext]_bufferVars => ListInv'
  <2> SUFFICES ASSUME ListInv, [BufferNext]_bufferVars PROVE ListInv'
      OBVIOUS
  <2>1. CASE Push
      BY <2>1, PushKeeps
  <2>2. CASE WriteFront
      BY <2>2, WriteKeeps
  <2>3. CASE NodeDelete
      BY <2>3, DeleteKeeps
  <2>4. CASE UNCHANGED bufferVars
      BY <2>4 DEF bufferVars, ListInv
  <2> QED BY <2>1, <2>2, <2>3, <2>4 DEF BufferNext
<1> QED BY <1>1, InitList, PTL DEF BufferSpec

\* Of the pushes, pops and frees of net_event.c (20-26, 49-67): the list holds
\* what is allocated and nothing that is freed.
THEOREM ListCorrect == ASSUME MaxQueued <= 1 PROVE BufferSpec => []ListHoldsMemory
<1>1. ListInv => ListHoldsMemory
  <2> SUFFICES ASSUME ListInv PROVE ListHoldsMemory
      OBVIOUS
  <2>1. CellsOf(front) = {Linked(heap, front)[i] : i \in 1..Len(Linked(heap, front))}
      BY DEF CellsOf, Chain
  <2>2. Alone(heap, front)
      BY DEF ListInv
  <2>3. CellsOf(front) = {front} \ {Null}
      BY <2>1, <2>2, AloneMeans
  <2>4. {c \in Cells : heap[c].live} = {front} \ {Null}
    <3>1. \A c \in Cells : heap[c].live <=> c = front
      <4> TAKE c \in Cells
      <4>1. c # front => heap[c].live = FALSE
          BY DEF ListInv, Alone, Free
      <4>2. c = front => heap[c].live = TRUE
          BY BufferAssumption DEF ListInv, Alone, Waiting
      <4> QED BY <4>1, <4>2
    <3>2. front \in Cells \union {Null} /\ Null \notin Cells
        BY BufferAssumption DEF ListInv, Alone
    <3> QED BY <3>1, <3>2
  <2>5. front = back
      BY DEF ListInv
  <2> QED BY <2>3, <2>4, <2>5 DEF ListHoldsMemory
<1> QED BY <1>1, ListInvariant, PTL

\* Of the writes of handler__ (net_event.c:194-210): however little write()
\* accepts at a time, the bytes go out in the order they were pushed.
THEOREM BytesCorrect == ASSUME MaxQueued <= 1 PROVE BufferSpec => []BytesInOrder
<1>1. ListInv => BytesInOrder
  <2> SUFFICES ASSUME ListInv, ~failed
               PROVE  wire \o FlattenSeq([i \in 1..Len(Queue) |-> UnsentBytes(Queue[i])]) = pushed
      BY DEF BytesInOrder
  <2> DEFINE T == [i \in 1..Len(Queue) |-> UnsentBytes(Queue[i])]
  <2>1. Queue = IF front = Null THEN <<>> ELSE << Entry(heap[front]) >>
    <3>1. Queue = QueueOf(heap, front)
        BY DEF Queue, QueueOf, Chain
    <3> QED BY <3>1, AloneMeans DEF ListInv
  <2>2. FlattenSeq(T) = Left(heap, front)
    <3>1. CASE front = Null
      <4>1. T = <<>> /\ <<>> \in Seq(Nat)
          BY <2>1, <3>1
      <4> HIDE DEF T
      <4> QED BY <3>1, <4>1, FlattenGrows DEF Left
    <3>2. CASE front # Null
      <4>1. UnsentBytes(Entry(heap[front])) = UnsentBytes(heap[front])
          BY DEF UnsentBytes, Entry
      <4>2. UnsentBytes(heap[front]) \in Seq(Nat)
          BY <3>2, LeftOver DEF ListInv, Alone
      <4> DEFINE u == UnsentBytes(heap[front])
                 e == Entry(heap[front])
      <4>3. Queue = <<e>> /\ UnsentBytes(e) = u
          BY <2>1, <3>2, <4>1
      <4> HIDE DEF u, e
      <4>4. T = <<u>>
          BY <4>3
      <4> HIDE DEF T
      <4>5. FlattenSeq(<<u>>) = u
          BY <4>2, FlattenGrows DEF u
      <4> QED BY <3>2, <4>4, <4>5 DEF Left, u
    <3> QED BY <3>1, <3>2
  <2>3. wire \o Left(heap, front) = pushed
      BY DEF ListInv
  <2> QED BY <2>2, <2>3
<1> QED BY <1>1, ListInvariant, PTL

\* The pointers of the list (net_event.c:20-67) do to it what PushBack and
\* Written of WriteQueue do to a sequence.
THEOREM ImplementsQueueCorrect == ASSUME MaxQueued <= 1 PROVE BufferSpec => ImplementsQueue
<1> DEFINE Step == \/ \E p \in Payloads : Queue' = PushBack(Queue, FromBuff(p))
                   \/ Queue # <<>> /\ \E r \in {-1} \union 1..Unsent(Head(Queue)) : Queue' = Written(Queue, r)
                   \/ Queue' = <<>>
<1>1. ListInv /\ [BufferNext]_bufferVars => [Step]_Queue
  <2> SUFFICES ASSUME ListInv, [BufferNext]_bufferVars PROVE Step \/ Queue' = Queue
      OBVIOUS
  <2>1. CASE Push
      BY <2>1, PushKeeps
  <2>2. CASE WriteFront
      BY <2>2, WriteKeeps
  <2>3. CASE NodeDelete
      BY <2>3, DeleteKeeps
  <2>4. CASE UNCHANGED bufferVars
      BY <2>4 DEF bufferVars, Queue, Chain
  <2> QED BY <2>1, <2>2, <2>3, <2>4 DEF BufferNext
<1> QED BY <1>1, ListInvariant, PTL DEF BufferSpec, ImplementsQueue
=============================================================================
