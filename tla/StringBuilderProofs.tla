------------------------- MODULE StringBuilderProofs -------------------------
(***************************************************************************)
(* Theorems about StringBuilder.  The cells of a builder are described by  *)
(* a ghost sequence, which the loops over cache_head are shown to follow   *)
(* (Chained); what they read is then the text of the pieces along it, by   *)
(* the lemmas of CountingLemmas about FlattenSeq.                          *)
(***************************************************************************)
EXTENDS StringBuilder, CountingLemmas, FiniteSetTheorems, TLAPS

Chars == Nat \ {Zero}

Chained(table, head, s) ==
    /\ s \in Seq(Cells)
    /\ DOMAIN table = {s[i] : i \in 1..Len(s)}
    /\ IF head = Null THEN Len(s) = 0 ELSE Len(s) # 0 /\ s[1] = head
    /\ \A i, j \in 1..Len(s) : s[i] = s[j] => i = j
    /\ \A i \in 1..Len(s) :
         table[s[i]].cache_head = IF i = Len(s) THEN Null ELSE s[i + 1]

LEMMA NullFacts ==
    /\ Null \notin Cells /\ Null \notin Buffers
    /\ Cardinality(Cells) \in Nat /\ IsFiniteSet(Cells)
    /\ Texts \subseteq Seq(Chars) /\ Seq(Chars) \subseteq Seq(Nat)
<1>1. Cardinality(Cells) \in Nat
    BY BuilderAssumption, FS_CardinalityType
<1>2. Seq(Chars) \subseteq Seq(Nat)
    BY DEF Chars
<1> QED BY <1>1, <1>2, BuilderAssumption DEF Chars

LEMMA ShortChain ==
    ASSUME NEW s \in Seq(Cells), \A i, j \in 1..Len(s) : s[i] = s[j] => i = j
    PROVE  Len(s) <= Cardinality(Cells)
<1> DEFINE n == Len(s)
<1>1. n \in Nat /\ s \in [1..n -> Cells]
    OBVIOUS
<1>2. s \in Injection(1..n, Cells)
    BY <1>1 DEF Injection, IsInjective
<1>3. Cardinality(1..n) <= Cardinality(Cells)
    BY <1>2, NullFacts, FS_Injection
<1>4. Cardinality(1..n) = n
    BY <1>1, FS_Interval
<1> QED BY <1>3, <1>4

\* The loops over cache_head meet the cells of the chain, one after the other.
LEMMA ChainFound ==
    ASSUME NEW table, NEW head, NEW s, Chained(table, head, s)
    PROVE  Linked(table, head) = s
<1> DEFINE N == Cardinality(Cells)
           n == Len(s)
           Solves(f) == f = [i \in 1..N |-> IF i = 1 THEN head
                                            ELSE IF f[i - 1] \in DOMAIN table THEN table[f[i - 1]].cache_head
                                            ELSE Null]
           at == CHOOSE f : Solves(f)
           D == [i \in 1..N |-> IF i <= n THEN s[i] ELSE Null]
<1>1. /\ N \in Nat /\ n \in Nat /\ s \in Seq(Cells)
      /\ \A i \in 1..n : s[i] \in Cells /\ s[i] # Null /\ s[i] \in DOMAIN table
      /\ Null \notin DOMAIN table
    BY NullFacts DEF Chained
<1>2. n <= N
    BY <1>1, ShortChain DEF Chained
<1>3. \A i \in 1..N : D[i] = IF i = 1 THEN head
                             ELSE IF D[i - 1] \in DOMAIN table THEN table[D[i - 1]].cache_head
                             ELSE Null
  <2> TAKE i \in 1..N
  <2>1. CASE i = 1
      BY <1>1, <2>1 DEF Chained
  <2>2. CASE i # 1
    <3>1. i - 1 \in 1..N /\ i \in Nat
        BY <1>1, <2>2
    <3>2. CASE i - 1 <= n
      <4>1. D[i - 1] = s[i - 1] /\ i - 1 \in 1..n /\ s[i - 1] \in DOMAIN table
          BY <1>1, <3>1, <3>2
      <4>2. table[s[i - 1]].cache_head = IF i - 1 = n THEN Null ELSE s[(i - 1) + 1]
          BY <4>1 DEF Chained
      <4>3. D[i] = IF i - 1 = n THEN Null ELSE s[(i - 1) + 1]
          BY <1>1, <3>1, <3>2
      <4> HIDE DEF D
      <4> QED BY <2>2, <4>1, <4>2, <4>3
    <3>3. CASE ~(i - 1 <= n)
      <4>1. D[i - 1] = Null /\ D[i] = Null
          BY <1>1, <3>1, <3>3
      <4> HIDE DEF D
      <4> QED BY <1>1, <2>2, <4>1
    <3> QED BY <3>2, <3>3
  <2> QED BY <2>1, <2>2
<1>4. D = [i \in 1..N |-> D[i]]
    OBVIOUS
<1>5. \A i \in 1..N : D[i] = IF i <= n THEN s[i] ELSE Null
    OBVIOUS
<1> HIDE DEF D
<1>6. Solves(D)
    BY <1>3, <1>4
<1>7. Solves(at)
    BY <1>6
<1>8. Linked(table, head) = [i \in {j \in 1..N : at[j] # Null} |-> at[i]]
    BY DEF Linked
<1> HIDE DEF at
<1>9. \A i \in 1..N : at[i] = D[i]
  <2> DEFINE A == {i \in Nat : i \in 1..N => at[i] = D[i]}
  <2>1. 0 \in A /\ A \in SUBSET Nat
      OBVIOUS
  <2>2. ASSUME NEW i \in A, i < N PROVE i + 1 \in A
    <3>1. i \in Nat /\ i + 1 \in 1..N /\ (i + 1) - 1 = i
        BY <1>1, <2>2
    <3>2. at[i + 1] = IF i + 1 = 1 THEN head
                      ELSE IF at[i] \in DOMAIN table THEN table[at[i]].cache_head ELSE Null
        BY <1>7, <3>1
    <3>3. D[i + 1] = IF i + 1 = 1 THEN head
                      ELSE IF D[i] \in DOMAIN table THEN table[D[i]].cache_head ELSE Null
        BY <1>3, <3>1
    <3>4. i # 0 => i \in 1..N
        BY <1>1, <2>2, <3>1
    <3>5. i # 0 => at[i] = D[i]
        BY <3>4
    <3>6. at[i + 1] = D[i + 1]
        BY <3>1, <3>2, <3>3, <3>5
    <3> QED BY <3>1, <3>6
  <2> HIDE DEF A
  <2>3. 0..N \subseteq A
      BY <1>1, <2>1, <2>2, CountedTo
  <2> QED BY <1>1, <2>3 DEF A
<1>10. {j \in 1..N : at[j] # Null} = 1..n
    BY <1>1, <1>2, <1>5, <1>9
<1>11. \A i \in 1..n : at[i] = s[i]
    BY <1>1, <1>2, <1>5, <1>9
<1>12. s = [i \in 1..n |-> s[i]]
    BY <1>1
<1> QED BY <1>8, <1>10, <1>11, <1>12

(***************************************************************************)
(* The memory of a builder and the text in it.                             *)
(***************************************************************************)
CellTypes == [buffer : Buffers \union {Null}, cache_head : Cells \union {Null}]

Memory(table, store) ==
    /\ \A c \in DOMAIN table : table[c] \in CellTypes
    /\ \A c \in DOMAIN table : table[c].buffer \in DOMAIN store \union {Null}
    /\ DOMAIN store \subseteq Buffers
    /\ \A b \in DOMAIN store : store[b] \in Seq(Chars)

PieceOf(table, store, c) ==
    IF table[c].buffer = Null THEN <<>> ELSE store[table[c].buffer]

Along(table, store, s) == [i \in 1..Len(s) |-> PieceOf(table, store, s[i])]

LEMMA AlongTexts ==
    ASSUME NEW table, NEW store, NEW head, NEW s, Memory(table, store), Chained(table, head, s)
    PROVE  /\ Along(table, store, s) \in Seq(Seq(Chars))
           /\ Len(Along(table, store, s)) = Len(s)
           /\ \A i \in 1..Len(s) : Along(table, store, s)[i] = PieceOf(table, store, s[i])
<1>1. Len(s) \in Nat /\ \A i \in 1..Len(s) : s[i] \in DOMAIN table
    BY DEF Chained
<1>2. \A i \in 1..Len(s) : PieceOf(table, store, s[i]) \in Seq(Chars)
  <2> TAKE i \in 1..Len(s)
  <2>1. table[s[i]].buffer \in DOMAIN store \union {Null}
      BY <1>1 DEF Memory
  <2>2. <<>> \in Seq(Chars)
      OBVIOUS
  <2> QED BY <2>1, <2>2 DEF Memory, PieceOf
<1> DEFINE T == [i \in 1..Len(s) |-> PieceOf(table, store, s[i])]
<1>3. T \in [1..Len(s) -> Seq(Chars)]
    BY <1>2
<1>4. T \in Seq(Seq(Chars)) /\ Len(T) = Len(s)
  <2> HIDE DEF T
  <2> QED BY <1>1, <1>3
<1> QED BY <1>4 DEF Along

IsPut(f, x, y, r) ==
    /\ DOMAIN r = DOMAIN f \union {x}
    /\ r[x] = y
    /\ \A z \in DOMAIN f : z # x => r[z] = f[z]

LEMMA PutView ==
    ASSUME NEW f, NEW x, NEW y
    PROVE  IsPut(f, x, y, Put(f, x, y))
BY DEF Put, IsPut

IsWithout(f, S, r) ==
    DOMAIN r = DOMAIN f \ S /\ \A z \in DOMAIN f \ S : r[z] = f[z]

LEMMA WithoutView ==
    ASSUME NEW f, NEW S
    PROVE  IsWithout(f, S, Without(f, S))
BY DEF Without, IsWithout

\* A cell c of a new text in b is linked behind the cell l.
Extended(table, r, l, c, b) ==
    /\ DOMAIN r = DOMAIN table \union {c}
    /\ r[c] = [buffer |-> b, cache_head |-> Null]
    /\ r[l].buffer = table[l].buffer /\ r[l].cache_head = c
    /\ \A d \in DOMAIN table : d # l => r[d] = table[d]
    /\ \A d \in DOMAIN r : r[d] \in CellTypes

LEMMA LinkView ==
    ASSUME NEW table, \A d \in DOMAIN table : table[d] \in CellTypes,
           NEW l \in DOMAIN table, NEW c \in Cells \ DOMAIN table, NEW b \in Buffers
    PROVE  Extended(table, [Put(table, c, [buffer |-> b, cache_head |-> Null])
                              EXCEPT ![l].cache_head = c], l, c, b)
<1> DEFINE cell == [buffer |-> b, cache_head |-> Null]
           p == Put(table, c, cell)
           x == [table[l] EXCEPT !.cache_head = c]
           r == [p EXCEPT ![l] = x]
<1>1. cell \in CellTypes /\ x \in CellTypes /\ x.buffer = table[l].buffer /\ x.cache_head = c
    BY DEF CellTypes
<1> HIDE DEF cell
<1>7. IsPut(table, c, cell, p)
    BY PutView
<1>2. /\ DOMAIN p = DOMAIN table \union {c} /\ p[c] = cell /\ c # l
      /\ \A z \in DOMAIN table : z # c => p[z] = table[z]
    BY <1>7 DEF IsPut
<1>3. p[l] = table[l] /\ p = [z \in DOMAIN p |-> p[z]]
    BY <1>2 DEF Put
<1>4. [p EXCEPT ![l].cache_head = c] = r
    BY <1>3
<1> HIDE DEF cell, p, x
<1>5. DOMAIN r = DOMAIN p /\ r[l] = x /\ \A z \in DOMAIN p : z # l => r[z] = p[z]
    BY <1>2, <1>3
<1> HIDE DEF r
<1>6. Extended(table, r, l, c, b)
    BY <1>1, <1>2, <1>5 DEF Extended, cell
<1> QED BY <1>4, <1>6 DEF p, cell

(***************************************************************************)
(* The inductive invariant.                                                *)
(***************************************************************************)

\* The texts given are not those of the cells behind the head, which the next
\* c_str frees.
Kept(table, head, g, s) ==
    /\ Chained(table, head, s)
    /\ \A i \in 2..Len(s) : table[s[i]].buffer \notin DOMAIN g

Given(store, g) == \A b \in DOMAIN g : b \in DOMAIN store /\ store[b] = g[b]

Tidy(table, store) == DOMAIN store = {table[c].buffer : c \in DOMAIN table} \ {Null}

BuilderInv ==
    /\ Memory(cells, chars)
    /\ Given(chars, given)
    /\ tidy => Tidy(cells, chars)
    /\ \E s : Kept(cells, sb, given, s)

\* Through the ghost: what the definitions of the model mean.
LEMMA ChainMeans ==
    ASSUME NEW s, Chained(cells, sb, s)
    PROVE  /\ Chain = s
           /\ DOMAIN Chain = 1..Len(s)
           /\ Reached = DOMAIN cells
           /\ Contents = FlattenSeq(Along(cells, chars, s))
<1>1. Chain = s
    BY ChainFound DEF Chain
<1>2. s \in Seq(Cells) /\ DOMAIN s = 1..Len(s)
    BY DEF Chained
<1>3. Reached = DOMAIN cells
  <2>1. DOMAIN cells = {s[i] : i \in 1..Len(s)}
      BY DEF Chained
  <2> QED BY <1>1, <1>2, <2>1 DEF Reached
<1>4. Contents = FlattenSeq(Along(cells, chars, s))
    BY <1>1, <1>2 DEF Contents, Along, TextOf, PieceOf
<1> QED BY <1>1, <1>2, <1>3, <1>4

\* A cell alone.
LEMMA OneCell ==
    ASSUME NEW table, NEW c \in Cells, DOMAIN table = {c}, table[c].cache_head = Null, NEW g
    PROVE  Kept(table, c, g, <<c>>)
<1>1. /\ <<c>> \in Seq(Cells) /\ Len(<<c>>) = 1 /\ <<c>>[1] = c
      /\ \A i \in 1..1 : i = 1 /\ <<c>>[i] = c
    OBVIOUS
<1>2. c # Null
    BY NullFacts
<1>3. Chained(table, c, <<c>>)
    BY <1>1, <1>2 DEF Chained
<1>4. 2..1 = {}
    OBVIOUS
<1> QED BY <1>1, <1>3, <1>4 DEF Kept

LEMMA NoCells ==
    ASSUME NEW table, DOMAIN table = {}, NEW g
    PROVE  Kept(table, Null, g, <<>>)
<1>1. /\ <<>> \in Seq(Cells) /\ Len(<<>>) = 0
      /\ 1..0 = {} /\ 2..0 = {}
    OBVIOUS
<1>2. {<<>>[i] : i \in 1..0} = {}
    BY <1>1
<1> QED BY <1>1, <1>2 DEF Kept, Chained

LEMMA InitBuilder == BuilderInit => BuilderInv
<1> SUFFICES ASSUME BuilderInit PROVE BuilderInv
    OBVIOUS
<1>1. /\ DOMAIN cells = {} /\ DOMAIN chars = {} /\ DOMAIN given = {} /\ sb = Null
    BY DEF BuilderInit
<1>2. Kept(cells, sb, given, <<>>)
    BY <1>1, NoCells
<1> QED BY <1>1, <1>2 DEF BuilderInv, Memory, Given, Tidy

LEMMA NoBuilder ==
    ASSUME BuilderInv, sb = Null
    PROVE  DOMAIN cells = {}
<1>1. PICK s : Kept(cells, sb, given, s)
    BY DEF BuilderInv
<1>2. Len(s) = 0 /\ DOMAIN cells = {s[i] : i \in 1..Len(s)}
    BY <1>1 DEF Kept, Chained
<1> QED BY <1>2

LEMMA NewKeeps ==
    ASSUME BuilderInv, NEW c \in FreeCells, New(c)
    PROVE  /\ BuilderInv'
           /\ sb = Null /\ sb' # Null /\ Contents' = <<>>
<1> DEFINE cell == [buffer |-> Null, cache_head |-> Null]
<1>1. /\ sb = Null /\ sb' = c /\ cells' = Put(cells, c, cell) /\ c \in Cells
      /\ chars' = chars /\ given' = given /\ tidy' = tidy
    BY DEF New, FreeCells
<1>2. DOMAIN cells = {}
    BY <1>1, NoBuilder
<1>3. DOMAIN cells' = {c} /\ cells'[c] = cell
  <2> HIDE DEF cell
  <2>1. IsPut(cells, c, cell, cells')
      BY <1>1, PutView
  <2> QED BY <1>2, <2>1 DEF IsPut
<1>4. cells'[c].buffer = Null /\ cells'[c].cache_head = Null /\ cells'[c] \in CellTypes
    BY <1>3 DEF CellTypes
<1> HIDE DEF cell
<1>5. Kept(cells', sb', given', <<c>>)
    BY <1>1, <1>3, <1>4, OneCell
<1>6. Memory(cells', chars') /\ Given(chars', given')
    BY <1>1, <1>3, <1>4 DEF BuilderInv, Memory, Given
<1>7. tidy' => Tidy(cells', chars')
    BY <1>1, <1>2, <1>3, <1>4 DEF BuilderInv, Tidy
<1>8. Along(cells', chars', <<c>>) = << <<>> >>
    BY <1>4 DEF Along, PieceOf
<1>9. Contents' = <<>>
  <2>1. Linked(cells', sb') = <<c>>
      BY <1>5, ChainFound DEF Kept
  <2>2. Contents' = FlattenSeq(Along(cells', chars', <<c>>))
      BY <2>1 DEF Contents, Chain, Along, TextOf, PieceOf
  <2>3. <<>> \in Seq(Nat)
      OBVIOUS
  <2> QED BY <1>8, <2>2, <2>3, FlattenGrows
<1> QED BY <1>1, <1>5, <1>6, <1>7, <1>9, NullFacts DEF BuilderInv

\* What a builder of one cell holds, when its buffer is b.
LEMMA OneText ==
    ASSUME NEW table, NEW store, NEW c \in Cells, NEW b \in Buffers,
           table[c].buffer = b, store[b] \in Seq(Chars)
    PROVE  FlattenSeq(Along(table, store, <<c>>)) = store[b]
<1>1. b # Null
    BY NullFacts
<1>2. Along(table, store, <<c>>) = <<store[b]>>
    BY <1>1 DEF Along, PieceOf
<1> QED BY <1>2, FlattenGrows

LEMMA FromPcharKeeps ==
    ASSUME BuilderInv, NEW c \in FreeCells, NEW b \in FreeBuffers, NEW t \in Texts,
           FromPchar(t, c, b)
    PROVE  /\ BuilderInv'
           /\ sb = Null /\ sb' # Null /\ Contents' = t
<1> DEFINE cell == [buffer |-> b, cache_head |-> Null]
<1>1. /\ sb = Null /\ sb' = c /\ cells' = Put(cells, c, cell) /\ c \in Cells
      /\ chars' = Put(chars, b, t) /\ given' = given /\ tidy' = FALSE
      /\ b \in Buffers /\ b \notin DOMAIN chars
    BY DEF FromPchar, FreeCells, FreeBuffers
<1>2. DOMAIN cells = {}
    BY <1>1, NoBuilder
<1>3. DOMAIN cells' = {c} /\ cells'[c] = cell
  <2> HIDE DEF cell
  <2>1. IsPut(cells, c, cell, cells')
      BY <1>1, PutView
  <2> QED BY <1>2, <2>1 DEF IsPut
<1>4. cells'[c].buffer = b /\ cells'[c].cache_head = Null /\ cells'[c] \in CellTypes
    BY <1>1, <1>3 DEF CellTypes
<1> HIDE DEF cell
<1>5. IsPut(chars, b, t, chars')
    BY <1>1, PutView
<1>6. /\ DOMAIN chars' = DOMAIN chars \union {b} /\ chars'[b] = t /\ t \in Seq(Chars)
      /\ \A z \in DOMAIN chars : chars'[z] = chars[z]
    BY <1>1, <1>5, NullFacts DEF IsPut
<1>7. Kept(cells', sb', given', <<c>>)
    BY <1>1, <1>3, <1>4, OneCell
<1>8. Memory(cells', chars')
    BY <1>1, <1>3, <1>4, <1>6 DEF BuilderInv, Memory
<1>9. Given(chars', given')
    BY <1>1, <1>6 DEF BuilderInv, Given
<1>10. Contents' = t
  <2>1. Linked(cells', sb') = <<c>>
      BY <1>7, ChainFound DEF Kept
  <2>2. Contents' = FlattenSeq(Along(cells', chars', <<c>>))
      BY <2>1 DEF Contents, Chain, Along, TextOf, PieceOf
  <2>3. FlattenSeq(Along(cells', chars', <<c>>)) = chars'[b]
      BY <1>1, <1>4, <1>6, OneText
  <2> QED BY <1>6, <2>2, <2>3
<1> QED BY <1>1, <1>7, <1>8, <1>9, <1>10, NullFacts DEF BuilderInv

LEMMA AppendKeeps ==
    ASSUME BuilderInv, NEW c \in FreeCells, NEW b \in FreeBuffers, NEW t \in Texts,
           AppendText(t, c, b)
    PROVE  /\ BuilderInv'
           /\ sb # Null /\ sb' = sb /\ Contents' = Contents \o t /\ Contents \in Seq(Chars)
<1>1. PICK s : Kept(cells, sb, given, s)
    BY DEF BuilderInv
<1> DEFINE n == Len(s)
           l == s[n]
           s2 == Append(s, c)
<1>2. Chain = s /\ Contents = FlattenSeq(Along(cells, chars, s))
    BY <1>1, ChainMeans DEF Kept
<1>3. /\ sb # Null /\ sb' = sb /\ c \in Cells \ DOMAIN cells /\ given' = given /\ tidy' = tidy
      /\ cells' = [Put(cells, c, [buffer |-> b, cache_head |-> Null]) EXCEPT ![Last(Chain)].cache_head = c]
      /\ chars' = Put(chars, b, t) /\ b \in Buffers /\ b \notin DOMAIN chars
    BY DEF AppendText, FreeCells, FreeBuffers
<1>4. /\ s \in Seq(Cells) /\ n \in Nat /\ n # 0 /\ DOMAIN cells = {s[i] : i \in 1..n} /\ s[1] = sb
      /\ \A i, j \in 1..n : s[i] = s[j] => i = j
      /\ \A i \in 1..n : cells[s[i]].cache_head = IF i = n THEN Null ELSE s[i + 1]
    BY <1>1, <1>3 DEF Kept, Chained
<1>5. Last(Chain) = l /\ l \in DOMAIN cells
    BY <1>2, <1>4 DEF Last
<1>6. Extended(cells, cells', l, c, b)
  <2>1. \A d \in DOMAIN cells : cells[d] \in CellTypes
      BY DEF BuilderInv, Memory
  <2> HIDE DEF l
  <2> QED BY <1>3, <1>5, <2>1, LinkView
<1>7. IsPut(chars, b, t, chars')
    BY <1>3, PutView
<1>8. /\ DOMAIN chars' = DOMAIN chars \union {b} /\ chars'[b] = t /\ t \in Seq(Chars)
      /\ \A z \in DOMAIN chars : chars'[z] = chars[z]
    BY <1>3, <1>7, NullFacts DEF IsPut
<1>9. /\ DOMAIN cells' = DOMAIN cells \union {c} /\ cells'[c].buffer = b /\ cells'[c].cache_head = Null
      /\ cells'[l].cache_head = c
      /\ \A d \in DOMAIN cells : /\ cells'[d].buffer = cells[d].buffer
                                 /\ d # l => cells'[d].cache_head = cells[d].cache_head
      /\ \A d \in DOMAIN cells' : cells'[d] \in CellTypes
    BY <1>6 DEF Extended
<1>10. /\ s2 \in Seq(Cells) /\ Len(s2) = n + 1 /\ s2[n + 1] = c
       /\ \A i \in 1..n : s2[i] = s[i] /\ s[i] \in DOMAIN cells /\ s[i] # c
    BY <1>3, <1>4
<1> HIDE DEF n, l, s2
<1>11. Chained(cells', sb', s2)
  <2>1. DOMAIN cells' = {s2[i] : i \in 1..Len(s2)}
      BY <1>4, <1>9, <1>10
  <2>2. s2[1] = sb' /\ Len(s2) # 0
    <3>1. 1 \in 1..n /\ n + 1 # 0
        BY <1>4
    <3>2. s2[1] = s[1]
        BY <1>10, <3>1
    <3> QED BY <1>3, <1>4, <1>10, <3>1, <3>2
  <2>3. \A i, j \in 1..Len(s2) : s2[i] = s2[j] => i = j
    <3> TAKE i, j \in 1..Len(s2)
    <3>1. (i = n + 1 \/ i \in 1..n) /\ (j = n + 1 \/ j \in 1..n)
        BY <1>4, <1>10
    <3> QED BY <1>4, <1>10, <3>1
  <2>4. ASSUME NEW i \in 1..Len(s2)
        PROVE  cells'[s2[i]].cache_head = IF i = Len(s2) THEN Null ELSE s2[i + 1]
    <3>1. CASE i = n + 1
        BY <1>9, <1>10, <3>1
    <3>2. CASE i = n
      <4>1. s2[i] = l /\ i # Len(s2)
          BY <1>4, <1>10, <3>2 DEF l
      <4> QED BY <1>9, <1>10, <3>2, <4>1
    <3>3. CASE i \in 1..n /\ i # n
      <4>1. s[i] # l /\ i + 1 \in 1..n /\ i # Len(s2)
          BY <1>4, <1>10, <3>3 DEF l
      <4>2. s2[i] = s[i] /\ s2[i + 1] = s[i + 1] /\ s[i] \in DOMAIN cells
          BY <1>10, <3>3, <4>1
      <4>3. cells[s[i]].cache_head = s[i + 1]
          BY <1>4, <3>3
      <4>4. cells'[s[i]].cache_head = cells[s[i]].cache_head
          BY <1>9, <4>1, <4>2
      <4> QED BY <4>1, <4>2, <4>3, <4>4
    <3> QED BY <1>4, <1>10, <3>1, <3>2, <3>3
  <2> QED BY <1>3, <1>10, <2>1, <2>2, <2>3, <2>4 DEF Chained
<1>12. Kept(cells', sb', given', s2)
  <2>1. ASSUME NEW i \in 2..Len(s2) PROVE cells'[s2[i]].buffer \notin DOMAIN given'
    <3>1. CASE i = n + 1
        BY <1>3, <1>9, <1>10, <3>1 DEF BuilderInv, Given
    <3>2. CASE i # n + 1
      <4>1. i \in 1..n /\ i \in 2..n
          BY <1>4, <1>10, <3>2
      <4>2. cells[s[i]].buffer \notin DOMAIN given
          BY <1>1, <4>1 DEF Kept, n
      <4> QED BY <1>3, <1>9, <1>10, <4>1, <4>2
    <3> QED BY <3>1, <3>2
  <2> QED BY <1>11, <2>1 DEF Kept
<1>13. Memory(cells', chars')
    BY <1>3, <1>8, <1>9 DEF BuilderInv, Memory
<1>14. Given(chars', given')
    BY <1>3, <1>8 DEF BuilderInv, Given
<1>15. tidy' => Tidy(cells', chars')
  <2> SUFFICES ASSUME tidy PROVE Tidy(cells', chars')
      BY <1>3
  <2>1. DOMAIN chars = {cells[d].buffer : d \in DOMAIN cells} \ {Null}
      BY DEF BuilderInv, Tidy
  <2>2. b # Null
      BY <1>3, NullFacts
  <2> QED BY <1>8, <1>9, <2>1, <2>2 DEF Tidy
<1>16. Contents' = Contents \o t /\ Contents \in Seq(Chars)
  <2> DEFINE T == Along(cells, chars, s)
             U == Along(cells', chars', s2)
  <2>1. T \in Seq(Seq(Chars)) /\ Len(T) = n /\ \A i \in 1..n : T[i] = PieceOf(cells, chars, s[i])
      BY <1>1, AlongTexts DEF BuilderInv, Kept, n
  <2>2. U \in Seq(Seq(Chars)) /\ Len(U) = n + 1
        /\ \A i \in 1..(n + 1) : U[i] = PieceOf(cells', chars', s2[i])
      BY <1>10, <1>11, <1>13, AlongTexts
  <2> HIDE DEF T, U
  <2>3. \A i \in 1..n : U[i] = T[i]
    <3> TAKE i \in 1..n
    <3>1. cells[s[i]].buffer \in DOMAIN chars \union {Null}
        BY <1>10 DEF BuilderInv, Memory
    <3>2. PieceOf(cells', chars', s2[i]) = PieceOf(cells, chars, s[i])
        BY <1>8, <1>9, <1>10, <3>1 DEF PieceOf
    <3>3. i \in 1..(n + 1)
        BY <1>4
    <3> QED BY <2>1, <2>2, <3>2, <3>3
  <2>4. U[n + 1] = t
    <3>1. n + 1 \in 1..(n + 1) /\ b # Null
        BY <1>3, <1>4, NullFacts
    <3> QED BY <1>8, <1>9, <1>10, <2>2, <3>1 DEF PieceOf
  <2>5. U = Append(T, t)
      BY <1>4, <1>8, <2>1, <2>2, <2>3, <2>4
  <2>6. Linked(cells', sb') = s2
      BY <1>11, ChainFound
  <2>7. DOMAIN s2 = 1..Len(s2)
      BY <1>10
  <2>8. Contents' = FlattenSeq(U)
      BY <2>6, <2>7 DEF Contents, Chain, U, Along, TextOf, PieceOf
  <2>9. Contents = FlattenSeq(T)
      BY <1>2 DEF T
  <2> QED BY <1>8, <2>1, <2>5, <2>8, <2>9, FlattenGrows
<1> QED BY <1>3, <1>12, <1>13, <1>14, <1>15, <1>16 DEF BuilderInv

LEMMA CStrKeeps ==
    ASSUME BuilderInv, NEW b \in FreeBuffers, CStr(b)
    PROVE  /\ BuilderInv'
           /\ sb # Null /\ sb' = sb /\ Contents' = Contents
<1>1. PICK s : Kept(cells, sb, given, s)
    BY DEF BuilderInv
<1> DEFINE n == Len(s)
           cell == [buffer |-> b, cache_head |-> Null]
           F == BuffersFreed
           B == CellsBehind
           kept == Without(cells, B)
           left == Without(chars, F)
<1>2. Chain = s /\ Contents = FlattenSeq(Along(cells, chars, s))
    BY <1>1, ChainMeans DEF Kept
<1>3. /\ sb # Null /\ sb' = sb /\ cells' = Put(kept, sb, cell)
      /\ chars' = Put(left, b, Contents) /\ given' = Put(given, b, Contents)
      /\ tidy' = (tidy /\ cells[sb].buffer = Null) /\ b \in Buffers /\ b \notin DOMAIN chars
    BY DEF CStr, FreeBuffers
<1>4. /\ s \in Seq(Cells) /\ n \in Nat /\ n # 0 /\ DOMAIN cells = {s[i] : i \in 1..n} /\ s[1] = sb
      /\ \A i, j \in 1..n : s[i] = s[j] => i = j
    BY <1>1, <1>3 DEF Kept, Chained
<1>5. sb \in Cells /\ 1 \in 1..n
    BY <1>4
<1>6. B = {s[i] : i \in 2..n} /\ F = {cells[c].buffer : c \in B} \ {Null}
    BY <1>2 DEF CellsBehind, BuffersFreed, BuffersOf
<1>7. DOMAIN cells = B \union {sb} /\ sb \notin B
  <2>1. \A i \in 1..n : i = 1 \/ i \in 2..n
      BY <1>4
  <2>2. \A i \in 2..n : i \in 1..n /\ i # 1
      BY <1>4
  <2>3. \A i \in 2..n : s[i] # s[1]
      BY <1>4, <1>5, <2>2
  <2> QED BY <1>4, <1>5, <1>6, <2>1, <2>2, <2>3
<1> HIDE DEF n, cell, F, B, kept, left
<1>8. DOMAIN cells' = {sb} /\ cells'[sb] = cell
  <2>1. IsWithout(cells, B, kept)
      BY WithoutView DEF kept
  <2>2. IsPut(kept, sb, cell, cells')
      BY <1>3, PutView
  <2> QED BY <1>7, <2>1, <2>2 DEF IsWithout, IsPut
<1>9. cells'[sb].buffer = b /\ cells'[sb].cache_head = Null /\ cells'[sb] \in CellTypes
    BY <1>3, <1>8 DEF cell, CellTypes
<1>10. IsWithout(chars, F, left) /\ IsPut(left, b, Contents, chars')
    BY <1>3, WithoutView, PutView DEF left
<1>11. /\ DOMAIN chars' = (DOMAIN chars \ F) \union {b} /\ chars'[b] = Contents
       /\ \A z \in DOMAIN chars \ F : chars'[z] = chars[z]
    BY <1>3, <1>10 DEF IsPut, IsWithout
<1>12. Contents \in Seq(Chars)
  <2>1. Along(cells, chars, s) \in Seq(Seq(Chars))
      BY <1>1, AlongTexts DEF BuilderInv, Kept
  <2>2. <<>> \in Seq(Chars)
      OBVIOUS
  <2> QED BY <1>2, <2>1, <2>2, FlattenGrows
<1>13. Kept(cells', sb', given', <<sb>>)
    BY <1>3, <1>5, <1>8, <1>9, OneCell
<1>14. Memory(cells', chars')
    BY <1>3, <1>8, <1>9, <1>11, <1>12 DEF BuilderInv, Memory
<1>15. Given(chars', given')
  <2>1. IsPut(given, b, Contents, given')
      BY <1>3, PutView
  <2>2. \A d \in DOMAIN given : d \in DOMAIN chars /\ chars[d] = given[d]
      BY DEF BuilderInv, Given
  <2>3. \A d \in DOMAIN given : d \notin F
      BY <1>1, <1>6 DEF Kept, n
  <2> QED BY <1>3, <1>11, <2>1, <2>2, <2>3 DEF Given, IsPut
<1>16. tidy' => Tidy(cells', chars')
  <2> SUFFICES ASSUME tidy, cells[sb].buffer = Null PROVE Tidy(cells', chars')
      BY <1>3
  <2>1. DOMAIN chars = {cells[d].buffer : d \in DOMAIN cells} \ {Null}
      BY DEF BuilderInv, Tidy
  <2>2. b # Null
      BY <1>3, NullFacts
  <2>3. DOMAIN chars = F
      BY <1>6, <1>7, <2>1
  <2>4. DOMAIN chars' = {b}
      BY <1>11, <2>3
  <2> QED BY <1>8, <1>9, <2>2, <2>4 DEF Tidy
<1>17. Contents' = Contents
  <2>1. Linked(cells', sb') = <<sb>>
      BY <1>13, ChainFound DEF Kept
  <2>2. Contents' = FlattenSeq(Along(cells', chars', <<sb>>))
      BY <2>1 DEF Contents, Chain, Along, TextOf, PieceOf
  <2>3. FlattenSeq(Along(cells', chars', <<sb>>)) = chars'[b]
      BY <1>3, <1>5, <1>9, <1>11, <1>12, OneText
  <2> QED BY <1>11, <2>2, <2>3
<1> QED BY <1>3, <1>13, <1>14, <1>15, <1>16, <1>17 DEF BuilderInv

LEMMA DeleteKeeps ==
    ASSUME BuilderInv, Delete
    PROVE  BuilderInv' /\ sb # Null /\ sb' = Null
<1>1. PICK s : Kept(cells, sb, given, s)
    BY DEF BuilderInv
<1> DEFINE F == BuffersOf(Reached)
<1>2. Reached = DOMAIN cells
    BY <1>1, ChainMeans DEF Kept
<1>3. /\ sb # Null /\ sb' = Null /\ cells' = Without(cells, DOMAIN cells)
      /\ chars' = Without(chars, F) /\ given' = Without(given, F) /\ tidy' = tidy
    BY <1>2 DEF Delete
<1>4. F = {cells[c].buffer : c \in DOMAIN cells} \ {Null}
    BY <1>2 DEF BuffersOf
<1> HIDE DEF F
<1>5. DOMAIN cells' = {}
  <2>1. IsWithout(cells, DOMAIN cells, cells')
      BY <1>3, WithoutView
  <2> QED BY <2>1 DEF IsWithout
<1>6. IsWithout(chars, F, chars') /\ IsWithout(given, F, given')
    BY <1>3, WithoutView
<1>7. Kept(cells', sb', given', <<>>)
    BY <1>3, <1>5, NoCells
<1>8. Memory(cells', chars') /\ Given(chars', given')
    BY <1>5, <1>6 DEF BuilderInv, Memory, Given, IsWithout
<1>9. tidy' => Tidy(cells', chars')
    BY <1>3, <1>4, <1>5, <1>6 DEF BuilderInv, Tidy, IsWithout
<1> QED BY <1>3, <1>7, <1>8, <1>9 DEF BuilderInv

\* The invariant holds in every state of the specification.
THEOREM BuilderInvariant == BuilderSpec => []BuilderInv
<1>1. BuilderInv /\ [BuilderNext]_builderVars => BuilderInv'
  <2> SUFFICES ASSUME BuilderInv, [BuilderNext]_builderVars PROVE BuilderInv'
      OBVIOUS
  <2>1. ASSUME NEW c \in FreeCells, New(c) PROVE BuilderInv'
      BY <2>1, NewKeeps
  <2>2. ASSUME NEW c \in FreeCells, NEW b \in FreeBuffers, NEW t \in Texts, FromPchar(t, c, b)
        PROVE  BuilderInv'
      BY <2>2, FromPcharKeeps
  <2>3. ASSUME NEW c \in FreeCells, NEW b \in FreeBuffers, NEW t \in Texts, AppendText(t, c, b)
        PROVE  BuilderInv'
      BY <2>3, AppendKeeps
  <2>4. ASSUME NEW b \in FreeBuffers, CStr(b) PROVE BuilderInv'
      BY <2>4, CStrKeeps
  <2>5. CASE Delete
      BY <2>5, DeleteKeeps
  <2>6. CASE UNCHANGED builderVars
    <3>1. cells' = cells /\ chars' = chars /\ sb' = sb /\ given' = given /\ tidy' = tidy
        BY <2>6 DEF builderVars
    <3>2. PICK s : Kept(cells, sb, given, s)
        BY DEF BuilderInv
    <3>3. Kept(cells', sb', given', s)
        BY <3>1, <3>2
    <3>4. Memory(cells', chars') /\ Given(chars', given') /\ (tidy' => Tidy(cells', chars'))
        BY <3>1 DEF BuilderInv
    <3> QED BY <3>3, <3>4 DEF BuilderInv
  <2> QED BY <2>1, <2>2, <2>3, <2>4, <2>5, <2>6 DEF BuilderNext
<1> QED BY <1>1, InitBuilder, PTL DEF BuilderSpec

(***************************************************************************)
(* The properties of StringBuilder.                                        *)
(***************************************************************************)

\* Of the loops of append, c_str and delete over cache_head
\* (string_builder.c:21-38, 55-81): they meet the cells in use and no other, and the
\* buffers of these are in use.
THEOREM ChainHoldsCorrect == BuilderSpec => []ChainHoldsMemory
<1>1. BuilderInv => ChainHoldsMemory
  <2> SUFFICES ASSUME BuilderInv PROVE ChainHoldsMemory
      OBVIOUS
  <2>1. Reached = DOMAIN cells
      BY ChainMeans DEF BuilderInv, Kept
  <2>2. BuffersOf(Reached) = {cells[c].buffer : c \in DOMAIN cells} \ {Null}
      BY <2>1 DEF BuffersOf
  <2> QED BY <2>1, <2>2 DEF ChainHoldsMemory, BuilderInv, Memory, Tidy
<1> QED BY <1>1, BuilderInvariant, PTL

\* Of string_builder_c_str (string_builder.c:55-81): the buffer it returned
\* holds the text it returned until the builder is deleted.
THEOREM GivenTextCorrect == BuilderSpec => []GivenTextStays
<1>1. BuilderInv => GivenTextStays
    BY DEF BuilderInv, Given, GivenTextStays
<1> QED BY <1>1, BuilderInvariant, PTL

\* The place of a number among sums of lengths, as string_builder_ch finds it.
LEMMA PieceFound ==
    ASSUME NEW n \in Nat, NEW u, \A i \in 0..n : u[i] \in Nat, u[0] = 0,
           NEW index \in Nat, index < u[n]
    PROVE  LET m == Min({i \in 1..n : index < u[i]})
           IN  m \in 1..n /\ u[m - 1] <= index /\ index < u[m]
<1> DEFINE hit == {i \in 1..n : index < u[i]}
           m == Min(hit)
<1>1. n \in hit
  <2>1. n # 0
      OBVIOUS
  <2> QED BY <2>1
<1>2. hit \in SUBSET Nat /\ hit # {}
    BY <1>1
<1> HIDE DEF hit
<1>3. m \in hit /\ \A y \in hit : m <= y
  <2>1. \E x \in hit : \A y \in hit : x <= y
      BY <1>2, LeastNumber
  <2> QED BY <2>1 DEF Min
<1>4. m \in 1..n /\ index < u[m] /\ m - 1 \in 0..n
    BY <1>3 DEF hit
<1>5. u[m - 1] <= index
  <2>1. CASE m = 1
      BY <2>1
  <2>2. CASE m # 1
    <3>1. m - 1 \in 1..n /\ ~(m <= m - 1)
        BY <1>4, <2>2
    <3>2. m - 1 \notin hit
        BY <1>3, <3>1
    <3>3. ~(index < u[m - 1])
        BY <3>1, <3>2 DEF hit
    <3> QED BY <1>4, <3>3
  <2> QED BY <2>1, <2>2
<1> QED BY <1>4, <1>5 DEF hit

LEMMA ChFinds ==
    ASSUME BuilderInv, NEW index \in Nat
    PROVE  Ch(index) = IF index < Len(Contents) THEN Contents[index + 1] ELSE Zero
<1>1. PICK s : Kept(cells, sb, given, s)
    BY DEF BuilderInv
<1> DEFINE n == Len(s)
           T == Along(cells, chars, s)
           Solves(f) == f = [i \in 0..Len(Chain) |->
                               IF i = 0 THEN 0 ELSE f[i - 1] + Len(TextOf(Chain[i]))]
           upTo == CHOOSE f : Solves(f)
           hit == {i \in 1..Len(Chain) : index < upTo[i]}
<1>2. Chain = s /\ Contents = FlattenSeq(T) /\ n \in Nat
    BY <1>1, ChainMeans DEF Kept, Chained
<1>3. T \in Seq(Seq(Chars)) /\ Len(T) = n /\ \A i \in 1..n : T[i] = TextOf(Chain[i])
    BY <1>1, <1>2, AlongTexts DEF BuilderInv, Kept, TextOf, PieceOf
<1>4. PICK F \in [0..n -> Seq(Chars)] : Pieces(T, F)
    BY <1>3, PiecesExist
<1>5. Contents = F[n]
    BY <1>2, <1>3, <1>4, FlattenPieces
<1>6. Ch(index) = IF hit = {} THEN Zero
                  ELSE TextOf(Chain[Min(hit)])[index - upTo[Min(hit) - 1] + 1]
    BY DEF Ch
<1> HIDE DEF T
<1>7. \E f : Solves(f)
  <2> DEFINE D == [i \in 0..n |-> Len(F[i])]
  <2>1. \A i \in 0..n : D[i] = IF i = 0 THEN 0 ELSE D[i - 1] + Len(TextOf(Chain[i]))
    <3> TAKE i \in 0..n
    <3>1. CASE i = 0
        BY <1>4, <3>1 DEF Pieces
    <3>2. CASE i # 0
      <4>1. i \in 1..n /\ i - 1 \in 0..n
          BY <1>2, <3>2
      <4>2. F[i] = F[i - 1] \o T[i]
          BY <1>3, <1>4, <4>1 DEF Pieces
      <4>5. T[i] \in Seq(Chars)
        <5>1. i \in 1..Len(T)
            BY <1>3, <4>1
        <5> QED BY <1>3, <5>1
      <4>6. F[i - 1] \in Seq(Chars)
          BY <4>1
      <4>3. Len(F[i]) = Len(F[i - 1]) + Len(T[i])
          BY <4>2, <4>5, <4>6, ConcatReads
      <4>4. D[i] = Len(F[i]) /\ D[i - 1] = Len(F[i - 1])
          BY <4>1
      <4> QED BY <1>3, <3>2, <4>1, <4>3, <4>4
    <3> QED BY <3>1, <3>2
  <2>2. D = [i \in 0..n |-> D[i]]
      OBVIOUS
  <2> HIDE DEF D
  <2>3. Solves(D)
      BY <1>2, <2>1, <2>2
  <2> QED BY <2>3
<1>8. Solves(upTo)
    BY <1>7
<1> HIDE DEF upTo
<1>9. Lengths(T, upTo)
  <2>1. upTo[0] = 0
      BY <1>2, <1>8
  <2>2. ASSUME NEW i \in 1..n PROVE upTo[i] = upTo[i - 1] + Len(T[i])
    <3>1. i \in 0..n /\ i # 0
        BY <1>2
    <3> QED BY <1>2, <1>3, <1>8, <3>1
  <2> QED BY <1>3, <2>1, <2>2 DEF Lengths
<1>10. Reads(T, F, upTo, n)
    BY <1>2, <1>3, <1>4, <1>9, PiecesRead
<1>11. hit = {i \in 1..n : index < upTo[i]}
    BY <1>2
<1> HIDE DEF n, hit
<1>12. Len(Contents) = upTo[n] /\ upTo[n] \in Nat
    BY <1>5, <1>10 DEF Reads
<1>13. CASE index < upTo[n]
  <2> DEFINE m == Min(hit)
  <2>1. \A i \in 0..n : upTo[i] \in Nat
    <3>1. \A i \in 1..n : upTo[i] \in Nat
        BY <1>10 DEF Reads
    <3>2. upTo[0] = 0
        BY <1>9 DEF Lengths
    <3>3. \A i \in 0..n : i = 0 \/ i \in 1..n
        BY <1>2
    <3> QED BY <3>1, <3>2, <3>3
  <2>2. m \in 1..n /\ upTo[m - 1] <= index /\ index < upTo[m]
      BY <1>2, <1>9, <1>11, <1>13, <2>1, PieceFound DEF Lengths
  <2>3. hit # {}
    <3>1. m \in hit
        BY <1>11, <2>2
    <3> QED BY <3>1
  <2> HIDE DEF m
  <2> DEFINE a == upTo[m - 1]
             k == index - a + 1
  <2>4. a \in Nat /\ upTo[m] = a + Len(T[m]) /\ Len(T[m]) \in Nat
        /\ \A j \in 1..Len(T[m]) : F[n][a + j] = T[m][j]
    <3>1. /\ a \in Nat /\ \A j \in 1..Len(T[m]) : F[n][a + j] = T[m][j]
        BY <1>10, <2>2 DEF Reads
    <3>2. upTo[m] = a + Len(T[m])
        BY <1>3, <1>9, <2>2 DEF Lengths
    <3>3. Len(T[m]) \in Nat
      <4>1. m \in 1..Len(T)
          BY <1>3, <2>2
      <4>2. T[m] \in Seq(Chars)
          BY <1>3, <4>1
      <4> QED BY <4>2
    <3> QED BY <3>1, <3>2, <3>3
  <2>5. a <= index /\ index < a + Len(T[m])
      BY <2>2, <2>4
  <2> HIDE DEF a
  <2>6. k \in 1..Len(T[m]) /\ a + k = index + 1
      BY <2>4, <2>5
  <2>7. F[n][index + 1] = T[m][k]
      BY <2>4, <2>6
  <2>8. Ch(index) = T[m][k]
      BY <1>3, <1>6, <2>2, <2>3 DEF m, a
  <2> QED BY <1>5, <1>12, <1>13, <2>7, <2>8
<1>14. CASE ~(index < upTo[n])
  <2>1. hit = {}
    <3> SUFFICES ASSUME NEW i \in 1..n, index < upTo[i] PROVE FALSE
        BY <1>11
    <3>1. upTo[i] \in Nat /\ upTo[i] <= upTo[n]
        BY <1>10 DEF Reads
    <3> QED BY <1>12, <1>14, <3>1
  <2> QED BY <1>6, <1>12, <1>14, <2>1
<1> QED BY <1>13, <1>14

\* Of string_builder_ch (string_builder.c:40-53): it reads the text of the
\* builder, across the cells, and '\0' behind its end.
THEOREM ChCorrect == BuilderSpec => []ChReadsContents
<1>1. BuilderInv => ChReadsContents
  <2> SUFFICES ASSUME BuilderInv, NEW index \in 0..MaxLength
               PROVE  Ch(index) = IF index < Len(Contents) THEN Contents[index + 1] ELSE Zero
      BY DEF ChReadsContents
  <2>1. index \in Nat
      BY BuilderAssumption
  <2> QED BY <2>1, ChFinds
<1> QED BY <1>1, BuilderInvariant, PTL

\* A builder is the text of BuiltText, of which append makes a longer one and
\* c_str the same one (string_builder.c:28-38, 55-81).
THEOREM ImplementsTextCorrect == BuilderSpec => ImplementsText
<1> DEFINE built == IF sb = Null THEN NoText ELSE Contents
<1>1. BuilderInit => Text!TextInit
    BY DEF BuilderInit, Text!TextInit
<1>2. BuilderInv /\ [BuilderNext]_builderVars => [Text!TextNext]_built
  <2> SUFFICES ASSUME BuilderInv, BuilderNext PROVE Text!TextNext \/ built' = built
    <3>1. CASE UNCHANGED builderVars
        BY <3>1 DEF builderVars, Contents, Chain, TextOf
    <3> QED BY <3>1
  <2>1. ASSUME NEW c \in FreeCells, New(c) PROVE Text!TextNext
    <3>1. built = NoText /\ built' = <<>>
        BY <2>1, NewKeeps
    <3> QED BY <3>1 DEF Text!TextNext, Text!Start
  <2>2. ASSUME NEW c \in FreeCells, NEW b \in FreeBuffers, NEW t \in Texts, FromPchar(t, c, b)
        PROVE  Text!TextNext
    <3>1. built = NoText /\ built' = t
        BY <2>2, FromPcharKeeps
    <3> QED BY <3>1 DEF Text!TextNext, Text!Start
  <2>3. ASSUME NEW c \in FreeCells, NEW b \in FreeBuffers, NEW t \in Texts, AppendText(t, c, b)
        PROVE  Text!TextNext
    <3>1. built = Contents /\ built' = Contents \o t /\ Contents \in Seq(Nat)
        BY <2>3, AppendKeeps, NullFacts
    <3>2. built # NoText
        BY <3>1, BuilderAssumption
    <3> QED BY <3>1, <3>2 DEF Text!TextNext, Text!Add
  <2>4. ASSUME NEW b \in FreeBuffers, CStr(b) PROVE built' = built
      BY <2>4, CStrKeeps
  <2>5. CASE Delete
    <3>1. built' = NoText
        BY <2>5, DeleteKeeps
    <3> QED BY <3>1 DEF Text!TextNext, Text!Drop
  <2> QED BY <2>1, <2>2, <2>3, <2>4, <2>5 DEF BuilderNext
<1> QED BY <1>1, <1>2, BuilderInvariant, PTL DEF BuilderSpec, ImplementsText, Text!TextSpec
=============================================================================
