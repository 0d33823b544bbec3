---------------------------- MODULE ConvertProofs ----------------------------
(***************************************************************************)
(* Theorems about ConvertCallers.  It is said where in its bytes a message *)
(* has each of its parts (Lies).  A copy of a part then takes a memory     *)
(* that holds the bytes before it to one that holds the part too: in the   *)
(* buffer (WriteMore) or in the fields (ReadMore).                         *)
(***************************************************************************)
EXTENDS ConvertCallers, SequenceTheorems, TLAPS

Index == 0..(Room - 1)

\* n places of a field, from index i.
Span(name, i, n) == {name} \X (i..(i + n - 1))

\* From offset off, e has n chars of a field, from index i.
Lies(e, name, i, off, n) == \A k \in 1..n : e[off + k] = given[<<name, i + k - 1>>]

\* e is a sequence of l bytes; u is s with t behind it.
HasLen(e, l) == e \in Seq(Int) /\ l \in Nat /\ Len(e) = l
Cat(u, s, t) == u = s \o t

\* The a bytes of s, and the b bytes of t behind them.
Follows(u, s, t, a, b) ==
    /\ \A k \in 1..a : u[k] = s[k]
    /\ \A k \in 1..b : u[a + k] = t[k]

\* The buffer of m holds the first l bytes of e, and nothing behind them.
Holds(m, e, l) ==
    /\ m = [p \in Places |-> m[p]]
    /\ \A k \in 0..(2 * Room - 1) : m[<<"data", k>>] = IF k < l THEN e[k + 1] ELSE Unset

\* Encoding has written l bytes of e: the fields are those of the message.
Wrote(m, e, l) ==
    /\ Holds(m, e, l)
    /\ \A name \in Names, j \in Index : m[<<name, j>>] = given[<<name, j>>]

\* Decoding l bytes of e has filled the places S with those of the message.
Back(m, e, l, S) ==
    /\ Holds(m, e, l)
    /\ \A name \in Names, j \in Index :
         m[<<name, j>>] = IF <<name, j>> \in S THEN given[<<name, j>>] ELSE Unset

\* The places of the message outside S hold nothing, the port of a name apart.
OnlyAt(S) ==
    \A name \in Names, j \in Index :
        <<name, j>> \notin S /\ ~(name = "port" /\ IsName) => given[<<name, j>>] = Unset

LEMMA SizeFacts ==
    /\ Room \in Nat /\ Room >= 16
    /\ CharMod \in Nat /\ CharMod >= 8 /\ SizeMod \in Nat /\ SizeMod >= 4 * CharMod
    /\ \A n \in Lengths : n \in Nat /\ 2 * n < CharMod /\ n + 3 <= Room /\ AsSize(n) = n
    /\ "data" \notin Names
BY CallersAssumption, ConvertAssumption DEF AsSize, Names

LEMMA PlaceFacts ==
    /\ \A name \in Names, j \in Index : <<name, j>> \in Places
    /\ \A k \in 0..(2 * Room - 1) : <<"data", k>> \in Places
    /\ \A p \in Places : \/ \E name \in Names, j \in Index : p = <<name, j>>
                         \/ \E k \in 0..(2 * Room - 1) : p = <<"data", k>>
BY DEF Places, Index

-----------------------------------------------------------------------------
(***************************************************************************)
(* One copy.                                                               *)
(***************************************************************************)
\* A part is written behind the bytes before it.
LEMMA WriteMore ==
    ASSUME NEW m, NEW e, NEW off \in Nat, Wrote(m, e, off),
           NEW name \in Names, NEW i \in Nat, NEW n \in Nat, i + n <= Room,
           Lies(e, name, i, off, n), NEW l, l = off + n, l <= 2 * Room
    PROVE  Wrote(ConvertNChar(m, TRUE, name, i, off, n), e, l)
<1> DEFINE r == ConvertNChar(m, TRUE, name, i, off, n)
<1>1. DOMAIN m = Places
    BY DEF Wrote, Holds
<1>2. /\ \A nm \in Names, j \in Index : r[<<nm, j>>] = m[<<nm, j>>]
      /\ \A k \in 0..(2 * Room - 1) :
           r[<<"data", k>>] = IF k \in off..(off + n - 1) THEN m[<<name, i + (k - off)>>]
                              ELSE m[<<"data", k>>]
    BY <1>1, PlaceFacts, SizeFacts DEF ConvertNChar
<1>3. r = [p \in Places |-> r[p]]
    BY <1>1 DEF ConvertNChar
<1> HIDE DEF r
<1>4. ASSUME NEW k \in 0..(2 * Room - 1)
      PROVE  r[<<"data", k>>] = IF k < l THEN e[k + 1] ELSE Unset
  <2>1. CASE k \in off..(off + n - 1)
    <3>1. PICK q \in 1..n : k = off + q - 1
      <4>1. k - off + 1 \in 1..n /\ k = off + (k - off + 1) - 1
          BY <2>1
      <4> QED BY <4>1
    <3>2. i + (k - off) \in Index /\ i + (k - off) = i + q - 1 /\ off + q = k + 1 /\ k < l
        BY <2>1, <3>1, SizeFacts DEF Index
    <3>3. r[<<"data", k>>] = given[<<name, i + q - 1>>]
        BY <2>1, <3>2, <1>2 DEF Wrote
    <3>4. e[k + 1] = given[<<name, i + q - 1>>]
        BY <3>1, <3>2 DEF Lies
    <3> QED BY <3>2, <3>3, <3>4
  <2>2. CASE k \notin off..(off + n - 1)
    <3>1. r[<<"data", k>>] = IF k < off THEN e[k + 1] ELSE Unset
        BY <2>2, <1>2 DEF Wrote, Holds
    <3>2. k < off <=> k < l
        BY <2>2
    <3> QED BY <3>1, <3>2
  <2> QED BY <2>1, <2>2
<1>5. Holds(r, e, l)
    BY <1>3, <1>4 DEF Holds
<1>6. Wrote(r, e, l)
    BY <1>2, <1>5 DEF Wrote
<1> QED BY <1>6 DEF r

\* A part is read from where it lies.
LEMMA ReadMore ==
    ASSUME NEW m, NEW e, NEW l \in Nat, l <= 2 * Room, NEW S, Back(m, e, l, S),
           NEW name \in Names, NEW i \in Nat, NEW n \in Nat, i + n <= Room,
           NEW off \in Nat, Lies(e, name, i, off, n), off + n <= l
    PROVE  Back(ConvertNChar(m, FALSE, name, i, off, n), e, l, S \union Span(name, i, n))
<1> DEFINE r == ConvertNChar(m, FALSE, name, i, off, n)
<1>1. DOMAIN m = Places
    BY DEF Back, Holds
<1>2. /\ \A k \in 0..(2 * Room - 1) : r[<<"data", k>>] = m[<<"data", k>>]
      /\ \A nm \in Names, j \in Index :
           r[<<nm, j>>] = IF nm = name /\ j \in i..(i + n - 1) THEN m[<<"data", off + (j - i)>>]
                          ELSE m[<<nm, j>>]
    BY <1>1, PlaceFacts, SizeFacts DEF ConvertNChar
<1>3. r = [p \in Places |-> r[p]]
    BY <1>1 DEF ConvertNChar
<1> HIDE DEF r
<1>4. Holds(r, e, l)
    BY <1>2, <1>3 DEF Back, Holds
<1>5. ASSUME NEW nm \in Names, NEW j \in Index
      PROVE  r[<<nm, j>>] = IF <<nm, j>> \in S \union Span(name, i, n)
                            THEN given[<<nm, j>>] ELSE Unset
  <2>1. <<nm, j>> \in Span(name, i, n) <=> nm = name /\ j \in i..(i + n - 1)
      BY DEF Span
  <2>2. CASE nm = name /\ j \in i..(i + n - 1)
    <3>1. /\ j - i + 1 \in 1..n /\ off + (j - i) \in 0..(2 * Room - 1) /\ off + (j - i) < l
          /\ off + (j - i) + 1 = off + (j - i + 1) /\ i + (j - i + 1) - 1 = j
        BY <2>2, SizeFacts DEF Index
    <3>2. r[<<"data", off + (j - i)>>] = e[off + (j - i) + 1]
        BY <3>1, <1>4 DEF Holds
    <3>3. r[<<nm, j>>] = e[off + (j - i + 1)]
        BY <2>2, <3>1, <3>2, <1>2
    <3>4. e[off + (j - i + 1)] = given[<<name, i + (j - i + 1) - 1>>]
        BY <3>1 DEF Lies
    <3> QED BY <2>1, <2>2, <3>1, <3>3, <3>4
  <2>3. CASE ~(nm = name /\ j \in i..(i + n - 1))
      BY <2>1, <2>3, <1>2 DEF Back
  <2> QED BY <2>2, <2>3
<1>6. Back(r, e, l, S \union Span(name, i, n))
    BY <1>4, <1>5 DEF Back
<1> QED BY <1>6 DEF r

-----------------------------------------------------------------------------
(***************************************************************************)
(* Where the parts of a message lie.                                       *)
(***************************************************************************)
LEMMA Joined ==
    ASSUME NEW u, NEW s, NEW t, NEW a, NEW b, HasLen(s, a), HasLen(t, b), Cat(u, s, t)
    PROVE  HasLen(u, a + b) /\ Follows(u, s, t, a, b)
<1>1. s \in Seq(Int) /\ t \in Seq(Int) /\ Len(s) = a /\ Len(t) = b /\ a \in Nat /\ b \in Nat
    BY DEF HasLen
<1>2. ASSUME NEW x \in Seq(Int), NEW y \in Seq(Int)
      PROVE  /\ x \o y \in Seq(Int)
             /\ Len(x \o y) = Len(x) + Len(y)
             /\ \A k \in 1..Len(x) : (x \o y)[k] = x[k]
             /\ \A k \in 1..Len(y) : (x \o y)[Len(x) + k] = y[k]
    OBVIOUS
<1>3. /\ s \o t \in Seq(Int)
      /\ Len(s \o t) = a + b
      /\ \A k \in 1..a : (s \o t)[k] = s[k]
      /\ \A k \in 1..b : (s \o t)[a + k] = t[k]
    BY <1>1, <1>2, Zenon
<1>4. a + b \in Nat
    BY <1>1
<1> QED BY <1>3, <1>4, Zenon DEF Cat, HasLen, Follows

LEMMA LenCat ==
    ASSUME NEW u, NEW s, NEW t, NEW a, NEW b, HasLen(s, a), HasLen(t, b), Cat(u, s, t),
           NEW l, l = a + b
    PROVE  HasLen(u, l)
BY Joined

LEMMA LiesPart ==
    ASSUME given \in [Places -> Int], NEW name \in Names, NEW i \in Nat, NEW n \in Nat,
           i + n <= Room
    PROVE  Lies(Part(name, i, n), name, i, 0, n) /\ HasLen(Part(name, i, n), n)
<1>1. \A k \in 1..n : <<name, i + k - 1>> \in Places
    BY SizeFacts, PlaceFacts DEF Index
<1>2. \A k \in 1..n : given[<<name, i + k - 1>>] \in Int
    BY <1>1
<1>3. /\ Part(name, i, n) \in Seq(Int) /\ Len(Part(name, i, n)) = n
      /\ \A k \in 1..n : Part(name, i, n)[k] = given[<<name, i + k - 1>>]
    BY <1>2 DEF Part
<1> QED BY <1>3 DEF Lies, HasLen

\* What lies in one of two sequences lies in their concatenation.
LEMMA LiesLeft ==
    ASSUME NEW u, NEW s, NEW t, NEW a, NEW b, HasLen(s, a), HasLen(t, b), Cat(u, s, t),
           NEW name, NEW i, NEW off \in Nat, NEW n \in Nat, off + n <= a,
           Lies(s, name, i, off, n)
    PROVE  Lies(u, name, i, off, n)
<1>0. Follows(u, s, t, a, b)
    BY Joined
<1>1. \A k \in 1..a : u[k] = s[k]
    BY <1>0 DEF Follows
<1>2. \A k \in 1..n : off + k \in 1..a
    BY DEF HasLen
<1> QED BY <1>1, <1>2 DEF Lies

LEMMA LiesRight ==
    ASSUME NEW u, NEW s, NEW t, NEW a, NEW b, HasLen(s, a), HasLen(t, b), Cat(u, s, t),
           NEW name, NEW i, NEW off \in Nat, NEW n \in Nat, off + n <= b,
           Lies(t, name, i, off, n), NEW d, d = a + off
    PROVE  Lies(u, name, i, d, n)
<1>0. Follows(u, s, t, a, b)
    BY Joined
<1>1. \A k \in 1..b : u[a + k] = t[k]
    BY <1>0 DEF Follows
<1>2. a \in Nat /\ b \in Nat
    BY DEF HasLen
<1>3. ASSUME NEW k \in 1..n
      PROVE  u[d + k] = given[<<name, i + k - 1>>]
  <2>1. d + k = a + (off + k) /\ off + k \in 1..b
      BY <1>2
  <2>2. u[a + (off + k)] = t[off + k]
      BY <1>1, <2>1
  <2> QED BY <2>1, <2>2 DEF Lies
<1> QED BY <1>3 DEF Lies

\* A part of a part.
LEMMA LiesWithin ==
    ASSUME NEW e, NEW name, NEW i \in Nat, NEW off \in Nat, NEW n \in Nat,
           Lies(e, name, i, off, n), NEW j \in Nat, NEW l \in Nat, j + l <= n,
           NEW ij, ij = i + j, NEW d, d = off + j
    PROVE  Lies(e, name, ij, d, l)
<1>1. ASSUME NEW k \in 1..l
      PROVE  e[d + k] = given[<<name, ij + k - 1>>]
  <2>1. j + k \in 1..n /\ d + k = off + (j + k) /\ ij + k - 1 = i + (j + k) - 1
      OBVIOUS
  <2>2. e[off + (j + k)] = given[<<name, i + (j + k) - 1>>]
      BY <2>1 DEF Lies
  <2> QED BY <2>1, <2>2
<1> QED BY <1>1 DEF Lies

-----------------------------------------------------------------------------
(***************************************************************************)
(* Addresses.                                                              *)
(***************************************************************************)
Types == {S5_ATYPE_IP4, S5_ATYPE_DOMAINNAME, S5_ATYPE_IP6}

Atyp == given[<<"atyp", 0>>]
NameLen == given[<<"addr", 0>>]

\* A message with an address.
Addressed ==
    /\ given \in [Places -> Int]
    /\ Atyp \in Types \union {2}
    /\ IsName => NameLen \in Lengths

LEMMA TypeFacts ==
    /\ S5_ATYPE_IP4 = 1 /\ S5_ATYPE_DOMAINNAME = 3 /\ S5_ATYPE_IP6 = 4
    /\ \A x : x \in Types <=> x = 1 \/ x = 3 \/ x = 4
    /\ IsName <=> Atyp = 3
    /\ "atyp" \in Names /\ "addr" \in Names /\ "port" \in Names
    /\ 0 \in Index
BY SizeFacts DEF S5_ATYPE_IP4, S5_ATYPE_DOMAINNAME, S5_ATYPE_IP6, Types, IsName, Atyp, Names, Index

\* The size of an address of a known type.
AddressLen == IF Atyp = 1 THEN 7 ELSE IF Atyp = 4 THEN 19 ELSE 4 + NameLen

\* From offset off, e has an address.
AddressLies(e, off) ==
    /\ Lies(e, "atyp", 0, off, 1)
    /\ Atyp = 1 => Lies(e, "addr", 0, off + 1, 4) /\ Lies(e, "port", 0, off + 5, 2)
    /\ Atyp = 4 => Lies(e, "addr", 0, off + 1, 16) /\ Lies(e, "port", 0, off + 17, 2)
    /\ Atyp = 3 => /\ Lies(e, "addr", 0, off + 1, 1) /\ Lies(e, "addr", 1, off + 2, NameLen)
                   /\ Lies(e, "addr", 1, off + 2 + NameLen, 2)

\* The type and two parts behind it.
HasThree(u, x, i, m, y, j, n) ==
    /\ HasLen(u, 1 + m + n)
    /\ Lies(u, "atyp", 0, 0, 1) /\ Lies(u, x, i, 1, m) /\ Lies(u, y, j, 1 + m, n)

LEMMA ThreeParts ==
    ASSUME given \in [Places -> Int],
           NEW x \in Names, NEW i \in Nat, NEW m \in Nat, i + m <= Room,
           NEW y \in Names, NEW j \in Nat, NEW n \in Nat, j + n <= Room
    PROVE  HasThree(Part("atyp", 0, 1) \o (Part(x, i, m) \o Part(y, j, n)), x, i, m, y, j, n)
<1> DEFINE p == Part("atyp", 0, 1)
           q == Part(x, i, m)
           r == Part(y, j, n)
           w == q \o r
           u == p \o w
<1>1. Lies(p, "atyp", 0, 0, 1) /\ HasLen(p, 1)
    BY LiesPart, TypeFacts, SizeFacts
<1>2. Lies(q, x, i, 0, m) /\ HasLen(q, m)
    BY LiesPart
<1>3. Lies(r, y, j, 0, n) /\ HasLen(r, n)
    BY LiesPart
<1>4. Cat(w, q, r) /\ Cat(u, p, w)
    BY Zenon DEF Cat
<1> HIDE DEF p, q, r, w, u
<1>5. HasLen(w, m + n) /\ Lies(w, x, i, 0, m) /\ Lies(w, y, j, m, n)
  <2>1. HasLen(w, m + n)
      BY <1>2, <1>3, <1>4, LenCat
  <2>2. Lies(w, x, i, 0, m)
      BY <1>2, <1>3, <1>4, LiesLeft
  <2>3. Lies(w, y, j, m, n)
      BY <1>2, <1>3, <1>4, LiesRight
  <2> QED BY <2>1, <2>2, <2>3
<1>6. HasLen(u, 1 + m + n)
  <2>1. HasLen(u, 1 + (m + n))
      BY <1>1, <1>4, <1>5, LenCat
  <2>2. 1 + (m + n) = 1 + m + n
      OBVIOUS
  <2> QED BY <2>1, <2>2, Zenon
<1>7. Lies(u, "atyp", 0, 0, 1)
    BY <1>1, <1>4, <1>5, LiesLeft
<1>8. Lies(u, x, i, 1, m)
    BY <1>1, <1>4, <1>5, LiesRight
<1>9. Lies(u, y, j, 1 + m, n)
    BY <1>1, <1>4, <1>5, LiesRight
<1>10. HasThree(u, x, i, m, y, j, n)
    BY <1>6, <1>7, <1>8, <1>9 DEF HasThree
<1> QED BY <1>10 DEF p, q, r, w, u

LEMMA AddressBytesFacts ==
    ASSUME Addressed, Atyp \in Types
    PROVE  HasLen(AddressBytes, AddressLen) /\ AddressLies(AddressBytes, 0)
<1> DEFINE n == NameLen
           x == Part("addr", 0, 4) \o Part("port", 0, 2)
           y == Part("addr", 0, 16) \o Part("port", 0, 2)
           z == Part("addr", 0, 1 + n) \o Part("addr", 1, 2)
           w == CASE Atyp = S5_ATYPE_IP4 -> x [] Atyp = S5_ATYPE_IP6 -> y [] IsName -> z
<1>1. AddressBytes = Part("atyp", 0, 1) \o w
    BY Zenon DEF AddressBytes, Atyp, NameLen
<1> HIDE DEF x, y, z
<1>2. (Atyp = 1 => w = x) /\ (Atyp = 4 => w = y) /\ (Atyp = 3 => w = z)
    BY TypeFacts
<1> HIDE DEF w
<1>3. /\ given \in [Places -> Int]
      /\ 0 + 4 <= Room /\ 0 + 2 <= Room /\ 0 + 16 <= Room /\ 1 + 2 <= Room
      /\ 0 \in Nat /\ 1 \in Nat /\ 2 \in Nat /\ 4 \in Nat /\ 16 \in Nat
    BY SizeFacts DEF Addressed
<1>4. CASE Atyp = 1
  <2>1. AddressBytes = Part("atyp", 0, 1) \o (Part("addr", 0, 4) \o Part("port", 0, 2))
      BY <1>1, <1>2, <1>4, Zenon DEF x
  <2>2. HasThree(AddressBytes, "addr", 0, 4, "port", 0, 2)
    <3>1. HasThree(Part("atyp", 0, 1) \o (Part("addr", 0, 4) \o Part("port", 0, 2)),
                   "addr", 0, 4, "port", 0, 2)
        BY <1>3, ThreeParts, TypeFacts, Zenon
    <3> QED BY <2>1, <3>1, Zenon
  <2> QED BY <1>4, <2>2 DEF AddressLies, AddressLen, HasThree
<1>5. CASE Atyp = 4
  <2>1. AddressBytes = Part("atyp", 0, 1) \o (Part("addr", 0, 16) \o Part("port", 0, 2))
      BY <1>1, <1>2, <1>5, Zenon DEF y
  <2>2. HasThree(AddressBytes, "addr", 0, 16, "port", 0, 2)
    <3>1. HasThree(Part("atyp", 0, 1) \o (Part("addr", 0, 16) \o Part("port", 0, 2)),
                   "addr", 0, 16, "port", 0, 2)
        BY <1>3, ThreeParts, TypeFacts, Zenon
    <3> QED BY <2>1, <3>1, Zenon
  <2> QED BY <1>5, <2>2 DEF AddressLies, AddressLen, HasThree
<1>6. CASE Atyp = 3
  <2>1. n \in Nat /\ 1 + n \in Nat /\ 0 + (1 + n) <= Room
      BY <1>6, SizeFacts, TypeFacts DEF Addressed
  <2>2. AddressBytes = Part("atyp", 0, 1) \o (Part("addr", 0, 1 + n) \o Part("addr", 1, 2))
      BY <1>1, <1>2, <1>6, Zenon DEF z
  <2>3. /\ HasLen(AddressBytes, 1 + (1 + n) + 2)
        /\ Lies(AddressBytes, "atyp", 0, 0, 1) /\ Lies(AddressBytes, "addr", 0, 1, 1 + n)
        /\ Lies(AddressBytes, "addr", 1, 1 + (1 + n), 2)
    <3>1. HasThree(Part("atyp", 0, 1) \o (Part("addr", 0, 1 + n) \o Part("addr", 1, 2)),
                   "addr", 0, 1 + n, "addr", 1, 2)
        BY <1>3, <2>1, ThreeParts, TypeFacts, Zenon
    <3> QED BY <2>2, <3>1, Zenon DEF HasThree
  <2>4. Lies(AddressBytes, "addr", 0, 1, 1) /\ Lies(AddressBytes, "addr", 1, 2, n)
    <3>1. 0 + 1 <= 1 + n /\ 1 + n <= 1 + n /\ 0 = 0 + 0 /\ 1 = 1 + 0 /\ 1 = 0 + 1 /\ 2 = 1 + 1
        BY <2>1
    <3>2. Lies(AddressBytes, "addr", 0, 1, 1)
        BY <1>3, <2>1, <2>3, <3>1, LiesWithin, Zenon
    <3>3. Lies(AddressBytes, "addr", 1, 2, n)
        BY <1>3, <2>1, <2>3, <3>1, LiesWithin, Zenon
    <3> QED BY <3>2, <3>3
  <2> QED BY <1>6, <2>1, <2>3, <2>4 DEF AddressLies, AddressLen
<1> QED BY <1>4, <1>5, <1>6, TypeFacts

\* An address behind a header.
LEMMA AddressBehind ==
    ASSUME Addressed, Atyp \in Types, NEW h, NEW off, HasLen(h, off), NEW u, Cat(u, h, AddressBytes)
    PROVE  HasLen(u, off + AddressLen) /\ AddressLies(u, off)
<1> DEFINE a == AddressBytes
           b == AddressLen
           n == NameLen
<1>1. HasLen(a, b) /\ AddressLies(a, 0) /\ Cat(u, h, a) /\ off \in Nat
    BY AddressBytesFacts DEF HasLen
<1>2. Atyp = 3 => n \in Nat
    BY SizeFacts, TypeFacts DEF Addressed
<1>3. (Atyp = 1 => b = 7) /\ (Atyp = 4 => b = 19) /\ (Atyp = 3 => b = 4 + n)
    BY DEF AddressLen
<1> HIDE DEF a, b, n
<1>4. HasLen(u, off + b)
    BY <1>1, LenCat
<1>5. ASSUME NEW nm, NEW i, NEW d \in Nat, NEW l \in Nat, d + l <= b, Lies(a, nm, i, d, l)
      PROVE  Lies(u, nm, i, off + d, l)
    BY <1>1, <1>5, LiesRight
<1>6. Lies(u, "atyp", 0, off, 1)
  <2>1. Lies(a, "atyp", 0, 0, 1) /\ 0 + 1 <= b /\ off + 0 = off
      BY <1>1, <1>2, <1>3, TypeFacts DEF AddressLies
  <2> QED BY <1>5, <2>1
<1>7. Atyp = 1 => Lies(u, "addr", 0, off + 1, 4) /\ Lies(u, "port", 0, off + 5, 2)
    BY <1>1, <1>3, <1>5 DEF AddressLies
<1>8. Atyp = 4 => Lies(u, "addr", 0, off + 1, 16) /\ Lies(u, "port", 0, off + 17, 2)
    BY <1>1, <1>3, <1>5 DEF AddressLies
<1>9. Atyp = 3 => /\ Lies(u, "addr", 0, off + 1, 1) /\ Lies(u, "addr", 1, off + 2, n)
                  /\ Lies(u, "addr", 1, off + 2 + n, 2)
    BY <1>1, <1>2, <1>3, <1>5 DEF AddressLies, n
<1> QED BY <1>4, <1>6, <1>7, <1>8, <1>9 DEF AddressLies, a, b, n

-----------------------------------------------------------------------------
(***************************************************************************)
(* convert_s5_atyp_addr_port, in both directions.                          *)
(***************************************************************************)
\* The memory behind each of its copies.
Typed(m, reverse, off) == ConvertNChar(m, reverse, "atyp", 0, off, 1)
Fixed1(m, reverse, off, n) == ConvertNChar(m, reverse, "addr", 0, off + 1, n)
Fixed2(m, reverse, off, n) == ConvertNChar(m, reverse, "port", 0, off + 1 + n, 2)
Name1(m, reverse, off) == ConvertNChar(m, reverse, "addr", 0, off + 1, 1)
Name2(m, reverse, off, n) == ConvertNChar(m, reverse, "addr", 1, off + 2, n)
Name3(m, reverse, off, n) == ConvertNChar(m, reverse, "addr", 1, off + 2 + n, 2)

\* What it returns for each address type.
LEMMA AtypFixed4 ==
    ASSUME NEW m, NEW reverse, NEW off, Typed(m, reverse, off)[<<"atyp", 0>>] = 1
    PROVE  AtypAddrPort(m, reverse, off)
             = Result(Fixed2(Fixed1(Typed(m, reverse, off), reverse, off, 4), reverse, off, 4), 0, 7)
BY DEF AtypAddrPort, ConvertChar, HeaderSize, S5_ATYPE_IP4, S5_ATYPE_DOMAINNAME, S5_ATYPE_IP6,
       Typed, Fixed1, Fixed2

LEMMA AtypFixed16 ==
    ASSUME NEW m, NEW reverse, NEW off, Typed(m, reverse, off)[<<"atyp", 0>>] = 4
    PROVE  AtypAddrPort(m, reverse, off)
             = Result(Fixed2(Fixed1(Typed(m, reverse, off), reverse, off, 16), reverse, off, 16), 0, 19)
BY DEF AtypAddrPort, ConvertChar, HeaderSize, S5_ATYPE_IP4, S5_ATYPE_DOMAINNAME, S5_ATYPE_IP6,
       Typed, Fixed1, Fixed2

LEMMA AtypOther ==
    ASSUME NEW m, NEW reverse, NEW off, Typed(m, reverse, off)[<<"atyp", 0>>] \notin Types
    PROVE  AtypAddrPort(m, reverse, off) = Result(Typed(m, reverse, off), -1, 0)
BY DEF AtypAddrPort, ConvertChar, HeaderSize, Types, Typed

\* A name's memory, n being the count read from it.
Named(m, reverse, off, n) ==
    Name3(Name2(Name1(Typed(m, reverse, off), reverse, off), reverse, off, n), reverse, off, n)

LEMMA AtypName ==
    ASSUME NEW m, NEW reverse, NEW off, Typed(m, reverse, off)[<<"atyp", 0>>] = 3,
           NEW n, Count(Name1(Typed(m, reverse, off), reverse, off), "addr") = n
    PROVE  AtypAddrPort(m, reverse, off)
             = Result(Named(m, reverse, off, n), 0,
                      (4 + AsSize(Named(m, reverse, off, n)[<<"addr", 0>>])) % SizeMod)
BY DEF AtypAddrPort, ConvertChar, HeaderSize, S5_ATYPE_IP4, S5_ATYPE_DOMAINNAME, S5_ATYPE_IP6,
       Typed, Name1, Name2, Name3, Named

\* The size of a name's header does not wrap.
LEMMA NameSize ==
    \A n \in Lengths : /\ (4 + AsSize(n)) % SizeMod = 4 + n
                       /\ 1 + n <= Room /\ n \in Nat /\ 7 + n < SizeMod
<1> SUFFICES ASSUME NEW n \in Lengths
             PROVE  /\ (4 + AsSize(n)) % SizeMod = 4 + n
                    /\ 1 + n <= Room /\ n \in Nat /\ 7 + n < SizeMod
    OBVIOUS
<1>1. n \in Nat /\ AsSize(n) = n /\ 7 + n < SizeMod /\ 1 + n <= Room /\ SizeMod \in Nat
    BY SizeFacts
<1>2. (4 + n) % SizeMod = 4 + n
    BY <1>1
<1> QED BY <1>1, <1>2

\* The address is written, or nothing behind the type.
EncodedAddress(r, e, off) ==
    /\ Atyp \in Types => r.ret = 0 /\ r.header_size = AddressLen /\ Wrote(r.mem, e, off + AddressLen)
    /\ Atyp \notin Types => r.ret = -1 /\ Wrote(r.mem, e, off + 1)

LEMMA EncodedKnown ==
    ASSUME Atyp \in Types, NEW m, NEW e, NEW off, Wrote(m, e, off + AddressLen)
    PROVE  EncodedAddress(Result(m, 0, AddressLen), e, off)
<1> DEFINE r == Result(m, 0, AddressLen)
<1>1. r.mem = m /\ r.ret = 0 /\ r.header_size = AddressLen
    BY DEF Result
<1> HIDE DEF r
<1>2. EncodedAddress(r, e, off)
    BY <1>1 DEF EncodedAddress
<1> QED BY <1>2 DEF r

LEMMA EncodedOther ==
    ASSUME Atyp \notin Types, NEW m, NEW e, NEW off, Wrote(m, e, off + 1)
    PROVE  EncodedAddress(Result(m, -1, 0), e, off)
<1> DEFINE r == Result(m, -1, 0)
<1>1. r.mem = m /\ r.ret = -1
    BY DEF Result
<1> HIDE DEF r
<1>2. EncodedAddress(r, e, off)
    BY <1>1 DEF EncodedAddress
<1> QED BY <1>2 DEF r

LEMMA EncodeAddress ==
    ASSUME Addressed, NEW m, NEW e, NEW off \in Nat, off <= 3, Wrote(m, e, off),
           Lies(e, "atyp", 0, off, 1), Atyp \in Types => AddressLies(e, off)
    PROVE  EncodedAddress(AtypAddrPort(m, TRUE, off), e, off)
<1> DEFINE n == NameLen
           m1 == Typed(m, TRUE, off)
<1>1. /\ 0 + 1 <= Room /\ 0 + 4 <= Room /\ 0 + 16 <= Room /\ 0 + 2 <= Room /\ 1 + 2 <= Room
      /\ off + 1 \in Nat /\ off + 1 <= 2 * Room /\ off + 19 <= 2 * Room /\ Room \in Nat
      /\ 0 \in Nat /\ 1 \in Nat /\ 2 \in Nat /\ 4 \in Nat /\ 16 \in Nat
    BY SizeFacts
<1>2. Wrote(m1, e, off + 1)
    BY <1>1, WriteMore, TypeFacts DEF Typed
<1>3. m1[<<"atyp", 0>>] = Atyp
    BY <1>2, TypeFacts DEF Wrote, Atyp
<1>4. ASSUME NEW k \in {4, 16}, Atyp \in Types, AddressLen = 3 + k,
             Lies(e, "addr", 0, off + 1, k), Lies(e, "port", 0, off + 1 + k, 2)
      PROVE  Wrote(Fixed2(Fixed1(m1, TRUE, off, k), TRUE, off, k), e, off + AddressLen)
  <2> DEFINE f == Fixed1(m1, TRUE, off, k)
             p == Fixed2(f, TRUE, off, k)
  <2>1. /\ k \in Nat /\ 0 + k <= Room /\ off + 1 + k \in Nat /\ off + 1 + k <= 2 * Room
        /\ off + AddressLen = off + 1 + k + 2 /\ off + AddressLen <= 2 * Room
      BY <1>1, <1>4
  <2> HIDE DEF m1
  <2>2. Wrote(f, e, off + 1 + k)
      BY <1>1, <1>2, <1>4, <2>1, WriteMore, TypeFacts DEF Fixed1
  <2> HIDE DEF f
  <2>3. Wrote(p, e, off + AddressLen)
      BY <1>1, <1>4, <2>1, <2>2, WriteMore, TypeFacts DEF Fixed2
  <2> QED BY <2>3 DEF f
<1>5. CASE Atyp = 1
  <2>1. /\ AddressLen = 7 /\ 3 + 4 = 7 /\ Atyp \in Types
        /\ Lies(e, "addr", 0, off + 1, 4) /\ Lies(e, "port", 0, off + 5, 2) /\ off + 5 = off + 1 + 4
      BY <1>5, TypeFacts DEF AddressLies, AddressLen
  <2> DEFINE p == Fixed2(Fixed1(m1, TRUE, off, 4), TRUE, off, 4)
  <2>2. Wrote(p, e, off + AddressLen)
      BY <1>4, <2>1
  <2>3. AtypAddrPort(m, TRUE, off) = Result(p, 0, AddressLen)
      BY <1>3, <1>5, <2>1, AtypFixed4
  <2> HIDE DEF p
  <2> QED BY <2>1, <2>2, <2>3, EncodedKnown
<1>6. CASE Atyp = 4
  <2>1. /\ AddressLen = 19 /\ 3 + 16 = 19 /\ Atyp \in Types
        /\ Lies(e, "addr", 0, off + 1, 16) /\ Lies(e, "port", 0, off + 17, 2) /\ off + 17 = off + 1 + 16
      BY <1>6, TypeFacts DEF AddressLies, AddressLen
  <2> DEFINE p == Fixed2(Fixed1(m1, TRUE, off, 16), TRUE, off, 16)
  <2>2. Wrote(p, e, off + AddressLen)
      BY <1>4, <2>1
  <2>3. AtypAddrPort(m, TRUE, off) = Result(p, 0, AddressLen)
      BY <1>3, <1>6, <2>1, AtypFixed16
  <2> HIDE DEF p
  <2> QED BY <2>1, <2>2, <2>3, EncodedKnown
<1>7. CASE Atyp = 3
  <2>1. n \in Lengths
      BY <1>7, TypeFacts DEF Addressed
  <2>2. /\ AddressLen = 4 + n /\ Atyp \in Types
        /\ Lies(e, "addr", 0, off + 1, 1) /\ Lies(e, "addr", 1, off + 2, n)
        /\ Lies(e, "addr", 1, off + 2 + n, 2)
      BY <1>7, TypeFacts DEF AddressLies, AddressLen
  <2> DEFINE m2 == Name1(m1, TRUE, off)
             m3 == Name2(m2, TRUE, off, n)
             m4 == Name3(m3, TRUE, off, n)
  <2> HIDE DEF n
  <2>3. /\ n \in Nat /\ 1 + n <= Room /\ off + 2 \in Nat /\ off + 2 = off + 1 + 1
        /\ off + 2 <= 2 * Room /\ off + 2 + n \in Nat /\ off + 2 + n <= 2 * Room
        /\ off + AddressLen = off + 2 + n + 2 /\ off + AddressLen <= 2 * Room
      BY <1>1, <2>1, <2>2, SizeFacts
  <2>4. Wrote(m2, e, off + 2)
    <3> HIDE DEF m1
    <3> QED BY <1>1, <1>2, <2>2, <2>3, WriteMore, TypeFacts DEF Name1
  <2>5. Wrote(m3, e, off + 2 + n)
    <3> HIDE DEF m2
    <3> QED BY <1>1, <2>2, <2>3, <2>4, WriteMore, TypeFacts DEF Name2
  <2>6. Wrote(m4, e, off + AddressLen)
    <3> HIDE DEF m3
    <3> QED BY <1>1, <2>2, <2>3, <2>5, WriteMore, TypeFacts DEF Name3
  <2>7. m2[<<"addr", 0>>] = n /\ m4[<<"addr", 0>>] = n
    <3> HIDE DEF m2, m4
    <3> QED BY <2>4, <2>6, TypeFacts DEF Wrote, NameLen, n
  <2>8. Count(m2, "addr") = n
    <3> HIDE DEF m2
    <3> QED BY <2>1, <2>7, SizeFacts DEF Count
  <2>9. AtypAddrPort(m, TRUE, off) = Result(m4, 0, (4 + AsSize(m4[<<"addr", 0>>])) % SizeMod)
    <3>1. m4 = Named(m, TRUE, off, n)
        BY DEF Named
    <3>2. AtypAddrPort(m, TRUE, off)
            = Result(Named(m, TRUE, off, n), 0,
                     (4 + AsSize(Named(m, TRUE, off, n)[<<"addr", 0>>])) % SizeMod)
        BY <1>3, <1>7, <2>8, AtypName
    <3> HIDE DEF m4
    <3> QED BY <3>1, <3>2, Zenon
  <2> HIDE DEF m4
  <2>10. AtypAddrPort(m, TRUE, off) = Result(m4, 0, AddressLen)
      BY <2>1, <2>2, <2>7, <2>9, NameSize
  <2> QED BY <2>2, <2>6, <2>10, EncodedKnown
<1>8. CASE Atyp \notin Types
  <2>1. AtypAddrPort(m, TRUE, off) = Result(m1, -1, 0)
      BY <1>3, <1>8, AtypOther
  <2> HIDE DEF m1
  <2> QED BY <1>2, <1>8, <2>1, EncodedOther
<1> QED BY <1>5, <1>6, <1>7, <1>8, TypeFacts

\* The places copied when an address is decoded, and those of S.
AddressSpan(S) ==
    IF Atyp = 1
    THEN S \union Span("atyp", 0, 1) \union Span("addr", 0, 4) \union Span("port", 0, 2)
    ELSE IF Atyp = 4
    THEN S \union Span("atyp", 0, 1) \union Span("addr", 0, 16) \union Span("port", 0, 2)
    ELSE S \union Span("atyp", 0, 1) \union Span("addr", 0, 1)
         \union Span("addr", 1, NameLen) \union Span("addr", 1, 2)

\* The address is read, or nothing but its type.
DecodedAddress(r, e, l, S) ==
    /\ Atyp \in Types => r.ret = 0 /\ r.header_size = AddressLen /\ Back(r.mem, e, l, AddressSpan(S))
    /\ Atyp \notin Types => r.ret = -1 /\ Back(r.mem, e, l, S \union Span("atyp", 0, 1))

LEMMA DecodedKnown ==
    ASSUME Atyp \in Types, NEW m, NEW e, NEW l, NEW S, NEW T, T = AddressSpan(S), Back(m, e, l, T)
    PROVE  DecodedAddress(Result(m, 0, AddressLen), e, l, S)
<1> DEFINE r == Result(m, 0, AddressLen)
<1>1. r.mem = m /\ r.ret = 0 /\ r.header_size = AddressLen
    BY DEF Result
<1> HIDE DEF r
<1>2. DecodedAddress(r, e, l, S)
    BY <1>1 DEF DecodedAddress
<1> QED BY <1>2 DEF r

LEMMA DecodedOther ==
    ASSUME Atyp \notin Types, NEW m, NEW e, NEW l, NEW S, Back(m, e, l, S \union Span("atyp", 0, 1))
    PROVE  DecodedAddress(Result(m, -1, 0), e, l, S)
<1> DEFINE r == Result(m, -1, 0)
<1>1. r.mem = m /\ r.ret = -1
    BY DEF Result
<1> HIDE DEF r
<1>2. DecodedAddress(r, e, l, S)
    BY <1>1 DEF DecodedAddress
<1> QED BY <1>2 DEF r

LEMMA DecodeAddress ==
    ASSUME Addressed, NEW m, NEW e, NEW l \in Nat, l <= 2 * Room, NEW S, Back(m, e, l, S),
           NEW off \in Nat, Lies(e, "atyp", 0, off, 1), off + 1 <= l,
           Atyp \in Types => AddressLies(e, off) /\ off + AddressLen <= l
    PROVE  DecodedAddress(AtypAddrPort(m, FALSE, off), e, l, S)
<1> DEFINE n == NameLen
           m1 == Typed(m, FALSE, off)
           S1 == S \union Span("atyp", 0, 1)
<1>1. /\ 0 + 1 <= Room /\ 0 + 4 <= Room /\ 0 + 16 <= Room /\ 0 + 2 <= Room /\ 1 + 2 <= Room
      /\ off + 1 \in Nat /\ Room \in Nat
      /\ 0 \in Nat /\ 1 \in Nat /\ 2 \in Nat /\ 4 \in Nat /\ 16 \in Nat
    BY SizeFacts
<1>2. Back(m1, e, l, S1)
    BY <1>1, ReadMore, TypeFacts DEF Typed
<1>3. m1[<<"atyp", 0>>] = Atyp
  <2>1. <<"atyp", 0>> \in S1
      BY DEF Span
  <2> HIDE DEF m1, S1
  <2> QED BY <1>2, <2>1, TypeFacts DEF Back, Atyp
<1>4. ASSUME NEW k \in {4, 16}, Atyp \in Types, AddressLen = 3 + k,
             Lies(e, "addr", 0, off + 1, k), Lies(e, "port", 0, off + 1 + k, 2)
      PROVE  Back(Fixed2(Fixed1(m1, FALSE, off, k), FALSE, off, k), e, l,
                  S1 \union Span("addr", 0, k) \union Span("port", 0, 2))
  <2> DEFINE f == Fixed1(m1, FALSE, off, k)
             p == Fixed2(f, FALSE, off, k)
             T == S1 \union Span("addr", 0, k)
  <2>1. /\ k \in Nat /\ 0 + k <= Room /\ off + 1 + k \in Nat
        /\ off + 1 + k <= l /\ off + 1 + k + 2 <= l
      BY <1>1, <1>4
  <2> HIDE DEF m1, S1
  <2>2. Back(f, e, l, T)
      BY <1>1, <1>2, <1>4, <2>1, ReadMore, TypeFacts DEF Fixed1
  <2> HIDE DEF f, T
  <2>3. Back(p, e, l, T \union Span("port", 0, 2))
      BY <1>1, <1>4, <2>1, <2>2, ReadMore, TypeFacts DEF Fixed2
  <2> QED BY <2>3 DEF f, T
<1>5. CASE Atyp = 1
  <2>1. /\ AddressLen = 7 /\ 3 + 4 = 7 /\ Atyp \in Types
        /\ Lies(e, "addr", 0, off + 1, 4) /\ Lies(e, "port", 0, off + 5, 2) /\ off + 5 = off + 1 + 4
      BY <1>5, TypeFacts DEF AddressLies, AddressLen
  <2> DEFINE p == Fixed2(Fixed1(m1, FALSE, off, 4), FALSE, off, 4)
             T == S1 \union Span("addr", 0, 4) \union Span("port", 0, 2)
  <2>2. Back(p, e, l, T)
      BY <1>4, <2>1
  <2>3. AtypAddrPort(m, FALSE, off) = Result(p, 0, AddressLen)
      BY <1>3, <1>5, <2>1, AtypFixed4
  <2>4. T = AddressSpan(S)
      BY <1>5 DEF AddressSpan
  <2> HIDE DEF p, T
  <2> QED BY <2>1, <2>2, <2>3, <2>4, DecodedKnown
<1>6. CASE Atyp = 4
  <2>1. /\ AddressLen = 19 /\ 3 + 16 = 19 /\ Atyp \in Types
        /\ Lies(e, "addr", 0, off + 1, 16) /\ Lies(e, "port", 0, off + 17, 2) /\ off + 17 = off + 1 + 16
      BY <1>6, TypeFacts DEF AddressLies, AddressLen
  <2> DEFINE p == Fixed2(Fixed1(m1, FALSE, off, 16), FALSE, off, 16)
             T == S1 \union Span("addr", 0, 16) \union Span("port", 0, 2)
  <2>2. Back(p, e, l, T)
      BY <1>4, <2>1
  <2>3. AtypAddrPort(m, FALSE, off) = Result(p, 0, AddressLen)
      BY <1>3, <1>6, <2>1, AtypFixed16
  <2>4. T = AddressSpan(S)
      BY <1>6 DEF AddressSpan
  <2> HIDE DEF p, T
  <2> QED BY <2>1, <2>2, <2>3, <2>4, DecodedKnown
<1>7. CASE Atyp = 3
  <2>1. n \in Lengths
      BY <1>7, TypeFacts DEF Addressed
  <2>2. /\ AddressLen = 4 + n /\ Atyp \in Types
        /\ Lies(e, "addr", 0, off + 1, 1) /\ Lies(e, "addr", 1, off + 2, n)
        /\ Lies(e, "addr", 1, off + 2 + n, 2)
      BY <1>7, TypeFacts DEF AddressLies, AddressLen
  <2> DEFINE m2 == Name1(m1, FALSE, off)
             m3 == Name2(m2, FALSE, off, n)
             m4 == Name3(m3, FALSE, off, n)
             T2 == S1 \union Span("addr", 0, 1)
             T3 == T2 \union Span("addr", 1, n)
             T4 == T3 \union Span("addr", 1, 2)
  <2>3. T4 = AddressSpan(S) /\ <<"addr", 0>> \in T2 /\ <<"addr", 0>> \in T4
    <3>1. T4 = AddressSpan(S)
        BY <1>7 DEF AddressSpan
    <3>2. <<"addr", 0>> \in Span("addr", 0, 1)
        BY DEF Span
    <3> QED BY <3>1, <3>2
  <2> HIDE DEF n, S1
  <2>4. /\ n \in Nat /\ 1 + n <= Room /\ off + 2 \in Nat /\ off + 2 + n \in Nat
        /\ off + 1 + 1 <= l /\ off + 2 + n <= l /\ off + 2 + n + 2 <= l
      BY <1>1, <2>1, <2>2, SizeFacts
  <2>5. Back(m2, e, l, T2)
    <3> HIDE DEF m1
    <3> QED BY <1>1, <1>2, <2>2, <2>4, ReadMore, TypeFacts DEF Name1
  <2> HIDE DEF T2
  <2>6. Back(m3, e, l, T3)
    <3> HIDE DEF m2
    <3> QED BY <1>1, <2>2, <2>4, <2>5, ReadMore, TypeFacts DEF Name2
  <2> HIDE DEF T3
  <2>7. Back(m4, e, l, T4)
    <3> HIDE DEF m3
    <3> QED BY <1>1, <2>2, <2>4, <2>6, ReadMore, TypeFacts DEF Name3
  <2> HIDE DEF T4
  <2>8. m2[<<"addr", 0>>] = n /\ m4[<<"addr", 0>>] = n
    <3> HIDE DEF m2, m4
    <3> QED BY <2>3, <2>5, <2>7, TypeFacts DEF Back, NameLen, n
  <2>9. Count(m2, "addr") = n
    <3> HIDE DEF m2
    <3> QED BY <2>1, <2>8, SizeFacts DEF Count
  <2>10. AtypAddrPort(m, FALSE, off) = Result(m4, 0, (4 + AsSize(m4[<<"addr", 0>>])) % SizeMod)
    <3>1. m4 = Named(m, FALSE, off, n)
        BY DEF Named
    <3>2. AtypAddrPort(m, FALSE, off)
            = Result(Named(m, FALSE, off, n), 0,
                     (4 + AsSize(Named(m, FALSE, off, n)[<<"addr", 0>>])) % SizeMod)
        BY <1>3, <1>7, <2>9, AtypName
    <3> HIDE DEF m4
    <3> QED BY <3>1, <3>2, Zenon
  <2> HIDE DEF m4
  <2>11. AtypAddrPort(m, FALSE, off) = Result(m4, 0, AddressLen)
      BY <2>1, <2>2, <2>8, <2>10, NameSize
  <2> QED BY <2>2, <2>3, <2>7, <2>11, DecodedKnown
<1>8. CASE Atyp \notin Types
  <2>1. AtypAddrPort(m, FALSE, off) = Result(m1, -1, 0)
      BY <1>3, <1>8, AtypOther
  <2> HIDE DEF m1
  <2> QED BY <1>2, <1>8, <2>1, DecodedOther
<1> QED BY <1>5, <1>6, <1>7, <1>8, TypeFacts

-----------------------------------------------------------------------------
(***************************************************************************)
(* Messages without an address.                                            *)
(***************************************************************************)
\* A message, its buffer empty.
Blank ==
    /\ given \in [Places -> Int]
    /\ \A k \in 0..(2 * Room - 1) : given[<<"data", k>>] = Unset

LEMMA WroteNothing ==
    ASSUME Blank, NEW e
    PROVE  Wrote(given, e, 0)
BY DEF Blank, Wrote, Holds

LEMMA NameFacts ==
    {"ver", "nmethods", "methods", "method", "ulen", "uname", "plen", "passwd",
     "status", "cmd", "rep", "rsv", "frag"} \subseteq Names
BY DEF Names

LEMMA WriteChar ==
    ASSUME NEW m, NEW e, NEW off \in Nat, off < 2 * Room, Wrote(m, e, off), NEW name \in Names,
           Lies(e, name, 0, off, 1), NEW l, l = off + 1
    PROVE  Wrote(ConvertChar(m, TRUE, name, off), e, l)
<1>1. 0 \in Nat /\ 1 \in Nat /\ 0 + 1 <= Room /\ l <= 2 * Room
    BY SizeFacts
<1> QED BY <1>1, WriteMore DEF ConvertChar

LEMMA ReadChar ==
    ASSUME NEW m, NEW e, NEW l \in Nat, l <= 2 * Room, NEW S, Back(m, e, l, S), NEW name \in Names,
           NEW off \in Nat, Lies(e, name, 0, off, 1), off + 1 <= l
    PROVE  Back(ConvertChar(m, FALSE, name, off), e, l, S \union Span(name, 0, 1))
<1>1. 0 \in Nat /\ 1 \in Nat /\ 0 + 1 <= Room
    BY SizeFacts
<1> QED BY <1>1, ReadMore DEF ConvertChar

\* u is s with a part behind it, of which the a bytes of s keep their places.
Extended(u, s, name, i, n) == u = s \o Part(name, i, n)
Keeps(u, s, a) ==
    \A nm, j : \A off, n \in Nat : off + n <= a /\ Lies(s, nm, j, off, n) => Lies(u, nm, j, off, n)

LEMMA Extend ==
    ASSUME given \in [Places -> Int], NEW u, NEW s, NEW a, HasLen(s, a),
           NEW name \in Names, NEW i \in Nat, NEW n \in Nat, i + n <= Room,
           Extended(u, s, name, i, n), NEW l, l = a + n
    PROVE  HasLen(u, l) /\ Lies(u, name, i, a, n) /\ Keeps(u, s, a)
<1> DEFINE t == Part(name, i, n)
<1>1. HasLen(t, n) /\ Lies(t, name, i, 0, n)
    BY LiesPart
<1>2. Cat(u, s, t)
    BY DEF Extended, Cat
<1> HIDE DEF t
<1>3. a \in Nat
    BY DEF HasLen
<1>4. HasLen(u, l)
    BY <1>1, <1>2, LenCat
<1>5. Lies(u, name, i, a, n)
    BY <1>1, <1>2, <1>3, LiesRight
<1>6. Keeps(u, s, a)
    BY <1>1, <1>2, LiesLeft DEF Keeps
<1> QED BY <1>4, <1>5, <1>6

LEMMA OneChar ==
    ASSUME given \in [Places -> Int], NEW name \in Names
    PROVE  HasLen(Part(name, 0, 1), 1) /\ Lies(Part(name, 0, 1), name, 0, 0, 1)
<1>1. 0 \in Nat /\ 1 \in Nat /\ 0 + 1 <= Room
    BY SizeFacts
<1> QED BY <1>1, LiesPart

\* A call has encoded e, of l bytes; it has decoded it.
Sent(r, e, l) == r.ret = 0 /\ Wrote(r.mem, e, l)
Got(r, e, l, S) == r.ret = 0 /\ Back(r.mem, e, l, S)

LEMMA SentResult ==
    ASSUME NEW m, NEW e, NEW l, Wrote(m, e, l), NEW size
    PROVE  Sent(Result(m, 0, size), e, l)
<1> DEFINE r == Result(m, 0, size)
<1>1. r.mem = m /\ r.ret = 0
    BY DEF Result
<1> HIDE DEF r
<1>2. Sent(r, e, l)
    BY <1>1 DEF Sent
<1> QED BY <1>2 DEF r

LEMMA GotResult ==
    ASSUME NEW m, NEW e, NEW l, NEW S, Back(m, e, l, S), NEW size
    PROVE  Got(Result(m, 0, size), e, l, S)
<1> DEFINE r == Result(m, 0, size)
<1>1. r.mem = m /\ r.ret = 0
    BY DEF Result
<1> HIDE DEF r
<1>2. Got(r, e, l, S)
    BY <1>1 DEF Got
<1> QED BY <1>2 DEF r

\* A message is the chars of s with those of one part behind them.
LEMMA TwoCharsConvert ==
    ASSUME Blank, NEW name \in Names, NEW e, Extended(e, Part("ver", 0, 1), name, 0, 1)
    PROVE  /\ HasLen(e, 2) /\ 2 <= 2 * Room
           /\ Sent(TwoChars(given, TRUE, name), e, 2)
           /\ \A m : Back(m, e, 2, {}) =>
                Got(TwoChars(m, FALSE, name), e, 2,
                    {} \union Span("ver", 0, 1) \union Span(name, 0, 1))
<1> DEFINE v == Part("ver", 0, 1)
<1>1. /\ given \in [Places -> Int] /\ "ver" \in Names /\ 0 \in Nat /\ 1 \in Nat /\ 2 \in Nat
      /\ 0 + 1 <= Room /\ 1 < 2 * Room /\ 0 < 2 * Room /\ 2 <= 2 * Room
      /\ 1 = 0 + 1 /\ 2 = 1 + 1 /\ 0 + 1 <= 2 /\ 1 + 1 <= 2
    BY SizeFacts, NameFacts DEF Blank
<1>2. Extended(e, v, name, 0, 1)
    OBVIOUS
<1>3. HasLen(v, 1) /\ Lies(v, "ver", 0, 0, 1)
    BY <1>1, OneChar
<1> HIDE DEF v
<1>4. HasLen(e, 2) /\ Lies(e, name, 0, 1, 1) /\ Keeps(e, v, 1)
    BY <1>1, <1>2, <1>3, Extend
<1>5. Lies(e, "ver", 0, 0, 1)
    BY <1>1, <1>3, <1>4 DEF Keeps
<1>6. Sent(TwoChars(given, TRUE, name), e, 2)
  <2> DEFINE a == ConvertChar(given, TRUE, "ver", 0)
             b == ConvertChar(a, TRUE, name, 1)
  <2>0. Wrote(given, e, 0)
      BY WroteNothing
  <2>1. Wrote(a, e, 1)
      BY <1>1, <1>5, <2>0, WriteChar, Zenon
  <2> HIDE DEF a
  <2>2. Wrote(b, e, 2)
      BY <1>1, <1>4, <2>1, WriteChar, Zenon
  <2>3. TwoChars(given, TRUE, name) = Result(b, 0, 0)
      BY DEF TwoChars, a
  <2> HIDE DEF b
  <2> QED BY <2>2, <2>3, SentResult
<1>7. ASSUME NEW m, Back(m, e, 2, {})
      PROVE  Got(TwoChars(m, FALSE, name), e, 2,
                 {} \union Span("ver", 0, 1) \union Span(name, 0, 1))
  <2> DEFINE a == ConvertChar(m, FALSE, "ver", 0)
             b == ConvertChar(a, FALSE, name, 1)
             S == {} \union Span("ver", 0, 1)
  <2>1. Back(a, e, 2, S)
      BY <1>1, <1>5, <1>7, ReadChar, Zenon
  <2> HIDE DEF a, S
  <2>2. Back(b, e, 2, S \union Span(name, 0, 1))
      BY <1>1, <1>4, <2>1, ReadChar, Zenon
  <2>3. TwoChars(m, FALSE, name) = Result(b, 0, 0)
      BY DEF TwoChars, a
  <2> HIDE DEF b
  <2> QED BY <2>2, <2>3, GotResult DEF S
<1> QED BY <1>1, <1>4, <1>6, <1>7

\* A count that has been written or read is that of the message.
LEMMA CountIs ==
    ASSUME NEW m, NEW name \in Names, NEW n \in Lengths, n = given[<<name, 0>>],
           NEW e, NEW l, Wrote(m, e, l) \/ \E S : Back(m, e, l, S) /\ <<name, 0>> \in S
    PROVE  Count(m, name) = n
<1>1. 0 \in Index
    BY TypeFacts
<1>2. m[<<name, 0>>] = n
    BY <1>1 DEF Wrote, Back
<1> QED BY <1>2, SizeFacts DEF Count

LEMMA Keep ==
    ASSUME NEW u, NEW s, NEW a, Keeps(u, s, a), NEW name, NEW i, NEW off \in Nat, NEW n \in Nat,
           off + n <= a, Lies(s, name, i, off, n)
    PROVE  Lies(u, name, i, off, n)
BY DEF Keeps

LEMMA LengthFits ==
    ASSUME NEW n \in Lengths
    PROVE  n \in Nat /\ 0 + n <= Room /\ n + 3 <= Room
BY SizeFacts

LEMMA InSpan == \A name, S : <<name, 0>> \in S \union Span(name, 0, 1)
BY DEF Span

LEMMA MothedCConverts ==
    ASSUME Blank, NEW n \in Lengths, n = given[<<"nmethods", 0>>], NEW e, NEW e2,
           Extended(e2, Part("ver", 0, 1), "nmethods", 0, 1), Extended(e, e2, "methods", 0, n),
           NEW l, l = 2 + n
    PROVE  /\ HasLen(e, l) /\ l <= 2 * Room
           /\ Sent(MothedC(given, TRUE), e, l)
           /\ \A m : Back(m, e, l, {}) =>
                Got(MothedC(m, FALSE), e, l,
                    {} \union Span("ver", 0, 1) \union Span("nmethods", 0, 1)
                       \union Span("methods", 0, n))
<1> DEFINE v == Part("ver", 0, 1)
<1>1. /\ given \in [Places -> Int] /\ "ver" \in Names /\ "nmethods" \in Names /\ "methods" \in Names
      /\ 0 \in Nat /\ 1 \in Nat /\ 2 \in Nat /\ n \in Nat /\ l \in Nat
      /\ 0 + 1 <= Room /\ 1 < 2 * Room /\ 0 < 2 * Room /\ 0 + n <= Room /\ l <= 2 * Room
      /\ 1 = 0 + 1 /\ 2 = 1 + 1 /\ 0 + 1 <= l /\ 1 + 1 <= l /\ 2 + n <= l
      /\ 0 + 1 <= 1 /\ 0 + 1 <= 2 /\ 1 + 1 <= 2
    BY SizeFacts, NameFacts, LengthFits DEF Blank
<1>2. Extended(e2, v, "nmethods", 0, 1)
    OBVIOUS
<1>3. HasLen(v, 1) /\ Lies(v, "ver", 0, 0, 1)
    BY <1>1, OneChar
<1> HIDE DEF v
<1>4. HasLen(e2, 2) /\ Lies(e2, "nmethods", 0, 1, 1) /\ Keeps(e2, v, 1)
    BY <1>1, <1>2, <1>3, Extend, Zenon
<1>5. HasLen(e, l) /\ Lies(e, "methods", 0, 2, n) /\ Keeps(e, e2, 2)
    BY <1>1, <1>4, Extend, Zenon
<1>6. Lies(e2, "ver", 0, 0, 1)
    BY <1>1, <1>3, <1>4, Keep, Zenon
<1>7. Lies(e, "ver", 0, 0, 1) /\ Lies(e, "nmethods", 0, 1, 1)
    BY <1>1, <1>4, <1>5, <1>6, Keep, Zenon
<1>8. Sent(MothedC(given, TRUE), e, l)
  <2> DEFINE a == ConvertChar(given, TRUE, "ver", 0)
             b == ConvertChar(a, TRUE, "nmethods", 1)
             c == ConvertNChar(b, TRUE, "methods", 0, 2, n)
  <2>0. Wrote(given, e, 0)
      BY WroteNothing
  <2>1. Wrote(a, e, 1)
      BY <1>1, <1>7, <2>0, WriteChar, Zenon
  <2> HIDE DEF a
  <2>2. Wrote(b, e, 2)
      BY <1>1, <1>7, <2>1, WriteChar, Zenon
  <2> HIDE DEF b
  <2>3. Wrote(c, e, l)
      BY <1>1, <1>5, <2>2, WriteMore, Zenon
  <2>4. Count(b, "nmethods") = n
      BY <1>1, <2>2, CountIs
  <2>5. MothedC(given, TRUE) = Result(ConvertNChar(b, TRUE, "methods", 0, 2, Count(b, "nmethods")), 0, 0)
      BY DEF MothedC, a, b
  <2>6. MothedC(given, TRUE) = Result(c, 0, 0)
      BY <2>4, <2>5, Zenon DEF c
  <2> HIDE DEF c
  <2> QED BY <2>3, <2>6, SentResult
<1>9. ASSUME NEW m, Back(m, e, l, {})
      PROVE  Got(MothedC(m, FALSE), e, l,
                 {} \union Span("ver", 0, 1) \union Span("nmethods", 0, 1)
                    \union Span("methods", 0, n))
  <2> DEFINE a == ConvertChar(m, FALSE, "ver", 0)
             b == ConvertChar(a, FALSE, "nmethods", 1)
             c == ConvertNChar(b, FALSE, "methods", 0, 2, n)
             S == {} \union Span("ver", 0, 1)
             T == S \union Span("nmethods", 0, 1)
  <2>1. Back(a, e, l, S)
      BY <1>1, <1>7, <1>9, ReadChar, Zenon
  <2> HIDE DEF a, S
  <2>2. Back(b, e, l, T) /\ <<"nmethods", 0>> \in T
      BY <1>1, <1>7, <2>1, ReadChar, InSpan, Zenon
  <2> HIDE DEF b, T
  <2>3. Back(c, e, l, T \union Span("methods", 0, n))
      BY <1>1, <1>5, <2>2, ReadMore, Zenon
  <2>4. Count(b, "nmethods") = n
      BY <1>1, <2>2, CountIs
  <2>5. MothedC(m, FALSE) = Result(ConvertNChar(b, FALSE, "methods", 0, 2, Count(b, "nmethods")), 0, 0)
      BY DEF MothedC, a, b
  <2>6. MothedC(m, FALSE) = Result(c, 0, 0)
      BY <2>4, <2>5, Zenon DEF c
  <2> HIDE DEF c
  <2>7. Got(MothedC(m, FALSE), e, l, T \union Span("methods", 0, n))
      BY <2>3, <2>6, GotResult
  <2> QED BY <2>7 DEF S, T
<1> QED BY <1>1, <1>5, <1>8, <1>9

LEMMA AuthPassCConverts ==
    ASSUME Blank, NEW u \in Lengths, u = given[<<"ulen", 0>>],
           NEW p \in Lengths, p = given[<<"plen", 0>>], NEW e, NEW e2, NEW e3, NEW e4,
           Extended(e2, Part("ver", 0, 1), "ulen", 0, 1), Extended(e3, e2, "uname", 0, u),
           Extended(e4, e3, "plen", 0, 1), Extended(e, e4, "passwd", 0, p),
           NEW j, j = 2 + u, NEW k, k = 2 + u + 1, NEW l, l = k + p
    PROVE  /\ HasLen(e, l) /\ l <= 2 * Room
           /\ Sent(AuthPassC(given, TRUE), e, l)
           /\ \A m : Back(m, e, l, {}) =>
                Got(AuthPassC(m, FALSE), e, l,
                    {} \union Span("ver", 0, 1) \union Span("ulen", 0, 1) \union Span("uname", 0, u)
                       \union Span("plen", 0, 1) \union Span("passwd", 0, p))
<1> DEFINE v == Part("ver", 0, 1)
<1>1. /\ given \in [Places -> Int] /\ "ver" \in Names /\ "ulen" \in Names /\ "uname" \in Names
      /\ "plen" \in Names /\ "passwd" \in Names
      /\ 0 \in Nat /\ 1 \in Nat /\ 2 \in Nat /\ u \in Nat /\ p \in Nat
      /\ 0 + 1 <= Room /\ 1 < 2 * Room /\ 0 < 2 * Room /\ 0 + u <= Room /\ 0 + p <= Room
      /\ 1 = 0 + 1 /\ 2 = 1 + 1
    BY SizeFacts, NameFacts, LengthFits DEF Blank
<1>o. /\ j \in Nat /\ k \in Nat /\ l \in Nat /\ 2 + u = j /\ j + 1 = k /\ k + p = l
      /\ j < 2 * Room /\ k <= 2 * Room /\ l <= 2 * Room
      /\ 0 + 1 <= 1 /\ 0 + 1 <= 2 /\ 1 + 1 <= 2 /\ 0 + 1 <= j /\ 1 + 1 <= j /\ 2 + u <= j
      /\ 0 + 1 <= k /\ 1 + 1 <= k /\ 2 + u <= k /\ j + 1 <= k
      /\ 0 + 1 <= l /\ 1 + 1 <= l /\ 2 + u <= l /\ j + 1 <= l /\ k + p <= l
    BY LengthFits, SizeFacts
<1>s. j = 2 + u /\ k = j + 1 /\ l = k + p /\ j <= 2 * Room
    BY <1>1, <1>o, SizeFacts
<1>2. Extended(e2, v, "ulen", 0, 1)
    OBVIOUS
<1>3. HasLen(v, 1) /\ Lies(v, "ver", 0, 0, 1)
    BY <1>1, OneChar
<1> HIDE DEF v
<1>4. HasLen(e2, 2) /\ Lies(e2, "ulen", 0, 1, 1) /\ Keeps(e2, v, 1)
    BY <1>1, <1>2, <1>3, Extend, Zenon
<1>5. HasLen(e3, j) /\ Lies(e3, "uname", 0, 2, u) /\ Keeps(e3, e2, 2)
    BY <1>1, <1>s, <1>4, Extend, Zenon
<1>6. HasLen(e4, k) /\ Lies(e4, "plen", 0, j, 1) /\ Keeps(e4, e3, j)
    BY <1>1, <1>s, <1>5, Extend, Zenon
<1>7. HasLen(e, l) /\ Lies(e, "passwd", 0, k, p) /\ Keeps(e, e4, k)
    BY <1>1, <1>s, <1>6, Extend, Zenon
<1>8. Lies(e, "ver", 0, 0, 1)
  <2>1. Lies(e2, "ver", 0, 0, 1)
      BY <1>1, <1>o, <1>3, <1>4, Keep, Zenon
  <2>2. Lies(e3, "ver", 0, 0, 1)
      BY <1>1, <1>o, <1>5, <2>1, Keep, Zenon
  <2>3. Lies(e4, "ver", 0, 0, 1)
      BY <1>1, <1>o, <1>6, <2>2, Keep, Zenon
  <2> QED BY <1>1, <1>o, <1>7, <2>3, Keep, Zenon
<1>9. Lies(e, "ulen", 0, 1, 1)
  <2>1. Lies(e3, "ulen", 0, 1, 1)
      BY <1>1, <1>o, <1>4, <1>5, Keep, Zenon
  <2>2. Lies(e4, "ulen", 0, 1, 1)
      BY <1>1, <1>o, <1>6, <2>1, Keep, Zenon
  <2> QED BY <1>1, <1>o, <1>7, <2>2, Keep, Zenon
<1>10. Lies(e, "uname", 0, 2, u)
  <2>1. Lies(e4, "uname", 0, 2, u)
      BY <1>1, <1>o, <1>5, <1>6, Keep, Zenon
  <2> QED BY <1>1, <1>o, <1>7, <2>1, Keep, Zenon
<1>11. Lies(e, "plen", 0, j, 1)
    BY <1>1, <1>o, <1>6, <1>7, Keep, Zenon
<1>12. Sent(AuthPassC(given, TRUE), e, l)
  <2> DEFINE a == ConvertChar(given, TRUE, "ver", 0)
             b == ConvertChar(a, TRUE, "ulen", 1)
             c == ConvertNChar(b, TRUE, "uname", 0, 2, u)
             d == ConvertChar(c, TRUE, "plen", j)
             f == ConvertNChar(d, TRUE, "passwd", 0, k, p)
  <2>0. Wrote(given, e, 0)
      BY WroteNothing
  <2>1. Wrote(a, e, 1)
      BY <1>1, <1>8, <2>0, WriteChar, Zenon
  <2> HIDE DEF a
  <2>2. Wrote(b, e, 2)
      BY <1>1, <1>9, <2>1, WriteChar, Zenon
  <2> HIDE DEF b
  <2>3. Wrote(c, e, j)
      BY <1>1, <1>s, <1>10, <2>2, WriteMore, Zenon
  <2> HIDE DEF c
  <2>4. Wrote(d, e, k)
      BY <1>1, <1>o, <1>s, <1>11, <2>3, WriteChar, Zenon
  <2> HIDE DEF d
  <2>5. Wrote(f, e, l)
      BY <1>1, <1>o, <1>s, <1>7, <2>4, WriteMore, Zenon
  <2>6. Count(b, "ulen") = u /\ Count(d, "plen") = p
      BY <1>1, <2>2, <2>4, CountIs
  <2> DEFINE g(x) == ConvertChar(ConvertNChar(b, TRUE, "uname", 0, 2, x), TRUE, "plen", 2 + x)
             h(x) == Result(ConvertNChar(g(x), TRUE, "passwd", 0, 2 + x + 1, Count(g(x), "plen")), 0, 0)
  <2>7. AuthPassC(given, TRUE) = h(Count(b, "ulen"))
      BY DEF AuthPassC, a, b
  <2>8. g(u) = d
      BY <1>s DEF c, d
  <2>9. h(u) = Result(ConvertNChar(d, TRUE, "passwd", 0, k, Count(d, "plen")), 0, 0)
    <3> HIDE DEF g, d
    <3> QED BY <2>8, Zenon
  <2>10. AuthPassC(given, TRUE) = h(u)
    <3> HIDE DEF h
    <3> QED BY <2>6, <2>7, Zenon
  <2>11. AuthPassC(given, TRUE) = Result(f, 0, 0)
      BY <2>6, <2>9, <2>10, Zenon DEF f
  <2> HIDE DEF f
  <2> QED BY <2>5, <2>11, SentResult
<1>13. ASSUME NEW m, Back(m, e, l, {})
       PROVE  Got(AuthPassC(m, FALSE), e, l,
                  {} \union Span("ver", 0, 1) \union Span("ulen", 0, 1) \union Span("uname", 0, u)
                     \union Span("plen", 0, 1) \union Span("passwd", 0, p))
  <2> DEFINE a == ConvertChar(m, FALSE, "ver", 0)
             b == ConvertChar(a, FALSE, "ulen", 1)
             c == ConvertNChar(b, FALSE, "uname", 0, 2, u)
             d == ConvertChar(c, FALSE, "plen", j)
             f == ConvertNChar(d, FALSE, "passwd", 0, k, p)
             S1 == {} \union Span("ver", 0, 1)
             S2 == S1 \union Span("ulen", 0, 1)
             S3 == S2 \union Span("uname", 0, u)
             S4 == S3 \union Span("plen", 0, 1)
  <2>1. Back(a, e, l, S1)
      BY <1>1, <1>o, <1>8, <1>13, ReadChar, Zenon
  <2> HIDE DEF a, S1
  <2>2. Back(b, e, l, S2) /\ <<"ulen", 0>> \in S2
      BY <1>1, <1>o, <1>9, <2>1, ReadChar, InSpan, Zenon
  <2> HIDE DEF b, S2
  <2>3. Back(c, e, l, S3)
      BY <1>1, <1>o, <1>10, <2>2, ReadMore, Zenon
  <2> HIDE DEF c, S3
  <2>4. Back(d, e, l, S4) /\ <<"plen", 0>> \in S4
      BY <1>1, <1>o, <1>11, <2>3, ReadChar, InSpan, Zenon
  <2> HIDE DEF d, S4
  <2>5. Back(f, e, l, S4 \union Span("passwd", 0, p))
      BY <1>1, <1>o, <1>7, <2>4, ReadMore, Zenon
  <2>6. Count(b, "ulen") = u /\ Count(d, "plen") = p
      BY <1>1, <2>2, <2>4, CountIs
  <2> DEFINE g(x) == ConvertChar(ConvertNChar(b, FALSE, "uname", 0, 2, x), FALSE, "plen", 2 + x)
             h(x) == Result(ConvertNChar(g(x), FALSE, "passwd", 0, 2 + x + 1, Count(g(x), "plen")), 0, 0)
  <2>7. AuthPassC(m, FALSE) = h(Count(b, "ulen"))
      BY DEF AuthPassC, a, b
  <2>8. g(u) = d
      BY <1>s DEF c, d
  <2>9. h(u) = Result(ConvertNChar(d, FALSE, "passwd", 0, k, Count(d, "plen")), 0, 0)
    <3> HIDE DEF g, d
    <3> QED BY <2>8, Zenon
  <2>10. AuthPassC(m, FALSE) = h(u)
    <3> HIDE DEF h
    <3> QED BY <2>6, <2>7, Zenon
  <2>11. AuthPassC(m, FALSE) = Result(f, 0, 0)
      BY <2>6, <2>9, <2>10, Zenon DEF f
  <2> HIDE DEF f
  <2>12. Got(AuthPassC(m, FALSE), e, l, S4 \union Span("passwd", 0, p))
      BY <2>5, <2>11, GotResult
  <2> QED BY <2>12 DEF S1, S2, S3, S4
<1> QED BY <1>o, <1>7, <1>12, <1>13

-----------------------------------------------------------------------------
(***************************************************************************)
(* Messages with an address.                                               *)
(***************************************************************************)
\* A call was refused, having written l bytes of e, or filled S.
Stopped(r, e, l) == r.ret = -1 /\ Wrote(r.mem, e, l)
GaveUp(r, e, l, S) == r.ret = -1 /\ Back(r.mem, e, l, S)

LEMMA StoppedResult ==
    ASSUME NEW m, NEW e, NEW l, Wrote(m, e, l)
    PROVE  Stopped(Result(m, -1, 0), e, l)
<1> DEFINE r == Result(m, -1, 0)
<1>1. r.mem = m /\ r.ret = -1
    BY DEF Result
<1> HIDE DEF r
<1>2. Stopped(r, e, l)
    BY <1>1 DEF Stopped
<1> QED BY <1>2 DEF r

LEMMA GaveUpResult ==
    ASSUME NEW m, NEW e, NEW l, NEW S, Back(m, e, l, S)
    PROVE  GaveUp(Result(m, -1, 0), e, l, S)
<1> DEFINE r == Result(m, -1, 0)
<1>1. r.mem = m /\ r.ret = -1
    BY DEF Result
<1> HIDE DEF r
<1>2. GaveUp(r, e, l, S)
    BY <1>1 DEF GaveUp
<1> QED BY <1>2 DEF r

\* e is h with the address behind it, or with nothing but its type.
Carries(e, h, off, l) ==
    /\ HasLen(h, off)
    /\ Atyp \in Types => Cat(e, h, AddressBytes) /\ l = off + AddressLen
    /\ Atyp \notin Types => Extended(e, h, "atyp", 0, 1) /\ l = off + 1

\* So e has the address from off on.
HasAddress(e, off) == Lies(e, "atyp", 0, off, 1) /\ (Atyp \in Types => AddressLies(e, off))

LEMMA CarriesFacts ==
    ASSUME Addressed, NEW e, NEW h, NEW off \in Nat, off <= 3, NEW l, Carries(e, h, off, l)
    PROVE  HasLen(e, l) /\ l <= 2 * Room /\ off + 1 <= l /\ Keeps(e, h, off) /\ HasAddress(e, off)
<1>1. CASE Atyp \in Types
  <2>1. HasLen(h, off) /\ Cat(e, h, AddressBytes) /\ l = off + AddressLen
      BY <1>1 DEF Carries
  <2>2. HasLen(e, off + AddressLen) /\ AddressLies(e, off)
      BY <1>1, <2>1, AddressBehind
  <2>3. HasLen(AddressBytes, AddressLen)
      BY <1>1, AddressBytesFacts
  <2>4. Keeps(e, h, off)
      BY <2>1, <2>3, LiesLeft DEF Keeps
  <2>5. AddressLen \in Nat /\ AddressLen >= 1 /\ AddressLen + 3 <= 2 * Room
      BY <1>1, TypeFacts, NameSize, SizeFacts DEF AddressLen, Addressed
  <2>6. l \in Nat /\ l <= 2 * Room /\ off + 1 <= l
      BY <2>1, <2>5, SizeFacts
  <2>7. HasAddress(e, off)
      BY <2>2 DEF HasAddress, AddressLies
  <2>8. HasLen(e, l)
      BY <2>1, <2>2, Zenon
  <2> QED BY <2>4, <2>6, <2>7, <2>8
<1>2. CASE Atyp \notin Types
  <2>1. HasLen(h, off) /\ Extended(e, h, "atyp", 0, 1) /\ l = off + 1
      BY <1>2 DEF Carries
  <2>2. given \in [Places -> Int] /\ "atyp" \in Names /\ 0 + 1 <= Room /\ 0 \in Nat /\ 1 \in Nat
      BY TypeFacts, SizeFacts DEF Addressed
  <2>3. HasLen(e, l) /\ Lies(e, "atyp", 0, off, 1) /\ Keeps(e, h, off)
      BY <2>1, <2>2, Extend, Zenon
  <2>4. l <= 2 * Room /\ off + 1 <= l
      BY <2>1, SizeFacts
  <2> QED BY <1>2, <2>3, <2>4 DEF HasAddress
<1> QED BY <1>1, <1>2

\* The three chars before the address of a request or a reply.
RequestHead(m, reverse, name) ==
    ConvertChar(ConvertChar(ConvertChar(m, reverse, "ver", 0), reverse, name, 1), reverse, "rsv", 2)

HeadLies(e, name) ==
    Lies(e, "ver", 0, 0, 1) /\ Lies(e, name, 0, 1, 1) /\ Lies(e, "rsv", 0, 2, 1)

HeadSpan(name) == {} \union Span("ver", 0, 1) \union Span(name, 0, 1) \union Span("rsv", 0, 1)

LEMMA HeadFacts ==
    ASSUME given \in [Places -> Int], NEW name \in Names, NEW h2, NEW h,
           Extended(h2, Part("ver", 0, 1), name, 0, 1), Extended(h, h2, "rsv", 0, 1)
    PROVE  HasLen(h, 3) /\ HeadLies(h, name)
<1> DEFINE v == Part("ver", 0, 1)
<1>1. /\ "ver" \in Names /\ "rsv" \in Names /\ 0 \in Nat /\ 1 \in Nat /\ 0 + 1 <= Room
      /\ 2 = 1 + 1 /\ 3 = 2 + 1 /\ 0 + 1 <= 1 /\ 0 + 1 <= 2 /\ 1 + 1 <= 2
    BY SizeFacts, NameFacts
<1>2. Extended(h2, v, name, 0, 1)
    OBVIOUS
<1>3. HasLen(v, 1) /\ Lies(v, "ver", 0, 0, 1)
    BY <1>1, OneChar
<1> HIDE DEF v
<1>4. HasLen(h2, 2) /\ Lies(h2, name, 0, 1, 1) /\ Keeps(h2, v, 1)
    BY <1>1, <1>2, <1>3, Extend, Zenon
<1>5. HasLen(h, 3) /\ Lies(h, "rsv", 0, 2, 1) /\ Keeps(h, h2, 2)
    BY <1>1, <1>4, Extend, Zenon
<1>6. Lies(h2, "ver", 0, 0, 1)
    BY <1>1, <1>3, <1>4, Keep, Zenon
<1>7. Lies(h, "ver", 0, 0, 1) /\ Lies(h, name, 0, 1, 1)
    BY <1>1, <1>4, <1>5, <1>6, Keep, Zenon
<1> QED BY <1>5, <1>7 DEF HeadLies

LEMMA HeadWritten ==
    ASSUME Blank, NEW name \in Names, NEW e, HeadLies(e, name)
    PROVE  Wrote(RequestHead(given, TRUE, name), e, 3)
<1> DEFINE a == ConvertChar(given, TRUE, "ver", 0)
           b == ConvertChar(a, TRUE, name, 1)
           c == ConvertChar(b, TRUE, "rsv", 2)
<1>1. /\ "ver" \in Names /\ "rsv" \in Names /\ 0 \in Nat /\ 1 \in Nat /\ 2 \in Nat
      /\ 0 < 2 * Room /\ 1 < 2 * Room /\ 2 < 2 * Room /\ 1 = 0 + 1 /\ 2 = 1 + 1 /\ 3 = 2 + 1
      /\ Lies(e, "ver", 0, 0, 1) /\ Lies(e, name, 0, 1, 1) /\ Lies(e, "rsv", 0, 2, 1)
    BY SizeFacts, NameFacts DEF HeadLies
<1>2. Wrote(given, e, 0)
    BY WroteNothing
<1>3. Wrote(a, e, 1)
    BY <1>1, <1>2, WriteChar, Zenon
<1> HIDE DEF a
<1>4. Wrote(b, e, 2)
    BY <1>1, <1>3, WriteChar, Zenon
<1> HIDE DEF b
<1>5. Wrote(c, e, 3)
    BY <1>1, <1>4, WriteChar, Zenon
<1> QED BY <1>5, Zenon DEF RequestHead, a, b, c

LEMMA HeadRead ==
    ASSUME NEW name \in Names, NEW m, NEW e, NEW l \in Nat, 3 <= l, l <= 2 * Room,
           Back(m, e, l, {}), HeadLies(e, name)
    PROVE  Back(RequestHead(m, FALSE, name), e, l, HeadSpan(name)) /\ <<"rsv", 0>> \in HeadSpan(name)
<1> DEFINE a == ConvertChar(m, FALSE, "ver", 0)
           b == ConvertChar(a, FALSE, name, 1)
           c == ConvertChar(b, FALSE, "rsv", 2)
           S == {} \union Span("ver", 0, 1)
           T == S \union Span(name, 0, 1)
           U == T \union Span("rsv", 0, 1)
<1>1. /\ "ver" \in Names /\ "rsv" \in Names /\ 0 \in Nat /\ 1 \in Nat /\ 2 \in Nat
      /\ 0 + 1 <= l /\ 1 + 1 <= l /\ 2 + 1 <= l
      /\ Lies(e, "ver", 0, 0, 1) /\ Lies(e, name, 0, 1, 1) /\ Lies(e, "rsv", 0, 2, 1)
    BY SizeFacts, NameFacts DEF HeadLies
<1>2. Back(a, e, l, S)
    BY <1>1, ReadChar, Zenon
<1> HIDE DEF a, S
<1>3. Back(b, e, l, T)
    BY <1>1, <1>2, ReadChar, Zenon
<1> HIDE DEF b, T
<1>4. Back(c, e, l, U) /\ <<"rsv", 0>> \in U
    BY <1>1, <1>3, ReadChar, InSpan, Zenon
<1> QED BY <1>4, Zenon DEF RequestHead, HeadSpan, a, b, c, S, T, U

\* What a request or a reply comes to, by its reserved char.
LEMMA RequestStops ==
    ASSUME NEW m, NEW reverse, NEW name, RequestHead(m, reverse, name)[<<"rsv", 0>>] # 0
    PROVE  Request(m, reverse, name) = Result(RequestHead(m, reverse, name), -1, 0)
BY DEF Request, RequestHead

LEMMA RequestGoesOn ==
    ASSUME NEW m, NEW reverse, NEW name, RequestHead(m, reverse, name)[<<"rsv", 0>>] = 0
    PROVE  Request(m, reverse, name)
             = Result(AtypAddrPort(RequestHead(m, reverse, name), reverse, 3).mem,
                      AtypAddrPort(RequestHead(m, reverse, name), reverse, 3).ret, 0)
BY DEF Request, RequestHead

LEMMA SentAddress ==
    ASSUME NEW r, NEW e, NEW off, NEW l, EncodedAddress(r, e, off),
           Atyp \in Types => l = off + AddressLen, Atyp \notin Types => l = off + 1,
           NEW s, s.mem = r.mem, s.ret = r.ret
    PROVE  /\ Atyp \in Types => Sent(s, e, l)
           /\ Atyp \notin Types => Stopped(s, e, l)
BY DEF EncodedAddress, Sent, Stopped

LEMMA GotAddress ==
    ASSUME NEW r, NEW e, NEW l, NEW S, DecodedAddress(r, e, l, S),
           NEW s, s.mem = r.mem, s.ret = r.ret
    PROVE  /\ Atyp \in Types => Got(s, e, l, AddressSpan(S))
           /\ Atyp \notin Types => GaveUp(s, e, l, S \union Span("atyp", 0, 1))
BY DEF DecodedAddress, Got, GaveUp

LEMMA HeadKept ==
    ASSUME NEW e, NEW h, Keeps(e, h, 3), NEW name, HeadLies(h, name)
    PROVE  HeadLies(e, name)
<1>1. 0 \in Nat /\ 1 \in Nat /\ 2 \in Nat /\ 0 + 1 <= 3 /\ 1 + 1 <= 3 /\ 2 + 1 <= 3
    OBVIOUS
<1> QED BY <1>1, Keep, Zenon DEF HeadLies

LEMMA RequestConverts ==
    ASSUME Blank, Addressed, NEW name \in Names, NEW h, HasLen(h, 3), HeadLies(h, name),
           given[<<"rsv", 0>>] = 0, NEW e, NEW l, Carries(e, h, 3, l)
    PROVE  /\ HasLen(e, l) /\ l <= 2 * Room
           /\ Atyp \in Types => Sent(Request(given, TRUE, name), e, l)
           /\ Atyp \notin Types => Stopped(Request(given, TRUE, name), e, l)
           /\ \A m : Back(m, e, l, {}) =>
                /\ Atyp \in Types =>
                     Got(Request(m, FALSE, name), e, l, AddressSpan(HeadSpan(name)))
                /\ Atyp \notin Types =>
                     GaveUp(Request(m, FALSE, name), e, l, HeadSpan(name) \union Span("atyp", 0, 1))
<1>1. 3 \in Nat /\ 3 <= 3 /\ "rsv" \in Names /\ 0 \in Index
    BY NameFacts, TypeFacts
<1>2. HasLen(e, l) /\ l <= 2 * Room /\ 3 + 1 <= l /\ Keeps(e, h, 3) /\ HasAddress(e, 3)
    BY <1>1, CarriesFacts, Zenon
<1>3. l \in Nat /\ 3 <= l
    BY <1>2 DEF HasLen
<1>4. HeadLies(e, name)
    BY <1>2, HeadKept
<1>5. /\ Atyp \in Types => l = 3 + AddressLen
      /\ Atyp \notin Types => l = 3 + 1
    BY DEF Carries
<1>6. /\ Atyp \in Types => Sent(Request(given, TRUE, name), e, l)
      /\ Atyp \notin Types => Stopped(Request(given, TRUE, name), e, l)
  <2> DEFINE a == RequestHead(given, TRUE, name)
             r == AtypAddrPort(a, TRUE, 3)
  <2>1. Wrote(a, e, 3)
      BY <1>4, HeadWritten
  <2>2. a[<<"rsv", 0>>] = 0
    <3> HIDE DEF a
    <3> QED BY <1>1, <2>1 DEF Wrote
  <2>3. Request(given, TRUE, name) = Result(r.mem, r.ret, 0)
      BY <2>2, RequestGoesOn
  <2> HIDE DEF a
  <2>4. EncodedAddress(r, e, 3)
      BY <1>1, <1>2, <2>1, EncodeAddress, Zenon DEF HasAddress
  <2> HIDE DEF r
  <2>5. Request(given, TRUE, name).mem = r.mem /\ Request(given, TRUE, name).ret = r.ret
    <3>1. Result(r.mem, r.ret, 0).mem = r.mem /\ Result(r.mem, r.ret, 0).ret = r.ret
        BY DEF Result
    <3> QED BY <2>3, <3>1, Zenon
  <2> QED BY <1>5, <2>4, <2>5, SentAddress, Zenon
<1>7. ASSUME NEW m, Back(m, e, l, {})
      PROVE  /\ Atyp \in Types =>
                  Got(Request(m, FALSE, name), e, l, AddressSpan(HeadSpan(name)))
             /\ Atyp \notin Types =>
                  GaveUp(Request(m, FALSE, name), e, l, HeadSpan(name) \union Span("atyp", 0, 1))
  <2> DEFINE a == RequestHead(m, FALSE, name)
             r == AtypAddrPort(a, FALSE, 3)
  <2>1. Back(a, e, l, HeadSpan(name)) /\ <<"rsv", 0>> \in HeadSpan(name)
      BY <1>2, <1>3, <1>4, <1>7, HeadRead, Zenon
  <2>2. a[<<"rsv", 0>>] = 0
    <3> HIDE DEF a
    <3> QED BY <1>1, <2>1 DEF Back
  <2>3. Request(m, FALSE, name) = Result(r.mem, r.ret, 0)
      BY <2>2, RequestGoesOn
  <2> HIDE DEF a
  <2>4. DecodedAddress(r, e, l, HeadSpan(name))
    <3>1. Atyp \in Types => AddressLies(e, 3) /\ 3 + AddressLen <= l
        BY <1>2, <1>3, <1>5 DEF HasAddress
    <3> QED BY <1>1, <1>2, <1>3, <2>1, <3>1, DecodeAddress, Zenon DEF HasAddress
  <2> HIDE DEF r
  <2>5. Request(m, FALSE, name).mem = r.mem /\ Request(m, FALSE, name).ret = r.ret
    <3>1. Result(r.mem, r.ret, 0).mem = r.mem /\ Result(r.mem, r.ret, 0).ret = r.ret
        BY DEF Result
    <3> QED BY <2>3, <3>1, Zenon
  <2> QED BY <2>4, <2>5, GotAddress, Zenon
<1> QED BY <1>2, <1>6, <1>7

LEMMA RequestRefuses ==
    ASSUME Blank, NEW name \in Names, NEW h, HasLen(h, 3), HeadLies(h, name),
           given[<<"rsv", 0>>] # 0
    PROVE  /\ 3 <= 2 * Room
           /\ Stopped(Request(given, TRUE, name), h, 3)
           /\ \A m : Back(m, h, 3, {}) => GaveUp(Request(m, FALSE, name), h, 3, HeadSpan(name))
<1>1. 3 \in Nat /\ 3 <= 3 /\ 3 <= 2 * Room /\ "rsv" \in Names /\ 0 \in Index
    BY NameFacts, TypeFacts, SizeFacts
<1>2. Stopped(Request(given, TRUE, name), h, 3)
  <2> DEFINE a == RequestHead(given, TRUE, name)
  <2>1. Wrote(a, h, 3)
      BY HeadWritten
  <2>2. a[<<"rsv", 0>>] # 0
    <3> HIDE DEF a
    <3> QED BY <1>1, <2>1 DEF Wrote
  <2>3. Request(given, TRUE, name) = Result(a, -1, 0)
      BY <2>2, RequestStops
  <2> HIDE DEF a
  <2> QED BY <2>1, <2>3, StoppedResult
<1>3. ASSUME NEW m, Back(m, h, 3, {})
      PROVE  GaveUp(Request(m, FALSE, name), h, 3, HeadSpan(name))
  <2> DEFINE a == RequestHead(m, FALSE, name)
  <2>1. Back(a, h, 3, HeadSpan(name)) /\ <<"rsv", 0>> \in HeadSpan(name)
      BY <1>1, <1>3, HeadRead, Zenon
  <2>2. a[<<"rsv", 0>>] # 0
    <3> HIDE DEF a
    <3> QED BY <1>1, <2>1 DEF Back
  <2>3. Request(m, FALSE, name) = Result(a, -1, 0)
      BY <2>2, RequestStops
  <2> HIDE DEF a
  <2> QED BY <2>1, <2>3, GaveUpResult
<1> QED BY <1>1, <1>2, <1>3

\* The reserved chars of a datagram's header.
UdpHead(m, reverse) == ConvertNChar(m, reverse, "rsv", 0, 0, 2)

NoReserved(m) == m[<<"rsv", 0>>] = 0 /\ m[<<"rsv", 1>>] = 0

UdpSpan == {} \union Span("rsv", 0, 2)
UdpFull == UdpSpan \union Span("frag", 0, 1)

LEMMA UdpStops ==
    ASSUME NEW m, NEW reverse, ~NoReserved(UdpHead(m, reverse))
    PROVE  UdpHeader(m, reverse) = Result(UdpHead(m, reverse), -1, 0)
BY DEF UdpHeader, UdpHead, NoReserved

LEMMA AtypResult ==
    ASSUME NEW m, NEW reverse, NEW off, NEW r, r = AtypAddrPort(m, reverse, off)
    PROVE  r = Result(r.mem, r.ret, r.header_size)
BY DEF AtypAddrPort, Result

\* The call that converts a datagram's address.
UdpRest(m, reverse) ==
    AtypAddrPort(ConvertChar(UdpHead(m, reverse), reverse, "frag", 2), reverse, 3)

UdpDone(r) == Result(r.mem, r.ret, (r.header_size + 3) % SizeMod)

LEMMA UdpGoesOn ==
    ASSUME NEW m, NEW reverse, NoReserved(UdpHead(m, reverse))
    PROVE  /\ UdpRest(m, reverse).ret = 0 => UdpHeader(m, reverse) = UdpDone(UdpRest(m, reverse))
           /\ UdpRest(m, reverse).ret # 0 => UdpHeader(m, reverse) = UdpRest(m, reverse)
<1> DEFINE r == UdpRest(m, reverse)
<1>1. UdpHeader(m, reverse) = IF r.ret # 0 THEN r
                              ELSE [r EXCEPT !.header_size = (@ + 3) % SizeMod]
    BY DEF UdpHeader, UdpHead, UdpRest, NoReserved
<1>2. r = Result(r.mem, r.ret, r.header_size)
    BY AtypResult DEF UdpRest
<1> HIDE DEF r
<1>3. [r EXCEPT !.header_size = (@ + 3) % SizeMod] = UdpDone(r)
    BY <1>2 DEF Result, UdpDone
<1> QED BY <1>1, <1>3 DEF r

\* The size of a datagram's header does not wrap.
LEMMA UdpSize ==
    ASSUME Addressed, Atyp \in Types
    PROVE  (AddressLen + 3) % SizeMod = 3 + AddressLen
<1>1. AddressLen \in Nat /\ AddressLen + 3 < SizeMod /\ SizeMod \in Nat
    BY NameSize, SizeFacts, TypeFacts DEF AddressLen, Addressed
<1> QED BY <1>1

UdpLies(e) == Lies(e, "rsv", 0, 0, 2) /\ Lies(e, "frag", 0, 2, 1)

LEMMA ReservedPart ==
    ASSUME given \in [Places -> Int]
    PROVE  HasLen(Part("rsv", 0, 2), 2) /\ Lies(Part("rsv", 0, 2), "rsv", 0, 0, 2)
<1>1. "rsv" \in Names /\ 0 \in Nat /\ 2 \in Nat /\ 0 + 2 <= Room
    BY NameFacts, SizeFacts
<1> QED BY <1>1, LiesPart

LEMMA UdpFacts ==
    ASSUME given \in [Places -> Int], NEW h, Extended(h, Part("rsv", 0, 2), "frag", 0, 1)
    PROVE  HasLen(h, 3) /\ UdpLies(h)
<1> DEFINE v == Part("rsv", 0, 2)
<1>1. /\ "rsv" \in Names /\ "frag" \in Names /\ 0 \in Nat /\ 1 \in Nat /\ 2 \in Nat
      /\ 0 + 1 <= Room /\ 3 = 2 + 1 /\ 0 + 2 <= 2
    BY SizeFacts, NameFacts
<1>2. Extended(h, v, "frag", 0, 1)
    OBVIOUS
<1>3. HasLen(v, 2) /\ Lies(v, "rsv", 0, 0, 2)
    BY ReservedPart
<1> HIDE DEF v
<1>4. HasLen(h, 3) /\ Lies(h, "frag", 0, 2, 1) /\ Keeps(h, v, 2)
    BY <1>1, <1>2, <1>3, Extend, Zenon
<1>5. Lies(h, "rsv", 0, 0, 2)
    BY <1>1, <1>3, <1>4, Keep, Zenon
<1> QED BY <1>4, <1>5 DEF UdpLies

LEMMA UdpWritten ==
    ASSUME Blank, NEW e, Lies(e, "rsv", 0, 0, 2)
    PROVE  /\ Wrote(UdpHead(given, TRUE), e, 2)
           /\ NoReserved(UdpHead(given, TRUE)) <=> NoReserved(given)
<1>1. /\ 0 \in Nat /\ 2 \in Nat /\ 0 + 2 <= Room /\ 2 = 0 + 2 /\ 2 <= 2 * Room
      /\ "rsv" \in Names /\ 0 \in Index /\ 1 \in Index
    BY SizeFacts, NameFacts DEF Index
<1>2. Wrote(given, e, 0)
    BY WroteNothing
<1>3. Wrote(UdpHead(given, TRUE), e, 2)
    BY <1>1, <1>2, WriteMore, Zenon DEF UdpHead
<1>4. NoReserved(UdpHead(given, TRUE)) <=> NoReserved(given)
    BY <1>1, <1>3 DEF Wrote, NoReserved
<1> QED BY <1>3, <1>4

LEMMA UdpRead ==
    ASSUME NEW m, NEW e, NEW l \in Nat, 2 <= l, l <= 2 * Room, Back(m, e, l, {}),
           Lies(e, "rsv", 0, 0, 2)
    PROVE  /\ Back(UdpHead(m, FALSE), e, l, UdpSpan)
           /\ NoReserved(UdpHead(m, FALSE)) <=> NoReserved(given)
<1>1. /\ 0 \in Nat /\ 2 \in Nat /\ 0 + 2 <= Room /\ 0 + 2 <= l
      /\ "rsv" \in Names /\ 0 \in Index /\ 1 \in Index
    BY SizeFacts, NameFacts DEF Index
<1>2. Back(UdpHead(m, FALSE), e, l, UdpSpan)
    BY <1>1, ReadMore, Zenon DEF UdpHead, UdpSpan
<1>3. <<"rsv", 0>> \in UdpSpan /\ <<"rsv", 1>> \in UdpSpan
    BY DEF UdpSpan, Span
<1>4. NoReserved(UdpHead(m, FALSE)) <=> NoReserved(given)
    BY <1>1, <1>2, <1>3 DEF Back, NoReserved
<1> QED BY <1>2, <1>4

\* The header size returned.
SizeIs(r, l) == r.header_size = l

LEMMA UdpConverts ==
    ASSUME Blank, Addressed, NEW h, HasLen(h, 3), UdpLies(h), NoReserved(given),
           NEW e, NEW l, Carries(e, h, 3, l)
    PROVE  /\ HasLen(e, l) /\ l <= 2 * Room
           /\ Atyp \in Types =>
                Sent(UdpHeader(given, TRUE), e, l) /\ SizeIs(UdpHeader(given, TRUE), l)
           /\ Atyp \notin Types => Stopped(UdpHeader(given, TRUE), e, l)
           /\ \A m : Back(m, e, l, {}) =>
                /\ Atyp \in Types => /\ Got(UdpHeader(m, FALSE), e, l, AddressSpan(UdpFull))
                                     /\ SizeIs(UdpHeader(m, FALSE), l)
                /\ Atyp \notin Types =>
                     GaveUp(UdpHeader(m, FALSE), e, l, UdpFull \union Span("atyp", 0, 1))
<1>1. /\ 3 \in Nat /\ 3 <= 3 /\ 3 = 2 + 1 /\ 2 \in Nat /\ 2 < 2 * Room /\ 0 \in Nat /\ 1 \in Nat
      /\ 0 + 2 <= 3 /\ 2 + 1 <= 3 /\ "frag" \in Names
    BY NameFacts, SizeFacts
<1>2. HasLen(e, l) /\ l <= 2 * Room /\ 3 + 1 <= l /\ Keeps(e, h, 3) /\ HasAddress(e, 3)
    BY <1>1, CarriesFacts, Zenon
<1>3. l \in Nat /\ 2 <= l /\ 2 + 1 <= l
    BY <1>2 DEF HasLen
<1>4. Lies(e, "rsv", 0, 0, 2) /\ Lies(e, "frag", 0, 2, 1)
    BY <1>1, <1>2, Keep, Zenon DEF UdpLies
<1>5. /\ Atyp \in Types => l = 3 + AddressLen
      /\ Atyp \notin Types => l = 3 + 1
    BY DEF Carries
<1>6. /\ Atyp \in Types =>
           Sent(UdpHeader(given, TRUE), e, l) /\ UdpHeader(given, TRUE).header_size = l
      /\ Atyp \notin Types => Stopped(UdpHeader(given, TRUE), e, l)
  <2> DEFINE b == UdpHead(given, TRUE)
             a == ConvertChar(b, TRUE, "frag", 2)
             r == AtypAddrPort(a, TRUE, 3)
             u == UdpHeader(given, TRUE)
             z == UdpDone(r)
  <2>1. Wrote(b, e, 2) /\ NoReserved(b)
      BY <1>4, UdpWritten
  <2>2. /\ r.ret = 0 => u = z
        /\ r.ret # 0 => u = r
      BY <2>1, UdpGoesOn DEF UdpRest
  <2> HIDE DEF b, u
  <2>3. Wrote(a, e, 3)
      BY <1>1, <1>4, <2>1, WriteChar, Zenon
  <2> HIDE DEF a
  <2>4. EncodedAddress(r, e, 3)
      BY <1>1, <1>2, <2>3, EncodeAddress, Zenon DEF HasAddress
  <2> HIDE DEF r
  <2>5. z.mem = r.mem /\ z.ret = r.ret /\ z.header_size = (r.header_size + 3) % SizeMod
      BY DEF UdpDone, Result
  <2> HIDE DEF z
  <2>6. ASSUME Atyp \in Types
        PROVE  Sent(u, e, l) /\ u.header_size = l
    <3>1. r.ret = 0 /\ r.header_size = AddressLen
        BY <2>4, <2>6 DEF EncodedAddress
    <3>2. u = z /\ z.header_size = 3 + AddressLen
        BY <2>2, <2>5, <2>6, <3>1, UdpSize
    <3>3. Sent(z, e, l)
        BY <1>5, <2>4, <2>5, <2>6, SentAddress, Zenon
    <3> QED BY <1>5, <2>6, <3>2, <3>3, Zenon
  <2>7. ASSUME Atyp \notin Types
        PROVE  Stopped(u, e, l)
    <3>1. r.ret = -1
        BY <2>4, <2>7 DEF EncodedAddress
    <3>2. u = r
        BY <2>2, <3>1
    <3>3. Stopped(r, e, l)
        BY <1>5, <2>4, <2>7, SentAddress, Zenon
    <3> QED BY <3>2, <3>3, Zenon
  <2> QED BY <2>6, <2>7 DEF u
<1>7. ASSUME NEW m, Back(m, e, l, {})
      PROVE  /\ Atyp \in Types => /\ Got(UdpHeader(m, FALSE), e, l, AddressSpan(UdpFull))
                                  /\ UdpHeader(m, FALSE).header_size = l
             /\ Atyp \notin Types =>
                  GaveUp(UdpHeader(m, FALSE), e, l, UdpFull \union Span("atyp", 0, 1))
  <2> DEFINE b == UdpHead(m, FALSE)
             a == ConvertChar(b, FALSE, "frag", 2)
             r == AtypAddrPort(a, FALSE, 3)
             u == UdpHeader(m, FALSE)
             z == UdpDone(r)
  <2>1. Back(b, e, l, UdpSpan) /\ NoReserved(b)
      BY <1>2, <1>3, <1>4, <1>7, UdpRead
  <2>2. /\ r.ret = 0 => u = z
        /\ r.ret # 0 => u = r
      BY <2>1, UdpGoesOn DEF UdpRest
  <2> HIDE DEF b, u
  <2>3. Back(a, e, l, UdpFull)
      BY <1>1, <1>2, <1>3, <1>4, <2>1, ReadChar, Zenon DEF UdpFull
  <2> HIDE DEF a
  <2>4. DecodedAddress(r, e, l, UdpFull)
    <3>1. Atyp \in Types => AddressLies(e, 3) /\ 3 + AddressLen <= l
        BY <1>2, <1>3, <1>5 DEF HasAddress
    <3> QED BY <1>1, <1>2, <1>3, <2>3, <3>1, DecodeAddress, Zenon DEF HasAddress
  <2> HIDE DEF r
  <2>5. z.mem = r.mem /\ z.ret = r.ret /\ z.header_size = (r.header_size + 3) % SizeMod
      BY DEF UdpDone, Result
  <2> HIDE DEF z
  <2>6. ASSUME Atyp \in Types
        PROVE  Got(u, e, l, AddressSpan(UdpFull)) /\ u.header_size = l
    <3>1. r.ret = 0 /\ r.header_size = AddressLen
        BY <2>4, <2>6 DEF DecodedAddress
    <3>2. u = z /\ z.header_size = 3 + AddressLen
        BY <2>2, <2>5, <2>6, <3>1, UdpSize
    <3>3. Got(z, e, l, AddressSpan(UdpFull))
        BY <2>4, <2>5, <2>6, GotAddress, Zenon
    <3> QED BY <1>5, <2>6, <3>2, <3>3, Zenon
  <2>7. ASSUME Atyp \notin Types
        PROVE  GaveUp(u, e, l, UdpFull \union Span("atyp", 0, 1))
    <3>1. r.ret = -1
        BY <2>4, <2>7 DEF DecodedAddress
    <3>2. u = r
        BY <2>2, <3>1
    <3>3. GaveUp(r, e, l, UdpFull \union Span("atyp", 0, 1))
        BY <2>4, <2>7, GotAddress, Zenon
    <3> QED BY <3>2, <3>3, Zenon
  <2> QED BY <2>6, <2>7 DEF u
<1> QED BY <1>2, <1>6, <1>7 DEF SizeIs

LEMMA UdpRefuses ==
    ASSUME Blank, NEW h, HasLen(h, 2), Lies(h, "rsv", 0, 0, 2), ~NoReserved(given)
    PROVE  /\ 2 <= 2 * Room
           /\ Stopped(UdpHeader(given, TRUE), h, 2)
           /\ \A m : Back(m, h, 2, {}) => GaveUp(UdpHeader(m, FALSE), h, 2, UdpSpan)
<1>1. 2 \in Nat /\ 2 <= 2 /\ 2 <= 2 * Room
    BY SizeFacts
<1>2. Stopped(UdpHeader(given, TRUE), h, 2)
  <2> DEFINE a == UdpHead(given, TRUE)
  <2>1. Wrote(a, h, 2) /\ ~NoReserved(a)
      BY UdpWritten
  <2>2. UdpHeader(given, TRUE) = Result(a, -1, 0)
      BY <2>1, UdpStops
  <2> HIDE DEF a
  <2> QED BY <2>1, <2>2, StoppedResult
<1>3. ASSUME NEW m, Back(m, h, 2, {})
      PROVE  GaveUp(UdpHeader(m, FALSE), h, 2, UdpSpan)
  <2> DEFINE a == UdpHead(m, FALSE)
  <2>1. Back(a, h, 2, UdpSpan) /\ ~NoReserved(a)
      BY <1>1, <1>3, UdpRead
  <2>2. UdpHeader(m, FALSE) = Result(a, -1, 0)
      BY <2>1, UdpStops
  <2> HIDE DEF a
  <2> QED BY <2>1, <2>2, GaveUpResult
<1> QED BY <1>1, <1>2, <1>3

\* An address alone: e is its bytes, or its type.
LEMMA AddressConverts ==
    ASSUME Blank, Addressed, NEW e, NEW l,
           Atyp \in Types => e = AddressBytes /\ l = AddressLen,
           Atyp \notin Types => e = Part("atyp", 0, 1) /\ l = 1
    PROVE  /\ HasLen(e, l) /\ l <= 2 * Room
           /\ Atyp \in Types => /\ Sent(AtypAddrPort(given, TRUE, 0), e, l)
                                /\ AtypAddrPort(given, TRUE, 0).header_size = l
           /\ Atyp \notin Types => Stopped(AtypAddrPort(given, TRUE, 0), e, l)
           /\ \A m : Back(m, e, l, {}) =>
                /\ Atyp \in Types => /\ Got(AtypAddrPort(m, FALSE, 0), e, l, AddressSpan({}))
                                     /\ AtypAddrPort(m, FALSE, 0).header_size = l
                /\ Atyp \notin Types =>
                     GaveUp(AtypAddrPort(m, FALSE, 0), e, l, {} \union Span("atyp", 0, 1))
<1>1. HasLen(e, l) /\ HasAddress(e, 0)
  <2>1. Atyp \in Types => HasLen(AddressBytes, AddressLen) /\ AddressLies(AddressBytes, 0)
      BY AddressBytesFacts
  <2>2. HasLen(Part("atyp", 0, 1), 1) /\ Lies(Part("atyp", 0, 1), "atyp", 0, 0, 1)
      BY OneChar, TypeFacts DEF Blank
  <2>3. CASE Atyp \in Types
      BY <2>1, <2>3 DEF HasAddress, AddressLies
  <2>4. CASE Atyp \notin Types
      BY <2>2, <2>4 DEF HasAddress
  <2> QED BY <2>3, <2>4
<1>2. /\ Atyp \in Types => l = AddressLen /\ 0 + AddressLen = l
      /\ Atyp \notin Types => l = 0 + 1
  <2>1. Atyp \in Types => AddressLen \in Nat
      BY NameSize, TypeFacts DEF AddressLen, Addressed
  <2> QED BY <2>1
<1>3. l \in Nat /\ l <= 2 * Room /\ 0 + 1 <= l /\ 0 \in Nat /\ 0 <= 3
  <2>1. Atyp \in Types => AddressLen \in Nat /\ AddressLen >= 1 /\ AddressLen <= 2 * Room
      BY NameSize, SizeFacts, TypeFacts DEF AddressLen, Addressed
  <2> QED BY <1>2, <2>1, SizeFacts
<1>4. ASSUME NEW r, EncodedAddress(r, e, 0)
      PROVE  /\ Atyp \in Types => Sent(r, e, l) /\ r.header_size = l
             /\ Atyp \notin Types => Stopped(r, e, l)
    BY <1>2, <1>4 DEF EncodedAddress, Sent, Stopped
<1>5. ASSUME NEW r, DecodedAddress(r, e, l, {})
      PROVE  /\ Atyp \in Types => Got(r, e, l, AddressSpan({})) /\ r.header_size = l
             /\ Atyp \notin Types => GaveUp(r, e, l, {} \union Span("atyp", 0, 1))
    BY <1>2, <1>5 DEF DecodedAddress, Got, GaveUp
<1>6. EncodedAddress(AtypAddrPort(given, TRUE, 0), e, 0)
  <2>1. Wrote(given, e, 0)
      BY WroteNothing
  <2> QED BY <1>1, <1>3, <2>1, EncodeAddress, Zenon DEF HasAddress
<1>7. ASSUME NEW m, Back(m, e, l, {})
      PROVE  DecodedAddress(AtypAddrPort(m, FALSE, 0), e, l, {})
  <2>1. Atyp \in Types => AddressLies(e, 0) /\ 0 + AddressLen <= l
      BY <1>1, <1>2, <1>3 DEF HasAddress
  <2> QED BY <1>1, <1>3, <1>7, <2>1, DecodeAddress, Zenon DEF HasAddress
<1>8. /\ Atyp \in Types => /\ Sent(AtypAddrPort(given, TRUE, 0), e, l)
                           /\ AtypAddrPort(given, TRUE, 0).header_size = l
      /\ Atyp \notin Types => Stopped(AtypAddrPort(given, TRUE, 0), e, l)
    BY <1>4, <1>6, Zenon
<1>9. ASSUME NEW m, Back(m, e, l, {})
      PROVE  /\ Atyp \in Types => /\ Got(AtypAddrPort(m, FALSE, 0), e, l, AddressSpan({}))
                                  /\ AtypAddrPort(m, FALSE, 0).header_size = l
             /\ Atyp \notin Types =>
                  GaveUp(AtypAddrPort(m, FALSE, 0), e, l, {} \union Span("atyp", 0, 1))
    BY <1>5, <1>7, <1>9, Zenon
<1> QED BY <1>1, <1>3, <1>8, <1>9

-----------------------------------------------------------------------------
(***************************************************************************)
(* The messages the callers are given.                                     *)
(***************************************************************************)
\* An array with nothing behind its first n chars.
Field(a, n) == a \in [Index -> Int] /\ \A j \in Index : j >= n => a[j] = Unset

LEMMA ArrayField ==
    ASSUME NEW s, NEW n, HasLen(s, n)
    PROVE  Field(Array(s), n) /\ (n # 0 => Array(s)[0] = s[1])
<1>1. /\ s \in Seq(Int) /\ n \in Nat /\ Len(s) = n /\ Unset \in Int
      /\ \A j \in Index : j \in Int /\ j >= 0
      /\ 0 \in Index
    BY SizeFacts DEF HasLen, Unset, Index
<1>2. \A j \in Index : j < n => s[j + 1] \in Int
  <2>1. \A j \in Index : j < n => j + 1 \in 1..Len(s)
      BY <1>1
  <2>2. \A k \in 1..Len(s) : s[k] \in Int
      BY <1>1
  <2> QED BY <2>1, <2>2
<1>3. Array(s) = [k \in Index |-> IF k < n THEN s[k + 1] ELSE Unset]
    BY <1>1 DEF Array, Index
<1>4. Array(s) \in [Index -> Int]
    BY <1>1, <1>2, <1>3
<1>5. \A j \in Index : j >= n => Array(s)[j] = Unset
    BY <1>1, <1>3
<1>6. n # 0 => Array(s)[0] = s[1]
    BY <1>1, <1>3
<1> QED BY <1>4, <1>5, <1>6 DEF Field

LEMMA OneField ==
    ASSUME NEW b \in Int
    PROVE  Field(One(b), 1) /\ One(b)[0] = b
<1>1. HasLen(<<b>>, 1) /\ <<b>>[1] = b
    BY DEF HasLen
<1> HIDE DEF Field
<1>2. Field(Array(<<b>>), 1) /\ Array(<<b>>)[0] = b
    BY <1>1, ArrayField
<1> QED BY <1>2 DEF One

LEMMA BytesLen ==
    ASSUME NEW fill \in Fillings, NEW n \in Nat, NEW from \in Nat, from >= 1, from + n - 1 <= Room
    PROVE  HasLen(Bytes(n, fill, from), n) /\ \A k \in 1..n : Bytes(n, fill, from)[k] \in Int
<1>1. fill \in [1..Room -> 0..(CharMod - 1)] /\ Room \in Nat /\ CharMod \in Nat
    BY CallersAssumption, ConvertAssumption
<1>2. \A k \in 1..n : from + k - 1 \in 1..Room
    BY <1>1
<1>3. \A k \in 1..n : fill[from + k - 1] \in Int
    BY <1>1, <1>2
<1>4. Bytes(n, fill, from) \in Seq(Int) /\ Len(Bytes(n, fill, from)) = n
    BY <1>3 DEF Bytes
<1> QED BY <1>3, <1>4 DEF Bytes, HasLen

LEMMA BytesField ==
    ASSUME NEW fill \in Fillings, NEW n \in Nat, NEW from \in Nat, from >= 1, from + n - 1 <= Room
    PROVE  Field(Array(Bytes(n, fill, from)), n)
BY BytesLen, ArrayField

LEMMA FillInt ==
    ASSUME NEW fill \in Fillings
    PROVE  fill[1] \in Int
<1>1. fill \in [1..Room -> 0..(CharMod - 1)] /\ 1 \in 1..Room /\ CharMod \in Nat
    BY CallersAssumption, ConvertAssumption
<1> QED BY <1>1

\* Fields that hold nothing outside S.
Fills(f, S) ==
    /\ DOMAIN f \subseteq Names
    /\ \A name \in DOMAIN f : f[name] \in [Index -> Int]
    /\ \A name \in DOMAIN f : \A j \in Index : f[name][j] # Unset => <<name, j>> \in S

LEMMA FieldSpan ==
    ASSUME NEW a, NEW n \in Nat, Field(a, n), NEW name, NEW j \in Index, a[j] # Unset
    PROVE  <<name, j>> \in Span(name, 0, n)
<1>1. j \in 0..(0 + n - 1)
    BY SizeFacts DEF Field, Index
<1> QED BY <1>1 DEF Span

\* Unset outside S.
UnsetOutside(S) ==
    \A name \in Names, j \in Index : <<name, j>> \notin S => given[<<name, j>>] = Unset

LEMMA GivenFields ==
    ASSUME NEW f, NEW S, Fills(f, S), given = Memory(f, BlankData)
    PROVE  /\ Blank /\ UnsetOutside(S)
           /\ \A name \in DOMAIN f, j \in Index : given[<<name, j>>] = f[name][j]
           /\ \A name \in Names \ DOMAIN f, j \in Index : given[<<name, j>>] = Unset
<1> DEFINE g == Memory(f, BlankData)
<1>1. \A k \in 0..(2 * Room - 1) : g[<<"data", k>>] = Unset
    BY PlaceFacts DEF Memory, BlankData
<1>2. /\ \A name \in DOMAIN f, j \in Index : g[<<name, j>>] = f[name][j]
      /\ \A name \in Names \ DOMAIN f, j \in Index : g[<<name, j>>] = Unset
    BY PlaceFacts, SizeFacts DEF Memory, Fills
<1>3. DOMAIN g = Places /\ g = [p \in Places |-> g[p]]
    BY DEF Memory
<1> HIDE DEF g
<1>4. ASSUME NEW name \in Names, NEW j \in Index
      PROVE  g[<<name, j>>] \in Int /\ (<<name, j>> \notin S => g[<<name, j>>] = Unset)
  <2>1. Unset \in Int
      BY DEF Unset
  <2> QED BY <1>2, <2>1 DEF Fills
<1>5. \A p \in Places : g[p] \in Int
  <2>1. Unset \in Int
      BY DEF Unset
  <2> QED BY <1>1, <1>4, <2>1, PlaceFacts
<1>6. g \in [Places -> Int]
    BY <1>3, <1>5
<1>7. given = g
    BY DEF g
<1>8. Blank /\ UnsetOutside(S)
    BY <1>1, <1>4, <1>6, <1>7 DEF Blank, UnsetOutside
<1> QED BY <1>2, <1>7, <1>8

\* The message of the callers.
Given ==
    /\ kind \in Kinds
    /\ \E fill \in Fillings : \E f \in Messages(kind, fill) : given = Memory(f, BlankData)

LEMMA LengthsInt == \A n \in Lengths : n \in Int /\ n \in Nat /\ 1 + n - 1 <= Room /\ 2 + n - 1 <= Room
BY SizeFacts

\* A message without an address.
Plain == Atyp = Unset /\ ~IsName

LEMMA PlainFacts ==
    ASSUME given[<<"atyp", 0>>] = Unset
    PROVE  Plain
BY TypeFacts DEF Plain, Atyp, Unset

LEMMA GivenMothedC ==
    ASSUME Given, kind = "mothed_c"
    PROVE  \E n \in Lengths :
              /\ n = given[<<"nmethods", 0>>] /\ Blank /\ Plain
              /\ UnsetOutside({} \union Span("ver", 0, 1) \union Span("nmethods", 0, 1)
                                \union Span("methods", 0, n))
<1>1. PICK fill \in Fillings, n \in Lengths :
         given = Memory([ver |-> One(5), nmethods |-> One(n), methods |-> Array(Bytes(n, fill, 1))],
                        BlankData)
    BY DEF Given, Messages
<1> DEFINE x == One(5)
           y == One(n)
           z == Array(Bytes(n, fill, 1))
           f == [ver |-> x, nmethods |-> y, methods |-> z]
           S == {} \union Span("ver", 0, 1) \union Span("nmethods", 0, 1) \union Span("methods", 0, n)
<1>2. Field(x, 1) /\ Field(y, 1) /\ y[0] = n /\ Field(z, n) /\ n \in Nat
    BY OneField, BytesField, LengthsInt
<1>3. given = Memory(f, BlankData)
    BY <1>1
<1> HIDE DEF x, y, z
<1>4. /\ DOMAIN f = {"ver", "nmethods", "methods"}
      /\ f["ver"] = x /\ f["nmethods"] = y /\ f["methods"] = z
    OBVIOUS
<1> HIDE DEF f
<1>5. Fills(f, S)
  <2>1. DOMAIN f \subseteq Names
      BY <1>4, NameFacts
  <2>2. \A name \in DOMAIN f : f[name] \in [Index -> Int]
      BY <1>2, <1>4 DEF Field
  <2>3. ASSUME NEW name \in DOMAIN f, NEW j \in Index, f[name][j] # Unset
        PROVE  <<name, j>> \in S
    <3>1. CASE name = "ver"
        BY <1>2, <1>4, <2>3, <3>1, FieldSpan
    <3>2. CASE name = "nmethods"
        BY <1>2, <1>4, <2>3, <3>2, FieldSpan
    <3>3. CASE name = "methods"
        BY <1>2, <1>4, <2>3, <3>3, FieldSpan
    <3> QED BY <1>4, <3>1, <3>2, <3>3
  <2> QED BY <2>1, <2>2, <2>3 DEF Fills
<1> HIDE DEF S
<1>6. /\ Blank /\ UnsetOutside(S)
      /\ \A name \in DOMAIN f, j \in Index : given[<<name, j>>] = f[name][j]
      /\ \A name \in Names \ DOMAIN f, j \in Index : given[<<name, j>>] = Unset
    BY <1>3, <1>5, GivenFields, Zenon
<1>7. n = given[<<"nmethods", 0>>] /\ given[<<"atyp", 0>>] = Unset
    BY <1>2, <1>4, <1>6, TypeFacts
<1>8. Plain
    BY <1>7, PlainFacts
<1> QED BY <1>6, <1>7, <1>8 DEF S

LEMMA GivenTwoChars ==
    ASSUME Given, NEW name,
           (kind = "mothed_r" /\ name = "method") \/ (kind = "auth_pass_r" /\ name = "status")
    PROVE  Blank /\ Plain /\ UnsetOutside({} \union Span("ver", 0, 1) \union Span(name, 0, 1))
<1> DEFINE S == {} \union Span("ver", 0, 1) \union Span(name, 0, 1)
<1>1. \E fill \in Fillings : \E f :
         /\ given = Memory(f, BlankData) /\ DOMAIN f = {"ver", name}
         /\ f["ver"] = One(5) /\ f[name] = One(fill[1])
  <2>1. CASE kind = "mothed_r" /\ name = "method"
    <3>1. PICK fill \in Fillings :
             given = Memory([ver |-> One(5), method |-> One(fill[1])], BlankData)
        BY <2>1 DEF Given, Messages
    <3> DEFINE f == [ver |-> One(5), method |-> One(fill[1])]
    <3>2. /\ given = Memory(f, BlankData) /\ DOMAIN f = {"ver", name}
          /\ f["ver"] = One(5) /\ f[name] = One(fill[1])
        BY <2>1, <3>1
    <3> HIDE DEF f
    <3> QED BY <3>2
  <2>2. CASE kind = "auth_pass_r" /\ name = "status"
    <3>1. PICK fill \in Fillings :
             given = Memory([ver |-> One(5), status |-> One(fill[1])], BlankData)
        BY <2>2 DEF Given, Messages
    <3> DEFINE f == [ver |-> One(5), status |-> One(fill[1])]
    <3>2. /\ given = Memory(f, BlankData) /\ DOMAIN f = {"ver", name}
          /\ f["ver"] = One(5) /\ f[name] = One(fill[1])
        BY <2>2, <3>1
    <3> HIDE DEF f
    <3> QED BY <3>2
  <2> QED BY <2>1, <2>2
<1>0. PICK fill \in Fillings : \E f :
         /\ given = Memory(f, BlankData) /\ DOMAIN f = {"ver", name}
         /\ f["ver"] = One(5) /\ f[name] = One(fill[1])
    BY <1>1
<1>2. PICK f :
         /\ given = Memory(f, BlankData) /\ DOMAIN f = {"ver", name}
         /\ f["ver"] = One(5) /\ f[name] = One(fill[1])
    BY <1>0
<1>3. Field(f["ver"], 1) /\ Field(f[name], 1) /\ name \in Names /\ name # "atyp"
    BY <1>2, OneField, FillInt, NameFacts
<1>4. Fills(f, S)
  <2>1. DOMAIN f \subseteq Names /\ \A nm \in DOMAIN f : f[nm] \in [Index -> Int]
      BY <1>2, <1>3, NameFacts DEF Field
  <2>2. ASSUME NEW nm \in DOMAIN f, NEW j \in Index, f[nm][j] # Unset
        PROVE  <<nm, j>> \in S
    <3>1. nm = "ver" \/ nm = name
        BY <1>2
    <3> QED BY <1>3, <2>2, <3>1, FieldSpan
  <2> QED BY <2>1, <2>2 DEF Fills
<1> HIDE DEF S
<1>5. /\ Blank /\ UnsetOutside(S)
      /\ \A nm \in Names \ DOMAIN f, j \in Index : given[<<nm, j>>] = Unset
    BY <1>2, <1>4, GivenFields, Zenon
<1>6. Plain
  <2>1. "atyp" \in Names \ DOMAIN f /\ 0 \in Index
      BY <1>2, <1>3, TypeFacts
  <2> QED BY <1>5, <2>1, PlainFacts
<1> QED BY <1>5, <1>6 DEF S

LEMMA GivenAuthPassC ==
    ASSUME Given, kind = "auth_pass_c"
    PROVE  \E u, p \in Lengths :
              /\ u = given[<<"ulen", 0>>] /\ p = given[<<"plen", 0>>] /\ Blank /\ Plain
              /\ UnsetOutside({} \union Span("ver", 0, 1) \union Span("ulen", 0, 1)
                                \union Span("uname", 0, u) \union Span("plen", 0, 1)
                                \union Span("passwd", 0, p))
<1>1. PICK fill \in Fillings, u \in Lengths, p \in Lengths :
         given = Memory([ver |-> One(5), ulen |-> One(u), uname |-> Array(Bytes(u, fill, 1)),
                         plen |-> One(p), passwd |-> Array(Bytes(p, fill, 2))], BlankData)
    BY DEF Given, Messages
<1> DEFINE x == One(5)
           y == One(u)
           z == Array(Bytes(u, fill, 1))
           v == One(p)
           w == Array(Bytes(p, fill, 2))
           f == [ver |-> x, ulen |-> y, uname |-> z, plen |-> v, passwd |-> w]
           S == {} \union Span("ver", 0, 1) \union Span("ulen", 0, 1) \union Span("uname", 0, u)
                   \union Span("plen", 0, 1) \union Span("passwd", 0, p)
<1>2. /\ Field(x, 1) /\ Field(y, 1) /\ y[0] = u /\ Field(z, u) /\ u \in Nat
      /\ Field(v, 1) /\ v[0] = p /\ Field(w, p) /\ p \in Nat
    BY OneField, BytesField, LengthsInt
<1>3. given = Memory(f, BlankData)
    BY <1>1
<1> HIDE DEF x, y, z, v, w
<1>4. /\ DOMAIN f = {"ver", "ulen", "uname", "plen", "passwd"}
      /\ f["ver"] = x /\ f["ulen"] = y /\ f["uname"] = z /\ f["plen"] = v /\ f["passwd"] = w
    OBVIOUS
<1> HIDE DEF f
<1>5. Fills(f, S)
  <2>1. DOMAIN f \subseteq Names
      BY <1>4, NameFacts
  <2>2. \A name \in DOMAIN f : f[name] \in [Index -> Int]
      BY <1>2, <1>4 DEF Field
  <2>3. ASSUME NEW name \in DOMAIN f, NEW j \in Index, f[name][j] # Unset
        PROVE  <<name, j>> \in S
    <3>1. CASE name = "ver"
        BY <1>2, <1>4, <2>3, <3>1, FieldSpan
    <3>2. CASE name = "ulen"
        BY <1>2, <1>4, <2>3, <3>2, FieldSpan
    <3>3. CASE name = "uname"
        BY <1>2, <1>4, <2>3, <3>3, FieldSpan
    <3>4. CASE name = "plen"
        BY <1>2, <1>4, <2>3, <3>4, FieldSpan
    <3>5. CASE name = "passwd"
        BY <1>2, <1>4, <2>3, <3>5, FieldSpan
    <3> QED BY <1>4, <3>1, <3>2, <3>3, <3>4, <3>5
  <2> QED BY <2>1, <2>2, <2>3 DEF Fills
<1> HIDE DEF S
<1>6. /\ Blank /\ UnsetOutside(S)
      /\ \A name \in DOMAIN f, j \in Index : given[<<name, j>>] = f[name][j]
      /\ \A name \in Names \ DOMAIN f, j \in Index : given[<<name, j>>] = Unset
    BY <1>3, <1>5, GivenFields, Zenon
<1>7. u = given[<<"ulen", 0>>] /\ p = given[<<"plen", 0>>] /\ given[<<"atyp", 0>>] = Unset
    BY <1>2, <1>4, <1>6, TypeFacts
<1>8. Plain
    BY <1>7, PlainFacts
<1> QED BY <1>6, <1>7, <1>8 DEF S

\* An address as it is given.
GivenAddress(a) ==
    /\ DOMAIN a = {"atyp", "addr", "port"}
    /\ Field(a["atyp"], 1) /\ Field(a["port"], 2)
    /\ a["atyp"][0] = 1 => Field(a["addr"], 4)
    /\ a["atyp"][0] = 4 => Field(a["addr"], 16)
    /\ a["atyp"][0] = 2 => Field(a["addr"], 4)
    /\ a["atyp"][0] = 3 => \E n \in Lengths : /\ a["addr"][0] = n
                                              /\ Field(a["addr"], 1 + IF n < 2 THEN 2 ELSE n)
    /\ a["atyp"][0] \in {1, 2, 3, 4}

LEMMA GivenFixed ==
    ASSUME NEW fill \in Fillings, NEW t, NEW k, <<t, k>> \in {<<1, 4>>, <<4, 16>>, <<2, 4>>}
    PROVE  GivenAddress([atyp |-> One(t), addr |-> Array(Bytes(k, fill, 1)),
                         port |-> Array(Bytes(2, fill, 2))])
<1> DEFINE x == One(t)
           y == Array(Bytes(k, fill, 1))
           z == Array(Bytes(2, fill, 2))
           a == [atyp |-> x, addr |-> y, port |-> z]
<1>1. (t = 1 /\ k = 4) \/ (t = 4 /\ k = 16) \/ (t = 2 /\ k = 4)
    OBVIOUS
<1>2. t \in Int /\ k \in Nat /\ 1 + k - 1 <= Room /\ 2 + 2 - 1 <= Room
    BY <1>1, SizeFacts
<1>3. Field(x, 1) /\ x[0] = t
    BY <1>2, OneField
<1>4. Field(y, k) /\ Field(z, 2)
    BY <1>2, BytesField
<1> HIDE DEF x, y, z
<1>5. DOMAIN a = {"atyp", "addr", "port"} /\ a["atyp"] = x /\ a["addr"] = y /\ a["port"] = z
    OBVIOUS
<1> HIDE DEF a
<1>6. GivenAddress(a)
    BY <1>1, <1>3, <1>4, <1>5 DEF GivenAddress
<1> QED BY <1>6 DEF a, x, y, z

LEMMA GivenName ==
    ASSUME NEW fill \in Fillings, NEW n \in Lengths, NEW k, k = IF n < 2 THEN 2 ELSE n
    PROVE  GivenAddress([atyp |-> One(3), addr |-> Array(<<n>> \o Bytes(k, fill, 1)),
                         port |-> Array(Bytes(2, fill, 2))])
<1> DEFINE h == <<n>>
           b == Bytes(k, fill, 1)
           w == h \o b
           x == One(3)
           y == Array(w)
           z == Array(Bytes(2, fill, 2))
           a == [atyp |-> x, addr |-> y, port |-> z]
<1>1. /\ n \in Int /\ n \in Nat /\ k \in Nat /\ 1 + k - 1 <= Room /\ 2 + 2 - 1 <= Room
      /\ 1 \in 1..1 /\ 1 + k # 0
    BY LengthsInt, SizeFacts
<1>2. Field(x, 1) /\ x[0] = 3
    BY OneField
<1>3. Field(z, 2)
    BY <1>1, BytesField
<1>4. HasLen(h, 1) /\ h[1] = n
    BY <1>1 DEF HasLen
<1>5. HasLen(b, k)
    BY <1>1, BytesLen
<1>6. Cat(w, h, b)
    BY Zenon DEF Cat
<1> HIDE DEF h, b, w, x, z
<1>7. HasLen(w, 1 + k) /\ Follows(w, h, b, 1, k)
    BY <1>4, <1>5, <1>6, Joined
<1>8. w[1] = n
    BY <1>1, <1>4, <1>7 DEF Follows
<1>9. Field(y, 1 + k) /\ y[0] = n
    BY <1>1, <1>7, <1>8, ArrayField
<1> HIDE DEF y
<1>10. DOMAIN a = {"atyp", "addr", "port"} /\ a["atyp"] = x /\ a["addr"] = y /\ a["port"] = z
    OBVIOUS
<1> HIDE DEF a
<1>11. GivenAddress(a)
    BY <1>2, <1>3, <1>9, <1>10 DEF GivenAddress
<1> QED BY <1>11 DEF a, x, y, z, w, h, b

LEMMA AddressGiven ==
    ASSUME NEW fill \in Fillings, NEW a \in Addresses(fill)
    PROVE  GivenAddress(a)
<1>1. \/ a = [atyp |-> One(1), addr |-> Array(Bytes(4, fill, 1)), port |-> Array(Bytes(2, fill, 2))]
      \/ a = [atyp |-> One(4), addr |-> Array(Bytes(16, fill, 1)), port |-> Array(Bytes(2, fill, 2))]
      \/ a = [atyp |-> One(2), addr |-> Array(Bytes(4, fill, 1)), port |-> Array(Bytes(2, fill, 2))]
      \/ \E n \in Lengths :
           a = [atyp |-> One(3), addr |-> Array(<<n>> \o Bytes(IF n < 2 THEN 2 ELSE n, fill, 1)),
                port |-> Array(Bytes(2, fill, 2))]
    BY Zenon DEF Addresses, S5_ATYPE_IP4, S5_ATYPE_IP6, S5_ATYPE_DOMAINNAME
<1>2. CASE a = [atyp |-> One(1), addr |-> Array(Bytes(4, fill, 1)), port |-> Array(Bytes(2, fill, 2))]
    BY <1>2, GivenFixed
<1>3. CASE a = [atyp |-> One(4), addr |-> Array(Bytes(16, fill, 1)), port |-> Array(Bytes(2, fill, 2))]
    BY <1>3, GivenFixed
<1>4. CASE a = [atyp |-> One(2), addr |-> Array(Bytes(4, fill, 1)), port |-> Array(Bytes(2, fill, 2))]
    BY <1>4, GivenFixed
<1>5. CASE \E n \in Lengths :
             a = [atyp |-> One(3), addr |-> Array(<<n>> \o Bytes(IF n < 2 THEN 2 ELSE n, fill, 1)),
                  port |-> Array(Bytes(2, fill, 2))]
    BY <1>5, GivenName
<1> QED BY <1>1, <1>2, <1>3, <1>4, <1>5

\* The fields f are those of g and the address a.
Joint(f, g, a) ==
    /\ DOMAIN f = DOMAIN g \union DOMAIN a
    /\ \A name \in DOMAIN g : f[name] = g[name] /\ name \notin DOMAIN a
    /\ \A name \in DOMAIN a : f[name] = a[name]

\* The places of an address in a name of n chars.
LEMMA NameSpan ==
    ASSUME NEW n \in Lengths, NEW a, Field(a, 1 + IF n < 2 THEN 2 ELSE n),
           NEW j \in Index, a[j] # Unset
    PROVE  <<"addr", j>> \in Span("addr", 0, 1) \union Span("addr", 1, n) \union Span("addr", 1, 2)
<1>1. j \in Nat /\ n \in Nat
    BY SizeFacts, LengthsInt DEF Index
<1>2. j = 0 \/ j \in 1..n \/ j \in 1..2
    BY <1>1 DEF Field
<1>3. j \in 0..(0 + 1 - 1) \/ j \in 1..(1 + n - 1) \/ j \in 1..(1 + 2 - 1)
    BY <1>1, <1>2
<1> QED BY <1>3 DEF Span

LEMMA FieldOutside ==
    ASSUME NEW a, NEW n \in Nat, Field(a, n), NEW name, NEW j \in Index,
           <<name, j>> \notin Span(name, 0, n)
    PROVE  a[j] = Unset
BY FieldSpan

LEMMA GivenJoint ==
    ASSUME NEW f, NEW g, NEW a, NEW S, Joint(f, g, a), Fills(g, S), GivenAddress(a),
           given = Memory(f, BlankData)
    PROVE  /\ Blank /\ Addressed /\ (Atyp \in Types => OnlyAt(AddressSpan(S)))
           /\ \A name \in DOMAIN g, j \in Index : given[<<name, j>>] = g[name][j]
<1> DEFINE A == Names \X Index
<1>1. a["atyp"] \in [Index -> Int] /\ a["port"] \in [Index -> Int] /\ a["addr"] \in [Index -> Int]
    BY DEF GivenAddress, Field
<1>2. Fills(f, A)
  <2>1. DOMAIN f \subseteq Names
      BY TypeFacts DEF Joint, Fills, GivenAddress
  <2>2. \A name \in DOMAIN f : f[name] \in [Index -> Int]
      BY <1>1 DEF Joint, Fills, GivenAddress
  <2> QED BY <2>1, <2>2 DEF Fills
<1> HIDE DEF A
<1>3. /\ Blank
      /\ \A name \in DOMAIN f, j \in Index : given[<<name, j>>] = f[name][j]
      /\ \A name \in Names \ DOMAIN f, j \in Index : given[<<name, j>>] = Unset
    BY <1>2, GivenFields, Zenon
<1>4. /\ \A name \in DOMAIN g, j \in Index : given[<<name, j>>] = g[name][j]
      /\ \A j \in Index : /\ given[<<"atyp", j>>] = a["atyp"][j]
                          /\ given[<<"addr", j>>] = a["addr"][j]
                          /\ given[<<"port", j>>] = a["port"][j]
    BY <1>3 DEF Joint, GivenAddress
<1>5. Atyp = a["atyp"][0] /\ NameLen = a["addr"][0]
    BY <1>4, TypeFacts DEF Atyp, NameLen
<1>6. Addressed
  <2>1. Atyp \in Types \union {2}
      BY <1>5, TypeFacts DEF GivenAddress
  <2>2. IsName => NameLen \in Lengths
      BY <1>5, TypeFacts DEF GivenAddress
  <2> QED BY <1>3, <2>1, <2>2 DEF Addressed, Blank
<1>7. ASSUME Atyp \in Types, NEW name \in Names, NEW j \in Index,
             <<name, j>> \notin AddressSpan(S), ~(name = "port" /\ IsName)
      PROVE  given[<<name, j>>] = Unset
  <2>1. CASE name \in DOMAIN g
    <3>1. <<name, j>> \notin S
        BY <1>7 DEF AddressSpan
    <3> QED BY <1>4, <2>1, <3>1 DEF Fills
  <2>2. CASE name = "atyp"
    <3>1. <<"atyp", j>> \notin Span("atyp", 0, 1)
        BY <1>7, <2>2 DEF AddressSpan
    <3>2. Field(a["atyp"], 1) /\ 1 \in Nat
        BY DEF GivenAddress
    <3>3. a["atyp"][j] = Unset
        BY <3>1, <3>2, FieldOutside, Zenon
    <3> QED BY <1>4, <2>2, <3>3
  <2>3. CASE name = "port"
    <3>1. <<"port", j>> \notin Span("port", 0, 2)
        BY <1>7, <2>3, TypeFacts DEF AddressSpan
    <3>2. Field(a["port"], 2) /\ 2 \in Nat
        BY DEF GivenAddress
    <3>3. a["port"][j] = Unset
        BY <3>1, <3>2, FieldOutside, Zenon
    <3> QED BY <1>4, <2>3, <3>3
  <2>4. CASE name = "addr"
    <3>1. CASE Atyp = 1
      <4>1. <<"addr", j>> \notin Span("addr", 0, 4)
          BY <1>7, <2>4, <3>1 DEF AddressSpan
      <4>2. Field(a["addr"], 4) /\ 4 \in Nat
          BY <1>5, <3>1 DEF GivenAddress
      <4>3. a["addr"][j] = Unset
          BY <4>1, <4>2, FieldOutside, Zenon
      <4> QED BY <1>4, <2>4, <4>3
    <3>2. CASE Atyp = 4
      <4>1. <<"addr", j>> \notin Span("addr", 0, 16)
          BY <1>7, <2>4, <3>2 DEF AddressSpan
      <4>2. Field(a["addr"], 16) /\ 16 \in Nat
          BY <1>5, <3>2 DEF GivenAddress
      <4>3. a["addr"][j] = Unset
          BY <4>1, <4>2, FieldOutside, Zenon
      <4> QED BY <1>4, <2>4, <4>3
    <3>3. CASE Atyp = 3
      <4>1. PICK n \in Lengths : n = NameLen /\ Field(a["addr"], 1 + IF n < 2 THEN 2 ELSE n)
          BY <1>5, <3>3 DEF GivenAddress
      <4>2. <<"addr", j>> \notin Span("addr", 0, 1) \union Span("addr", 1, n) \union Span("addr", 1, 2)
          BY <1>7, <2>4, <3>3, <4>1 DEF AddressSpan
      <4>3. Field(a["addr"], 1 + IF n < 2 THEN 2 ELSE n)
          BY <4>1
      <4>4. a["addr"][j] = Unset
          BY <4>2, <4>3, NameSpan, Zenon
      <4> QED BY <1>4, <2>4, <4>4
    <3> QED BY <1>7, <3>1, <3>2, <3>3, TypeFacts
  <2>5. CASE name \notin DOMAIN f
      BY <1>3, <2>5
  <2>6. name \in DOMAIN f => name \in DOMAIN g \/ name \in {"atyp", "addr", "port"}
      BY DEF Joint, GivenAddress
  <2> QED BY <2>1, <2>2, <2>3, <2>4, <2>5, <2>6
<1>8. Atyp \in Types => OnlyAt(AddressSpan(S))
    BY <1>7 DEF OnlyAt
<1> QED BY <1>3, <1>4, <1>6, <1>8

LEMMA WithJoint ==
    ASSUME NEW g, NEW a, \A name \in DOMAIN g : name \notin DOMAIN a
    PROVE  Joint(With(g, a), g, a)
BY DEF Joint, With

LEMMA RequestFields ==
    ASSUME NEW name \in {"cmd", "rep"}, NEW fill \in Fillings, NEW r \in {0, 1},
           NEW a \in Addresses(fill), NEW g, DOMAIN g = {"ver", name, "rsv"},
           g["ver"] = One(5), g[name] = One(fill[1]), g["rsv"] = One(r),
           given = Memory(With(g, a), BlankData)
    PROVE  Blank /\ Addressed /\ (Atyp \in Types => OnlyAt(AddressSpan(HeadSpan(name))))
<1>3. Field(g["ver"], 1) /\ Field(g[name], 1) /\ Field(g["rsv"], 1) /\ name \in Names
    BY OneField, FillInt, NameFacts
<1>4. Fills(g, HeadSpan(name))
  <2>1. DOMAIN g \subseteq Names /\ \A nm \in DOMAIN g : g[nm] \in [Index -> Int]
      BY <1>3, NameFacts DEF Field
  <2>2. ASSUME NEW nm \in DOMAIN g, NEW j \in Index, g[nm][j] # Unset
        PROVE  <<nm, j>> \in HeadSpan(name)
    <3>1. nm = "ver" \/ nm = name \/ nm = "rsv"
        OBVIOUS
    <3>2. <<nm, j>> \in Span(nm, 0, 1)
        BY <1>3, <2>2, <3>1, FieldSpan
    <3> QED BY <3>1, <3>2 DEF HeadSpan
  <2> QED BY <2>1, <2>2 DEF Fills
<1>5. GivenAddress(a)
    BY AddressGiven
<1>6. Joint(With(g, a), g, a)
  <2>1. \A nm \in DOMAIN g : nm \notin DOMAIN a
      BY <1>5 DEF GivenAddress
  <2> QED BY <2>1, WithJoint
<1> DEFINE f == With(g, a)
<1>7. Joint(f, g, a) /\ given = Memory(f, BlankData)
    BY <1>6
<1> HIDE DEF f
<1> QED BY <1>4, <1>5, <1>7, GivenJoint, Zenon

\* What is given of a request or a reply.
LEMMA GivenRequest ==
    ASSUME Given, NEW name, (kind = "request" /\ name = "cmd") \/ (kind = "replie" /\ name = "rep")
    PROVE  Blank /\ Addressed /\ (Atyp \in Types => OnlyAt(AddressSpan(HeadSpan(name))))
<1>1. CASE kind = "request" /\ name = "cmd"
  <2>1. PICK fill \in Fillings : \E f \in Messages("request", fill) : given = Memory(f, BlankData)
      BY <1>1 DEF Given
  <2>2. PICK e \in Messages("request", fill) : given = Memory(e, BlankData)
      BY <2>1
  <2>3. Messages("request", fill)
          = {With([ver |-> One(5), cmd |-> One(fill[1]), rsv |-> One(r)], a) :
               r \in {0, 1}, a \in Addresses(fill)}
      BY DEF Messages
  <2>4. PICK r \in {0, 1}, a \in Addresses(fill) :
           e = With([ver |-> One(5), cmd |-> One(fill[1]), rsv |-> One(r)], a)
      BY <2>3
  <2> DEFINE g == [ver |-> One(5), cmd |-> One(fill[1]), rsv |-> One(r)]
  <2>5. given = Memory(With(g, a), BlankData)
      BY <2>2, <2>4
  <2>6. /\ DOMAIN g = {"ver", name, "rsv"}
        /\ g["ver"] = One(5) /\ g[name] = One(fill[1]) /\ g["rsv"] = One(r)
      BY <1>1
  <2> HIDE DEF g
  <2> QED BY <1>1, <2>5, <2>6, RequestFields, Zenon
<1>2. CASE kind = "replie" /\ name = "rep"
  <2>1. PICK fill \in Fillings : \E f \in Messages("replie", fill) : given = Memory(f, BlankData)
      BY <1>2 DEF Given
  <2>2. PICK e \in Messages("replie", fill) : given = Memory(e, BlankData)
      BY <2>1
  <2>3. Messages("replie", fill)
          = {With([ver |-> One(5), rep |-> One(fill[1]), rsv |-> One(r)], a) :
               r \in {0, 1}, a \in Addresses(fill)}
      BY DEF Messages
  <2>4. PICK r \in {0, 1}, a \in Addresses(fill) :
           e = With([ver |-> One(5), rep |-> One(fill[1]), rsv |-> One(r)], a)
      BY <2>3
  <2> DEFINE g == [ver |-> One(5), rep |-> One(fill[1]), rsv |-> One(r)]
  <2>5. given = Memory(With(g, a), BlankData)
      BY <2>2, <2>4
  <2>6. /\ DOMAIN g = {"ver", name, "rsv"}
        /\ g["ver"] = One(5) /\ g[name] = One(fill[1]) /\ g["rsv"] = One(r)
      BY <1>2
  <2> HIDE DEF g
  <2> QED BY <1>2, <2>5, <2>6, RequestFields, Zenon
<1> QED BY <1>1, <1>2

LEMMA GivenUdp ==
    ASSUME Given, kind = "udp_header"
    PROVE  Blank /\ Addressed /\ (Atyp \in Types => OnlyAt(AddressSpan(UdpFull)))
<1>k. PICK fill \in Fillings : \E f \in Messages("udp_header", fill) : given = Memory(f, BlankData)
    BY DEF Given
<1>f. PICK e \in Messages("udp_header", fill) : given = Memory(e, BlankData)
    BY <1>k
<1>m. Messages("udp_header", fill)
        = {With([rsv |-> Array(<<r, q>>), frag |-> One(fill[1])], a) :
             r, q \in {0, 1}, a \in Addresses(fill)}
    BY DEF Messages
<1>1. PICK r \in {0, 1}, q \in {0, 1}, a \in Addresses(fill) :
         e = With([rsv |-> Array(<<r, q>>), frag |-> One(fill[1])], a)
    BY <1>m
<1> DEFINE x == Array(<<r, q>>)
           y == One(fill[1])
           g == [rsv |-> x, frag |-> y]
           f == With(g, a)
<1>2. Field(x, 2)
  <2>1. <<r, q>> \in Seq(Int) /\ Len(<<r, q>>) = 2
      OBVIOUS
  <2>2. HasLen(<<r, q>>, 2)
      BY <2>1 DEF HasLen
  <2> QED BY <2>2, ArrayField
<1>3. Field(y, 1)
    BY OneField, FillInt
<1>4. given = Memory(f, BlankData)
    BY <1>f, <1>1
<1> HIDE DEF x, y
<1>5. DOMAIN g = {"rsv", "frag"} /\ g["rsv"] = x /\ g["frag"] = y
    OBVIOUS
<1> HIDE DEF g
<1>6. Fills(g, UdpFull)
  <2>1. DOMAIN g \subseteq Names /\ \A nm \in DOMAIN g : g[nm] \in [Index -> Int]
      BY <1>2, <1>3, <1>5, NameFacts DEF Field
  <2>2. ASSUME NEW nm \in DOMAIN g, NEW j \in Index, g[nm][j] # Unset
        PROVE  <<nm, j>> \in UdpFull
    <3>1. CASE nm = "rsv"
      <4>1. <<nm, j>> \in Span(nm, 0, 2)
          BY <1>2, <1>5, <2>2, <3>1, FieldSpan
      <4> QED BY <3>1, <4>1 DEF UdpFull, UdpSpan
    <3>2. CASE nm = "frag"
      <4>1. <<nm, j>> \in Span(nm, 0, 1)
          BY <1>3, <1>5, <2>2, <3>2, FieldSpan
      <4> QED BY <3>2, <4>1 DEF UdpFull
    <3> QED BY <1>5, <3>1, <3>2
  <2> QED BY <2>1, <2>2 DEF Fills
<1>7. GivenAddress(a)
    BY AddressGiven
<1>8. Joint(f, g, a)
  <2>1. \A nm \in DOMAIN g : nm \notin DOMAIN a
      BY <1>5, <1>7 DEF GivenAddress
  <2> QED BY <2>1, WithJoint
<1> HIDE DEF f
<1> QED BY <1>4, <1>6, <1>7, <1>8, GivenJoint, Zenon

LEMMA GivenAddressAlone ==
    ASSUME Given, kind = "atyp_addr_port"
    PROVE  Blank /\ Addressed /\ (Atyp \in Types => OnlyAt(AddressSpan({})))
<1>0. PICK fill \in Fillings : \E a \in Addresses(fill) : given = Memory(a, BlankData)
    BY DEF Given, Messages
<1>1. PICK a \in Addresses(fill) : given = Memory(a, BlankData)
    BY <1>0
<1> DEFINE g == [x \in {} |-> 0]
<1>2. DOMAIN g = {}
    OBVIOUS
<1> HIDE DEF g
<1>3. GivenAddress(a)
    BY AddressGiven
<1>4. Joint(a, g, a)
    BY <1>2 DEF Joint
<1>5. Fills(g, {})
    BY <1>2 DEF Fills
<1> QED BY <1>1, <1>3, <1>4, <1>5, GivenJoint, Zenon

-----------------------------------------------------------------------------
(***************************************************************************)
(* What the two calls do with the message.                                 *)
(***************************************************************************)
\* Where a header size is asked for, it is l.
SizedBy(r, l) == kind \in {"udp_header", "atyp_addr_port"} => r.header_size = l

AddressUntouched(S) == \A name \in {"addr", "port"}, j \in Index : <<name, j>> \notin S

PortUntouched(S) == \A j \in Index : <<"port", j>> \notin S

\* Accepted, e are the bytes of the message, and S all that was given of it.
Accepts(e, l, S) ==
    /\ e = Message
    /\ Sent(Call(given, TRUE), e, l) /\ SizedBy(Call(given, TRUE), l)
    /\ \A m : Back(m, e, l, {}) => Got(Call(m, FALSE), e, l, S) /\ SizedBy(Call(m, FALSE), l)
    /\ OnlyAt(S)
    /\ IsName => PortUntouched(S)

\* Refused, e are at most four bytes, and S has no place of an address.
Rejects(e, l, S) ==
    /\ l <= 4
    /\ Stopped(Call(given, TRUE), e, l)
    /\ \A m : Back(m, e, l, {}) => GaveUp(Call(m, FALSE), e, l, S)
    /\ AddressUntouched(S)

Converts(e, l, S) ==
    /\ HasLen(e, l) /\ l <= 2 * Room
    /\ ~Refused => Accepts(e, l, S)
    /\ Refused => Rejects(e, l, S)

LEMMA PlainAccepted ==
    ASSUME Plain, kind \notin {"request", "replie", "udp_header", "atyp_addr_port"},
           NEW S, UnsetOutside(S)
    PROVE  /\ ~Refused /\ OnlyAt(S) /\ ~IsName
           /\ \A r, l : SizedBy(r, l)
<1>1. ~Refused
    BY DEF Refused, Plain, Atyp, Unset
<1>2. OnlyAt(S)
    BY DEF OnlyAt, UnsetOutside
<1>3. \A r, l : SizedBy(r, l)
    BY DEF SizedBy
<1> QED BY <1>1, <1>2, <1>3 DEF Plain

LEMMA MothedCCall ==
    ASSUME Given, kind = "mothed_c"
    PROVE  \E e, l, S : Converts(e, l, S)
<1>1. PICK n \in Lengths :
         /\ n = given[<<"nmethods", 0>>] /\ Blank /\ Plain
         /\ UnsetOutside({} \union Span("ver", 0, 1) \union Span("nmethods", 0, 1)
                           \union Span("methods", 0, n))
    BY GivenMothedC
<1> DEFINE S == {} \union Span("ver", 0, 1) \union Span("nmethods", 0, 1) \union Span("methods", 0, n)
           e2 == Part("ver", 0, 1) \o Part("nmethods", 0, 1)
           l == 2 + n
<1>2. \A m, reverse : Call(m, reverse) = MothedC(m, reverse)
    BY DEF Call
<1>3. Message = Part("ver", 0, 1) \o Part("nmethods", 0, 1)
                \o Part("methods", 0, given[<<"nmethods", 0>>])
    BY DEF Message
<1>4. Extended(e2, Part("ver", 0, 1), "nmethods", 0, 1)
    BY Zenon DEF Extended
<1>5. Extended(Message, e2, "methods", 0, n)
    BY <1>1, <1>3, Zenon DEF Extended
<1>6. n = given[<<"nmethods", 0>>] /\ Blank /\ l = 2 + n
    BY <1>1
<1> HIDE DEF e2, l
<1>7. /\ HasLen(Message, l) /\ l <= 2 * Room
      /\ Sent(MothedC(given, TRUE), Message, l)
      /\ \A m : Back(m, Message, l, {}) => Got(MothedC(m, FALSE), Message, l, S)
    BY <1>4, <1>5, <1>6, MothedCConverts
<1>8. UnsetOutside(S) /\ Plain
    BY <1>1
<1> HIDE DEF S
<1>9. ~Refused /\ OnlyAt(S) /\ ~IsName /\ \A r, k : SizedBy(r, k)
    BY <1>8, PlainAccepted
<1>10. Accepts(Message, l, S)
    BY <1>2, <1>7, <1>9 DEF Accepts
<1>11. Converts(Message, l, S)
    BY <1>7, <1>9, <1>10 DEF Converts
<1> QED BY <1>11

LEMMA TwoCharsCall ==
    ASSUME Given, kind \in {"mothed_r", "auth_pass_r"}
    PROVE  \E e, l, S : Converts(e, l, S)
<1> DEFINE name == IF kind = "mothed_r" THEN "method" ELSE "status"
           S == {} \union Span("ver", 0, 1) \union Span(name, 0, 1)
<1>1. (kind = "mothed_r" /\ name = "method") \/ (kind = "auth_pass_r" /\ name = "status")
    OBVIOUS
<1>2. \A m, reverse : Call(m, reverse) = TwoChars(m, reverse, name)
    BY DEF Call
<1>3. Message = Part("ver", 0, 1) \o Part(name, 0, 1)
    BY DEF Message
<1> HIDE DEF name
<1>4. Blank /\ Plain /\ UnsetOutside(S)
    BY <1>1, GivenTwoChars
<1>5. Extended(Message, Part("ver", 0, 1), name, 0, 1) /\ name \in Names
    BY <1>1, <1>3, NameFacts DEF Extended
<1>6. /\ HasLen(Message, 2) /\ 2 <= 2 * Room
      /\ Sent(TwoChars(given, TRUE, name), Message, 2)
      /\ \A m : Back(m, Message, 2, {}) => Got(TwoChars(m, FALSE, name), Message, 2, S)
    BY <1>4, <1>5, TwoCharsConvert
<1> HIDE DEF S
<1>7. ~Refused /\ OnlyAt(S) /\ ~IsName /\ \A r, k : SizedBy(r, k)
    BY <1>4, PlainAccepted
<1>8. Accepts(Message, 2, S)
    BY <1>2, <1>6, <1>7 DEF Accepts
<1>9. Converts(Message, 2, S)
    BY <1>6, <1>7, <1>8 DEF Converts
<1> QED BY <1>9

LEMMA AuthPassCCall ==
    ASSUME Given, kind = "auth_pass_c"
    PROVE  \E e, l, S : Converts(e, l, S)
<1>0. PICK u \in Lengths, p \in Lengths :
         /\ u = given[<<"ulen", 0>>] /\ p = given[<<"plen", 0>>] /\ Blank /\ Plain
         /\ UnsetOutside({} \union Span("ver", 0, 1) \union Span("ulen", 0, 1)
                           \union Span("uname", 0, u) \union Span("plen", 0, 1)
                           \union Span("passwd", 0, p))
    BY GivenAuthPassC
<1> DEFINE S == {} \union Span("ver", 0, 1) \union Span("ulen", 0, 1) \union Span("uname", 0, u)
                   \union Span("plen", 0, 1) \union Span("passwd", 0, p)
           e2 == Part("ver", 0, 1) \o Part("ulen", 0, 1)
           e3 == e2 \o Part("uname", 0, u)
           e4 == e3 \o Part("plen", 0, 1)
           j == 2 + u
           k == 2 + u + 1
           l == k + p
<1>2. \A m, reverse : Call(m, reverse) = AuthPassC(m, reverse)
    BY DEF Call
<1>3. Message = Part("ver", 0, 1) \o Part("ulen", 0, 1) \o Part("uname", 0, given[<<"ulen", 0>>])
                \o Part("plen", 0, 1) \o Part("passwd", 0, given[<<"plen", 0>>])
    BY DEF Message
<1>4. /\ Extended(e2, Part("ver", 0, 1), "ulen", 0, 1) /\ Extended(e3, e2, "uname", 0, u)
      /\ Extended(e4, e3, "plen", 0, 1)
    BY Zenon DEF Extended
<1>5. Extended(Message, e4, "passwd", 0, p)
    BY <1>0, <1>3, Zenon DEF Extended
<1>6. /\ u = given[<<"ulen", 0>>] /\ p = given[<<"plen", 0>>] /\ Blank
      /\ j = 2 + u /\ k = 2 + u + 1 /\ l = k + p
    BY <1>0
<1> HIDE DEF e2, e3, e4, j, k, l
<1>7. /\ HasLen(Message, l) /\ l <= 2 * Room
      /\ Sent(AuthPassC(given, TRUE), Message, l)
      /\ \A m : Back(m, Message, l, {}) => Got(AuthPassC(m, FALSE), Message, l, S)
    BY <1>4, <1>5, <1>6, AuthPassCConverts, Zenon
<1>8. UnsetOutside(S) /\ Plain
    BY <1>0
<1> HIDE DEF S
<1>9. ~Refused /\ OnlyAt(S) /\ ~IsName /\ \A r, q : SizedBy(r, q)
    BY <1>8, PlainAccepted
<1>10. Accepts(Message, l, S)
    BY <1>2, <1>7, <1>9 DEF Accepts
<1>11. Converts(Message, l, S)
    BY <1>7, <1>9, <1>10 DEF Converts
<1> QED BY <1>11

\* The places copied behind a header that has none of an address.
LEMMA SpansUntouched ==
    ASSUME NEW S, AddressUntouched(S)
    PROVE  /\ AddressUntouched(S \union Span("atyp", 0, 1))
           /\ IsName => PortUntouched(AddressSpan(S))
<1>1. AddressUntouched(S \union Span("atyp", 0, 1))
    BY DEF AddressUntouched, Span
<1>2. ASSUME IsName
      PROVE  PortUntouched(AddressSpan(S))
  <2>1. AddressSpan(S) = S \union Span("atyp", 0, 1) \union Span("addr", 0, 1)
                           \union Span("addr", 1, NameLen) \union Span("addr", 1, 2)
      BY <1>2, TypeFacts DEF AddressSpan
  <2>2. \A j \in Index : <<"port", j>> \notin S
      BY DEF AddressUntouched
  <2>3. \A nm, i, n, j : nm # "port" => <<"port", j>> \notin Span(nm, i, n)
      BY DEF Span
  <2> QED BY <2>1, <2>2, <2>3 DEF PortUntouched
<1> QED BY <1>1, <1>2

LEMMA HeadUntouched ==
    /\ \A name \in {"cmd", "rep"} : AddressUntouched(HeadSpan(name))
    /\ AddressUntouched(UdpSpan) /\ AddressUntouched(UdpFull) /\ AddressUntouched({})
BY DEF AddressUntouched, HeadSpan, UdpSpan, UdpFull, Span

LEMMA RequestCall ==
    ASSUME Given, kind \in {"request", "replie"}
    PROVE  \E e, l, S : Converts(e, l, S)
<1> DEFINE name == IF kind = "request" THEN "cmd" ELSE "rep"
           h2 == Part("ver", 0, 1) \o Part(name, 0, 1)
           h == h2 \o Part("rsv", 0, 1)
<1>1. (kind = "request" /\ name = "cmd") \/ (kind = "replie" /\ name = "rep")
    OBVIOUS
<1>2. \A m, reverse : Call(m, reverse) = Request(m, reverse, name)
    BY DEF Call
<1>3. Message = Part("ver", 0, 1) \o Part(name, 0, 1) \o Part("rsv", 0, 1) \o AddressBytes
    BY DEF Message
<1>4. \A r, l : SizedBy(r, l)
    BY DEF SizedBy
<1>5. Refused <=> given[<<"rsv", 0>>] # 0 \/ Atyp = 2
    BY DEF Refused, Atyp
<1> HIDE DEF name
<1>6. Extended(h2, Part("ver", 0, 1), name, 0, 1) /\ Extended(h, h2, "rsv", 0, 1)
    BY Zenon DEF Extended
<1>7. Cat(Message, h, AddressBytes)
    BY <1>3, Zenon DEF Cat
<1>8. Blank /\ Addressed /\ (Atyp \in Types => OnlyAt(AddressSpan(HeadSpan(name))))
    BY <1>1, GivenRequest
<1>9. /\ name \in {"cmd", "rep"} /\ name \in Names /\ given \in [Places -> Int]
      /\ Atyp \in Types <=> Atyp # 2
    BY <1>1, <1>8, NameFacts, TypeFacts DEF Blank, Addressed
<1> HIDE DEF h2, h
<1>10. HasLen(h, 3) /\ HeadLies(h, name)
    BY <1>6, <1>9, HeadFacts
<1>11. CASE given[<<"rsv", 0>>] # 0
  <2>1. /\ 3 <= 2 * Room
        /\ Stopped(Request(given, TRUE, name), h, 3)
        /\ \A m : Back(m, h, 3, {}) => GaveUp(Request(m, FALSE, name), h, 3, HeadSpan(name))
      BY <1>8, <1>9, <1>10, <1>11, RequestRefuses, Zenon
  <2>c. /\ Stopped(Call(given, TRUE), h, 3)
        /\ \A m : Back(m, h, 3, {}) => GaveUp(Call(m, FALSE), h, 3, HeadSpan(name))
      BY <1>2, <2>1, Zenon
  <2>u. 3 <= 4 /\ AddressUntouched(HeadSpan(name))
      BY <1>9, HeadUntouched
  <2>2. Rejects(h, 3, HeadSpan(name))
      BY <2>c, <2>u, Zenon DEF Rejects
  <2>3. Converts(h, 3, HeadSpan(name))
      BY <1>5, <1>10, <1>11, <2>1, <2>2 DEF Converts
  <2> QED BY <2>3
<1>12. CASE given[<<"rsv", 0>>] = 0 /\ Atyp \in Types
  <2> DEFINE l == 3 + AddressLen
             S == AddressSpan(HeadSpan(name))
  <2>1. Carries(Message, h, 3, l)
      BY <1>7, <1>10, <1>12 DEF Carries
  <2> HIDE DEF l
  <2>2. /\ HasLen(Message, l) /\ l <= 2 * Room
        /\ Atyp \in Types => Sent(Request(given, TRUE, name), Message, l)
        /\ \A m : Back(m, Message, l, {}) =>
             (Atyp \in Types => Got(Request(m, FALSE, name), Message, l, S))
      BY <1>8, <1>9, <1>10, <1>12, <2>1, RequestConverts
  <2>3. IsName => PortUntouched(S)
      BY <1>9, HeadUntouched, SpansUntouched
  <2> HIDE DEF S
  <2>4. Accepts(Message, l, S)
      BY <1>2, <1>4, <1>8, <1>12, <2>2, <2>3 DEF Accepts, S
  <2>5. Converts(Message, l, S)
      BY <1>5, <1>9, <1>12, <2>2, <2>4 DEF Converts
  <2> QED BY <2>5
<1>13. CASE given[<<"rsv", 0>>] = 0 /\ Atyp \notin Types
  <2> DEFINE e == h \o Part("atyp", 0, 1)
             S == HeadSpan(name) \union Span("atyp", 0, 1)
  <2>1. Carries(e, h, 3, 4)
      BY <1>10, <1>13 DEF Carries, Extended
  <2> HIDE DEF e
  <2>2. /\ HasLen(e, 4) /\ 4 <= 2 * Room
        /\ Atyp \notin Types => Stopped(Request(given, TRUE, name), e, 4)
        /\ \A m : Back(m, e, 4, {}) =>
             (Atyp \notin Types => GaveUp(Request(m, FALSE, name), e, 4, S))
      BY <1>8, <1>9, <1>10, <1>13, <2>1, RequestConverts
  <2>3. AddressUntouched(S)
      BY <1>9, HeadUntouched, SpansUntouched
  <2> HIDE DEF S
  <2>c. /\ Stopped(Call(given, TRUE), e, 4)
        /\ \A m : Back(m, e, 4, {}) => GaveUp(Call(m, FALSE), e, 4, S)
      BY <1>2, <1>13, <2>2, Zenon
  <2>u. 4 <= 4 /\ AddressUntouched(S)
      BY <2>3
  <2>4. Rejects(e, 4, S)
      BY <2>c, <2>u, Zenon DEF Rejects
  <2>5. Converts(e, 4, S)
      BY <1>5, <1>9, <1>13, <2>2, <2>4 DEF Converts
  <2> QED BY <2>5
<1> QED BY <1>11, <1>12, <1>13

LEMMA UdpCall ==
    ASSUME Given, kind = "udp_header"
    PROVE  \E e, l, S : Converts(e, l, S)
<1> DEFINE v == Part("rsv", 0, 2)
           h == v \o Part("frag", 0, 1)
<1>1. \A m, reverse : Call(m, reverse) = UdpHeader(m, reverse)
    BY DEF Call
<1>2. Message = Part("rsv", 0, 2) \o Part("frag", 0, 1) \o AddressBytes
    BY DEF Message
<1>3. \A r, l : SizedBy(r, l) <=> SizeIs(r, l)
    BY DEF SizedBy, SizeIs
<1>4. Refused <=> ~NoReserved(given) \/ Atyp = 2
    BY DEF Refused, NoReserved, Atyp
<1>5. Extended(h, Part("rsv", 0, 2), "frag", 0, 1)
    BY Zenon DEF Extended
<1>6. Cat(Message, h, AddressBytes)
    BY <1>2, Zenon DEF Cat
<1>7. Blank /\ Addressed /\ (Atyp \in Types => OnlyAt(AddressSpan(UdpFull)))
    BY GivenUdp
<1>8. given \in [Places -> Int] /\ (Atyp \in Types <=> Atyp # 2)
    BY <1>7, TypeFacts DEF Blank, Addressed
<1>9. HasLen(v, 2) /\ Lies(v, "rsv", 0, 0, 2)
    BY <1>8, ReservedPart
<1> HIDE DEF v, h
<1>10. HasLen(h, 3) /\ UdpLies(h)
    BY <1>5, <1>8, UdpFacts
<1>11. CASE ~NoReserved(given)
  <2>1. /\ 2 <= 2 * Room
        /\ Stopped(UdpHeader(given, TRUE), v, 2)
        /\ \A m : Back(m, v, 2, {}) => GaveUp(UdpHeader(m, FALSE), v, 2, UdpSpan)
      BY <1>7, <1>9, <1>11, UdpRefuses, Zenon
  <2>c. /\ Stopped(Call(given, TRUE), v, 2)
        /\ \A m : Back(m, v, 2, {}) => GaveUp(Call(m, FALSE), v, 2, UdpSpan)
      BY <1>1, <2>1, Zenon
  <2>u. 2 <= 4 /\ AddressUntouched(UdpSpan)
      BY HeadUntouched
  <2>2. Rejects(v, 2, UdpSpan)
      BY <2>c, <2>u, Zenon DEF Rejects
  <2>3. Converts(v, 2, UdpSpan)
      BY <1>4, <1>9, <1>11, <2>1, <2>2 DEF Converts
  <2> QED BY <2>3
<1>12. CASE NoReserved(given) /\ Atyp \in Types
  <2> DEFINE l == 3 + AddressLen
             S == AddressSpan(UdpFull)
  <2>1. Carries(Message, h, 3, l)
      BY <1>6, <1>10, <1>12 DEF Carries
  <2> HIDE DEF l
  <2>a. NoReserved(given) /\ Blank /\ Addressed
      BY <1>7, <1>12
  <2>2. /\ HasLen(Message, l) /\ l <= 2 * Room
        /\ Atyp \in Types => Sent(UdpHeader(given, TRUE), Message, l)
                             /\ SizeIs(UdpHeader(given, TRUE), l)
        /\ \A m : Back(m, Message, l, {}) =>
             (Atyp \in Types => Got(UdpHeader(m, FALSE), Message, l, S)
                                /\ SizeIs(UdpHeader(m, FALSE), l))
    <3>1. HasLen(Message, l) /\ l <= 2 * Room
        BY <1>10, <2>1, <2>a, UdpConverts, Zenon
    <3>t. Atyp \in Types
        BY <1>12
    <3>2. Sent(UdpHeader(given, TRUE), Message, l)
        BY <1>10, <2>1, <2>a, <3>t, UdpConverts, Zenon
    <3>4. SizeIs(UdpHeader(given, TRUE), l)
        BY <1>10, <2>1, <2>a, <3>t, UdpConverts, Zenon
    <3>3. ASSUME NEW m, Back(m, Message, l, {}), Atyp \in Types
          PROVE  Got(UdpHeader(m, FALSE), Message, l, S) /\ SizeIs(UdpHeader(m, FALSE), l)
        BY <1>10, <2>1, <2>a, <3>3, UdpConverts, Zenon
    <3> QED BY <3>1, <3>2, <3>3, <3>4
  <2>3. IsName => PortUntouched(S)
      BY HeadUntouched, SpansUntouched
  <2> HIDE DEF S
  <2>4. Accepts(Message, l, S)
      BY <1>1, <1>3, <1>7, <1>12, <2>2, <2>3 DEF Accepts, S
  <2>5. Converts(Message, l, S)
      BY <1>4, <1>8, <1>12, <2>2, <2>4 DEF Converts
  <2> QED BY <2>5
<1>13. CASE NoReserved(given) /\ Atyp \notin Types
  <2> DEFINE e == h \o Part("atyp", 0, 1)
             S == UdpFull \union Span("atyp", 0, 1)
  <2>1. Carries(e, h, 3, 4)
      BY <1>10, <1>13 DEF Carries, Extended
  <2> HIDE DEF e
  <2>2. /\ HasLen(e, 4) /\ 4 <= 2 * Room
        /\ Atyp \notin Types => Stopped(UdpHeader(given, TRUE), e, 4)
        /\ \A m : Back(m, e, 4, {}) =>
             (Atyp \notin Types => GaveUp(UdpHeader(m, FALSE), e, 4, S))
      BY <1>7, <1>10, <1>13, <2>1, UdpConverts
  <2>3. AddressUntouched(S)
      BY HeadUntouched, SpansUntouched
  <2> HIDE DEF S
  <2>c. /\ Stopped(Call(given, TRUE), e, 4)
        /\ \A m : Back(m, e, 4, {}) => GaveUp(Call(m, FALSE), e, 4, S)
      BY <1>1, <1>13, <2>2, Zenon
  <2>u. 4 <= 4 /\ AddressUntouched(S)
      BY <2>3
  <2>4. Rejects(e, 4, S)
      BY <2>c, <2>u, Zenon DEF Rejects
  <2>5. Converts(e, 4, S)
      BY <1>4, <1>8, <1>13, <2>2, <2>4 DEF Converts
  <2> QED BY <2>5
<1> QED BY <1>11, <1>12, <1>13

LEMMA AddressCall ==
    ASSUME Given, kind = "atyp_addr_port"
    PROVE  \E e, l, S : Converts(e, l, S)
<1>1. \A m, reverse : Call(m, reverse) = AtypAddrPort(m, reverse, 0)
    BY DEF Call
<1>2. Message = AddressBytes
    BY DEF Message
<1>3. \A r, l : SizedBy(r, l) <=> r.header_size = l
    BY DEF SizedBy
<1>4. Refused <=> Atyp = 2
    BY DEF Refused, Atyp
<1>5. Blank /\ Addressed /\ (Atyp \in Types => OnlyAt(AddressSpan({})))
    BY GivenAddressAlone
<1>6. Atyp \in Types <=> Atyp # 2
    BY <1>5, TypeFacts DEF Addressed
<1>7. CASE Atyp \in Types
  <2> DEFINE l == AddressLen
             S == AddressSpan({})
  <2>a. /\ Atyp \in Types => Message = AddressBytes /\ l = AddressLen
        /\ Atyp \notin Types => Message = Part("atyp", 0, 1) /\ l = 1
        /\ Blank /\ Addressed
      BY <1>2, <1>5, <1>7
  <2>1. /\ HasLen(Message, l) /\ l <= 2 * Room
        /\ Atyp \in Types => Sent(AtypAddrPort(given, TRUE, 0), Message, l)
                             /\ AtypAddrPort(given, TRUE, 0).header_size = l
        /\ \A m : Back(m, Message, l, {}) =>
             (Atyp \in Types => Got(AtypAddrPort(m, FALSE, 0), Message, l, S)
                                /\ AtypAddrPort(m, FALSE, 0).header_size = l)
    <3> HIDE DEF l
    <3> QED BY <2>a, AddressConverts, Zenon
  <2>2. IsName => PortUntouched(S)
      BY HeadUntouched, SpansUntouched
  <2> HIDE DEF l, S
  <2>3. Accepts(Message, l, S)
      BY <1>1, <1>3, <1>5, <1>7, <2>1, <2>2 DEF Accepts, S
  <2>4. Converts(Message, l, S)
      BY <1>4, <1>6, <1>7, <2>1, <2>3 DEF Converts
  <2> QED BY <2>4
<1>8. CASE Atyp \notin Types
  <2> DEFINE e == Part("atyp", 0, 1)
             S == {} \union Span("atyp", 0, 1)
  <2>1. /\ HasLen(e, 1) /\ 1 <= 2 * Room
        /\ Atyp \notin Types => Stopped(AtypAddrPort(given, TRUE, 0), e, 1)
        /\ \A m : Back(m, e, 1, {}) =>
             (Atyp \notin Types => GaveUp(AtypAddrPort(m, FALSE, 0), e, 1, S))
      BY <1>5, <1>8, AddressConverts
  <2>2. AddressUntouched(S)
      BY HeadUntouched, SpansUntouched
  <2> HIDE DEF e, S
  <2>c. /\ Stopped(Call(given, TRUE), e, 1)
        /\ \A m : Back(m, e, 1, {}) => GaveUp(Call(m, FALSE), e, 1, S)
      BY <1>1, <1>8, <2>1, Zenon
  <2>u. 1 <= 4 /\ AddressUntouched(S)
      BY <2>2
  <2>3. Rejects(e, 1, S)
      BY <2>c, <2>u, Zenon DEF Rejects
  <2>4. Converts(e, 1, S)
      BY <1>4, <1>6, <1>8, <2>1, <2>3 DEF Converts
  <2> QED BY <2>4
<1> QED BY <1>7, <1>8

LEMMA EveryCall ==
    ASSUME Given
    PROVE  \E e, l, S : Converts(e, l, S)
<1>1. kind \in Kinds
    BY DEF Given
<1> QED BY <1>1, MothedCCall, TwoCharsCall, AuthPassCCall, RequestCall, UdpCall, AddressCall DEF Kinds

-----------------------------------------------------------------------------
(***************************************************************************)
(* The callers.                                                            *)
(***************************************************************************)
\* The memory that decodes what the call q encoded.
Fresh(q) == Memory([n \in {} |-> 0], Data(q.mem))

LEMMA FreshBack ==
    ASSUME NEW q, NEW e, NEW l, Wrote(q.mem, e, l)
    PROVE  Back(Fresh(q), e, l, {})
<1> DEFINE g == Fresh(q)
<1>1. DOMAIN [n \in {} |-> 0] = {}
    OBVIOUS
<1>2. g = [p \in Places |-> IF p[1] = "data" THEN Data(q.mem)[p[2]] ELSE Unset]
    BY <1>1 DEF Fresh, Memory
<1>3. \A k \in 0..(2 * Room - 1) : g[<<"data", k>>] = q.mem[<<"data", k>>]
    BY <1>2, PlaceFacts DEF Data
<1>4. \A name \in Names, j \in Index : g[<<name, j>>] = Unset
    BY <1>2, PlaceFacts, SizeFacts
<1>5. g = [p \in Places |-> g[p]]
    BY <1>2
<1> HIDE DEF g
<1>6. Back(g, e, l, {})
    BY <1>3, <1>4, <1>5 DEF Back, Wrote, Holds
<1> QED BY <1>6 DEF g

\* The inductive invariant: the message is one the callers are given, and the
\* result that of encoding it, or of decoding what that encoded.
Encoded == Call(given, TRUE)
Decoded == Call(Fresh(Encoded), FALSE)

ConvertInv ==
    /\ Given
    /\ pc \in {"given", "encoded", "decoded"}
    /\ pc = "encoded" => result = Encoded
    /\ pc = "decoded" => result = Decoded

\* In a message's own bytes no byte is left out and none is written behind.
LEMMA EncodedFacts ==
    ASSUME Given
    PROVE  /\ ~Refused => Encoded.ret = 0
           /\ Refused => Encoded.ret = -1
           /\ ~Refused => \E l \in Nat : /\ HasLen(Message, l) /\ SizedBy(Encoded, l)
                                         /\ Wrote(Encoded.mem, Message, l)
           /\ Refused => \A k \in 4..(2 * Room - 1) : Encoded.mem[<<"data", k>>] = Unset
<1>1. PICK e, l, S : Converts(e, l, S)
    BY EveryCall
<1>2. CASE ~Refused
  <2>1. /\ HasLen(Message, l) /\ Sent(Encoded, Message, l) /\ SizedBy(Encoded, l)
      BY <1>1, <1>2 DEF Converts, Accepts, Encoded
  <2> QED BY <1>2, <2>1 DEF Sent, HasLen
<1>3. CASE Refused
  <2>1. HasLen(e, l) /\ l <= 4 /\ Stopped(Encoded, e, l)
      BY <1>1, <1>3 DEF Converts, Rejects, Encoded
  <2>2. l \in Nat /\ Encoded.ret = -1 /\ Holds(Encoded.mem, e, l)
      BY <2>1 DEF HasLen, Stopped, Wrote
  <2>3. \A k \in 4..(2 * Room - 1) : Encoded.mem[<<"data", k>>] = Unset
    <3>1. \A k \in 4..(2 * Room - 1) : k \in 0..(2 * Room - 1) /\ ~(k < l)
        BY <2>1, <2>2, SizeFacts
    <3> QED BY <2>2, <3>1 DEF Holds
  <2> QED BY <1>3, <2>2, <2>3
<1> QED BY <1>2, <1>3

LEMMA DecodedFacts ==
    ASSUME Given
    PROVE  /\ ~Refused => /\ Decoded.ret = 0
                          /\ \E l \in Nat : HasLen(Message, l) /\ SizedBy(Decoded, l)
                          /\ \A name \in Names, j \in Index :
                               Decoded.mem[<<name, j>>]
                                 = IF name = "port" /\ IsName THEN Unset ELSE given[<<name, j>>]
           /\ Refused => /\ Decoded.ret = -1
                         /\ \A name \in {"addr", "port"}, j \in Index :
                              Decoded.mem[<<name, j>>] = Unset
<1>1. PICK e, l, S : Converts(e, l, S)
    BY EveryCall
<1>2. CASE ~Refused
  <2>1. /\ HasLen(Message, l) /\ Sent(Encoded, Message, l)
        /\ \A m : Back(m, Message, l, {}) =>
             Got(Call(m, FALSE), Message, l, S) /\ SizedBy(Call(m, FALSE), l)
        /\ OnlyAt(S) /\ (IsName => PortUntouched(S))
      BY <1>1, <1>2 DEF Converts, Accepts, Encoded
  <2>2. Back(Fresh(Encoded), Message, l, {})
      BY <2>1, FreshBack DEF Sent
  <2>3. Got(Decoded, Message, l, S) /\ SizedBy(Decoded, l)
      BY <2>1, <2>2 DEF Decoded
  <2>4. l \in Nat
      BY <2>1 DEF HasLen
  <2>5. Decoded.ret = 0 /\ Back(Decoded.mem, Message, l, S)
      BY <2>3 DEF Got
  <2>6. ASSUME NEW name \in Names, NEW j \in Index
        PROVE  Decoded.mem[<<name, j>>]
                 = IF name = "port" /\ IsName THEN Unset ELSE given[<<name, j>>]
    <3>1. Decoded.mem[<<name, j>>] = IF <<name, j>> \in S THEN given[<<name, j>>] ELSE Unset
        BY <2>5 DEF Back
    <3> QED BY <2>1, <3>1 DEF OnlyAt, PortUntouched
  <2> QED BY <1>2, <2>1, <2>3, <2>4, <2>5, <2>6
<1>3. CASE Refused
  <2>1. /\ HasLen(e, l) /\ Stopped(Encoded, e, l)
        /\ \A m : Back(m, e, l, {}) => GaveUp(Call(m, FALSE), e, l, S)
        /\ AddressUntouched(S)
      BY <1>1, <1>3 DEF Converts, Rejects, Encoded
  <2>2. Back(Fresh(Encoded), e, l, {})
      BY <2>1, FreshBack DEF Stopped
  <2>3. GaveUp(Decoded, e, l, S)
      BY <2>1, <2>2 DEF Decoded
  <2>4. Decoded.ret = -1 /\ Back(Decoded.mem, e, l, S)
      BY <2>3 DEF GaveUp
  <2>5. \A name \in {"addr", "port"}, j \in Index : Decoded.mem[<<name, j>>] = Unset
      BY <2>1, <2>4, TypeFacts DEF Back, AddressUntouched
  <2> QED BY <1>3, <2>4, <2>5
<1> QED BY <1>2, <1>3

LEMMA InitConvertInv ==
    ASSUME ConvertInit
    PROVE  ConvertInv
BY DEF ConvertInit, ConvertInv, Given

LEMMA NextConvertInv ==
    ASSUME ConvertInv, [ConvertNext]_convertVars
    PROVE  ConvertInv'
<1>1. CASE Encode
  <2>1. Given'
      BY <1>1 DEF ConvertInv, Given, Encode
  <2>2. result' = Encoded'
      BY <1>1 DEF Encode, Encoded, Call
  <2> QED BY <1>1, <2>1, <2>2 DEF ConvertInv, Encode
<1>2. CASE Decode
  <2>1. Given'
      BY <1>2 DEF ConvertInv, Given, Decode
  <2>2. result = Encoded
      BY <1>2 DEF ConvertInv, Decode
  <2>3. result' = Call(Fresh(Encoded), FALSE)
      BY <1>2, <2>2 DEF Decode, Fresh
  <2>4. kind' = kind /\ given' = given
      BY <1>2 DEF Decode
  <2>5. Encoded' = Encoded
      BY <2>4 DEF Encoded, Call
  <2>6. \A m : Call(m, FALSE)' = Call(m, FALSE)
      BY <2>4 DEF Call
  <2>7. Decoded' = Decoded
      BY <2>4, <2>5, <2>6 DEF Decoded, Fresh
  <2> QED BY <1>2, <2>1, <2>3, <2>7 DEF ConvertInv, Decode, Decoded
<1>3. CASE UNCHANGED convertVars
  <2>1. kind' = kind /\ given' = given /\ result' = result /\ pc' = pc
      BY <1>3 DEF convertVars
  <2>2. Given'
      BY <2>1 DEF ConvertInv, Given
  <2>3. Encoded' = Encoded
      BY <2>1 DEF Encoded, Call
  <2>4. \A m : Call(m, FALSE)' = Call(m, FALSE)
      BY <2>1 DEF Call
  <2>5. Decoded' = Decoded
      BY <2>3, <2>4 DEF Decoded, Fresh
  <2> QED BY <2>1, <2>2, <2>3, <2>5 DEF ConvertInv
<1> QED BY <1>1, <1>2, <1>3 DEF ConvertNext

LEMMA InvEncodes ==
    ASSUME ConvertInv
    PROVE  EncodesMessage
<1> SUFFICES ASSUME pc = "encoded", result.ret = 0
             PROVE  /\ SizeIsExtent
                    /\ \A k \in 0..(2 * Room - 1) :
                         result.mem[<<"data", k>>]
                           = IF k < Len(Message) THEN Message[k + 1] ELSE Unset
    BY DEF EncodesMessage
<1>1. Given /\ result = Encoded
    BY DEF ConvertInv
<1>2. ~Refused
    BY <1>1, EncodedFacts
<1>3. PICK l \in Nat : /\ HasLen(Message, l) /\ SizedBy(Encoded, l)
                       /\ Wrote(Encoded.mem, Message, l)
    BY <1>1, <1>2, EncodedFacts
<1>4. Len(Message) = l
    BY <1>3 DEF HasLen
<1>5. SizeIsExtent
    BY <1>1, <1>3, <1>4 DEF SizeIsExtent, SizedBy
<1>6. ASSUME NEW k \in 0..(2 * Room - 1)
      PROVE  result.mem[<<"data", k>>] = IF k < Len(Message) THEN Message[k + 1] ELSE Unset
    BY <1>1, <1>3, <1>4 DEF Wrote, Holds
<1> QED BY <1>5, <1>6

LEMMA InvRoundTrip ==
    ASSUME ConvertInv
    PROVE  RoundTrip
<1> SUFFICES ASSUME pc = "decoded", result.ret = 0
             PROVE  /\ SizeIsExtent
                    /\ \A p \in Names \X (0..(Room - 1)) :
                         result.mem[p] = IF p[1] = "port" /\ IsName THEN Unset ELSE given[p]
    BY DEF RoundTrip
<1>1. Given /\ result = Decoded
    BY DEF ConvertInv
<1>2. ~Refused
    BY <1>1, DecodedFacts
<1>3. PICK l \in Nat : HasLen(Message, l) /\ SizedBy(Decoded, l)
    BY <1>1, <1>2, DecodedFacts
<1>4. Len(Message) = l
    BY <1>3 DEF HasLen
<1>5. SizeIsExtent
    BY <1>1, <1>3, <1>4 DEF SizeIsExtent, SizedBy
<1>6. ASSUME NEW name \in Names, NEW j \in Index
      PROVE  result.mem[<<name, j>>]
               = IF name = "port" /\ IsName THEN Unset ELSE given[<<name, j>>]
    BY <1>1, <1>2, DecodedFacts
<1>7. ASSUME NEW p \in Names \X (0..(Room - 1))
      PROVE  result.mem[p] = IF p[1] = "port" /\ IsName THEN Unset ELSE given[p]
  <2>1. PICK name \in Names, j \in Index : p = <<name, j>>
      BY DEF Index
  <2> QED BY <1>6, <2>1
<1> QED BY <1>5, <1>7

LEMMA InvRefused ==
    ASSUME ConvertInv
    PROVE  RefusedKeepsAddress
<1>1. /\ Given /\ pc \in {"given", "encoded", "decoded"}
      /\ pc = "encoded" => result = Encoded
      /\ pc = "decoded" => result = Decoded
    BY DEF ConvertInv
<1>2. pc # "given" => (result.ret = -1 <=> Refused)
    BY <1>1, EncodedFacts, DecodedFacts
<1>3. Refused /\ pc = "encoded" =>
        \A k \in 4..(2 * Room - 1) : result.mem[<<"data", k>>] = Unset
    BY <1>1, EncodedFacts
<1>4. Refused /\ pc = "decoded" =>
        \A p \in {"addr", "port"} \X (0..(Room - 1)) : result.mem[p] = Unset
  <2> SUFFICES ASSUME Refused, pc = "decoded", NEW p \in {"addr", "port"} \X (0..(Room - 1))
               PROVE  result.mem[p] = Unset
      OBVIOUS
  <2>1. PICK name \in {"addr", "port"}, j \in Index : p = <<name, j>>
      BY DEF Index
  <2>2. Decoded.mem[<<name, j>>] = Unset
      BY <1>1, DecodedFacts
  <2> QED BY <1>1, <2>1, <2>2
<1> QED BY <1>2, <1>3, <1>4 DEF RefusedKeepsAddress

LEMMA ConvertInvAlways == ConvertSpec => []ConvertInv
<1>1. ConvertInit => ConvertInv
    BY InitConvertInv
<1>2. ConvertInv /\ [ConvertNext]_convertVars => ConvertInv'
    BY NextConvertInv
<1> QED BY <1>1, <1>2, PTL DEF ConvertSpec

\* Each of the eight functions encodes an accepted message to its bytes, in the
\* order of the protocol, and nothing behind them; the size is their number.
THEOREM EncodesEveryMessage == ConvertSpec => []EncodesMessage
<1>1. ConvertInv => EncodesMessage
    BY InvEncodes
<1> QED BY <1>1, ConvertInvAlways, PTL

\* Decoded into fields that hold nothing, the bytes give back what was encoded,
\* whatever the chars and the lengths; of a name, all but the port.
THEOREM DecodesWhatWasEncoded == ConvertSpec => []RoundTrip
<1>1. ConvertInv => RoundTrip
    BY InvRoundTrip
<1> QED BY <1>1, ConvertInvAlways, PTL

\* A message is refused in both directions, or in neither, for a reserved char
\* or an unknown type, with no char of its address copied.
THEOREM RefusedBeforeAddress == ConvertSpec => []RefusedKeepsAddress
<1>1. ConvertInv => RefusedKeepsAddress
    BY InvRefused
<1> QED BY <1>1, ConvertInvAlways, PTL
=============================================================================
