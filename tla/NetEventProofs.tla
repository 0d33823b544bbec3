--------------------------- MODULE NetEventProofs ---------------------------
(***************************************************************************)
(* What NetEvent's runs check on a small instance, for every set of        *)
(* descriptors, every length of the event array and every set of payloads. *)
(* The inductive invariant is the conjunction of the four invariants: the  *)
(* queue can only be known to be empty when writability is not asked for   *)
(* from the flags the kernel and the node share.                           *)
(***************************************************************************)
EXTENDS NetEvent, SequenceTheorems, TLAPS

\* A queue as the manager has it: empty, or one buffer with bytes to send.
Queues == {<<>>} \union {<<b>> : b \in {c \in Buffers : Unsent(c) > 0}}

ManagerTypes ==
    /\ nodes \subseteq Fds
    /\ open \subseteq Fds
    /\ epoll_flag \in [Fds -> SUBSET Flags]
    /\ interest \in [Fds -> SUBSET Flags]
    /\ write_buffer \in [Fds -> Queues]
    /\ batch \in [Fds -> SUBSET Events]
    /\ wire \in [Fds -> Seq(Nat)]
    /\ alive \in BOOLEAN

ManagerInv == ManagerTypes /\ InterestMirrorsNodes /\ WritesAreArmed

\* A fresh buffer on an empty queue makes such a queue.
LEMMA PushedQueue ==
    ASSUME NEW p \in Payloads
    PROVE  PushBack(<<>>, FromBuff(p)) \in Queues \ {<<>>}
<1>1. FromBuff(p) \in Buffers /\ Unsent(FromBuff(p)) > 0
    BY QueueAssumption DEF FromBuff, Buffers, Unsent
<1>2. PushBack(<<>>, FromBuff(p)) = <<FromBuff(p)>>
    BY DEF PushBack
<1> QED BY <1>1, <1>2 DEF Queues

\* So does what write() leaves of one, whatever it returns.
LEMMA WrittenQueue ==
    ASSUME NEW q \in Queues, q # <<>>,
           NEW r \in {-1} \union 1..Unsent(Head(q))
    PROVE  Written(q, r) \in Queues
<1>1. PICK b \in Buffers : q = <<b>> /\ Unsent(b) > 0
    BY DEF Queues
<1>2. b.buff \in Payloads /\ b.pos \in 0..(SizeMod - 1) /\ Len(b.buff) \in Nat
    BY QueueAssumption DEF Buffers
<1>3. Head(q) = b /\ Tail(q) = <<>>
    BY <1>1
<1> DEFINE p == PosAfter(b, r)
<1>4. p \in 0..(SizeMod - 1)
  <2>1. Unsent(b) \in Int /\ r \in Int
      BY <1>2, <1>3 DEF Unsent
  <2>2. (IF r <= 0 THEN Len(b.buff) ELSE b.pos) + r + SizeMod \in Int
      BY <1>2, <2>1, QueueAssumption
  <2> QED BY <2>2, QueueAssumption DEF PosAfter
<1>5. CASE p >= Len(b.buff)
  <2>1. Written(q, r) = <<>>
      BY <1>3, <1>5 DEF Written, PopFront
  <2> QED BY <2>1 DEF Queues
<1>6. CASE p < Len(b.buff)
  <2> DEFINE c == [buff |-> b.buff, pos |-> p]
  <2>1. c \in Buffers /\ Unsent(c) > 0
      BY <1>2, <1>4, <1>6 DEF Buffers, Unsent
  <2>2. <<c>> \o <<>> = <<c>>
      OBVIOUS
  <2>3. MovedTo(q, p) = <<c>>
      BY <1>3, <2>2 DEF MovedTo
  <2>4. ~(p >= Len(b.buff))
      BY <1>2, <1>4, <1>6
  <2>5. Written(q, r) = <<c>>
      BY <1>3, <2>3, <2>4 DEF Written
  <2> QED BY <2>1, <2>5 DEF Queues
<1> QED BY <1>2, <1>4, <1>5, <1>6

\* The bytes write() takes of a queue are bytes.
LEMMA WrittenBytes ==
    ASSUME NEW q \in Queues, q # <<>>, NEW r \in 1..Unsent(Head(q))
    PROVE  SubSeq(Head(q).buff, Head(q).pos + 1, Head(q).pos + r) \in Seq(Nat)
<1>1. PICK b \in Buffers : q = <<b>> /\ Unsent(b) > 0
    BY DEF Queues
<1>2. Head(q) = b
    BY <1>1
<1>3. b.buff \in Seq(Nat) /\ b.pos \in Nat
    BY QueueAssumption DEF Buffers
<1>4. Len(b.buff) \in Nat /\ r \in 1..(Len(b.buff) - b.pos)
    BY <1>2, <1>3 DEF Unsent
<1>5. b.pos + 1 \in 1..(Len(b.buff) + 1) /\ b.pos + r \in 0..Len(b.buff)
    BY <1>3, <1>4
<1>6. SubSeq(b.buff, b.pos + 1, b.pos + r) \in Seq(Nat)
  <2> DEFINE s == b.buff
             m == b.pos + 1
             n == b.pos + r
  <2>1. s \in Seq(Nat) /\ m \in 1..(Len(s) + 1) /\ n \in 0..Len(s)
      BY <1>3, <1>5
  <2> HIDE DEF s, m, n
  <2>2. SubSeq(s, m, n) \in Seq(Nat)
      BY <2>1, SubSeqProperties
  <2> QED BY <2>2 DEF s, m, n
<1> QED BY <1>2, <1>6

\* The four invariants of the manager follow from the inductive one.
LEMMA ManagerInvSuffices ==
    ManagerInv => /\ ManagerTypeOK
                  /\ InterestMirrorsNodes
                  /\ WritesAreArmed
                  /\ QueuedBuffersHaveBytes
<1> SUFFICES ASSUME ManagerInv PROVE ManagerTypeOK /\ QueuedBuffersHaveBytes
    BY DEF ManagerInv
<1>1. ASSUME NEW q \in Queues
      PROVE  q \in Seq(Buffers) /\ Len(q) <= 1 /\ (q # <<>> => Unsent(Head(q)) > 0)
  <2>1. CASE q = <<>>
      BY <2>1
  <2>2. CASE q # <<>>
    <3>1. PICK b \in Buffers : q = <<b>> /\ Unsent(b) > 0
        BY <2>2 DEF Queues
    <3>2. Head(q) = b /\ Len(q) = 1 /\ q \in Seq(Buffers)
        BY <3>1
    <3> QED BY <3>1, <3>2
  <2> QED BY <2>1, <2>2
<1>2. write_buffer \in [Fds -> Queues]
    BY DEF ManagerInv, ManagerTypes
<1>3. \A fd \in Fds : write_buffer[fd] \in Queues
    BY <1>2
<1>4. ManagerTypeOK
    BY <1>1, <1>2, <1>3 DEF ManagerInv, ManagerTypes, ManagerTypeOK
<1>5. QueuedBuffersHaveBytes
    BY <1>1, <1>3 DEF QueuedBuffersHaveBytes
<1> QED BY <1>4, <1>5

\* The listener is registered and nothing is queued.
LEMMA ManagerInitInv == ManagerInit => ManagerInv
<1> SUFFICES ASSUME ManagerInit PROVE ManagerInv
    OBVIOUS
<1>1. <<>> \in Queues /\ <<>> \in Seq(Nat)
    BY DEF Queues
<1>2. ManagerTypes
    BY <1>1, ManagerAssumption DEF ManagerInit, ManagerTypes, Flags, Events
<1>3. InterestMirrorsNodes
    BY ManagerAssumption DEF ManagerInit, InterestMirrorsNodes
<1>4. WritesAreArmed
    BY ManagerAssumption DEF ManagerInit, WritesAreArmed
<1> QED BY <1>2, <1>3, <1>4 DEF ManagerInv

(***************************************************************************)
(* The operations of the manager keep the invariant, whoever calls them.   *)
(***************************************************************************)
LEMMA NodeWriteKeeps ==
    ASSUME ManagerInv, NEW fd \in nodes, NEW p \in Payloads,
           write_buffer[fd] = <<>>, NodeWrite(fd, p)
    PROVE  /\ write_buffer' \in [Fds -> Queues]
           /\ epoll_flag' \in [Fds -> SUBSET Flags]
           /\ interest' \in [Fds -> SUBSET Flags]
           /\ InterestMirrorsNodes'
           /\ WritesAreArmed'
<1> USE DEF ManagerInv, ManagerTypes
<1>1. fd \in Fds /\ "OUT" \notin interest[fd] /\ interest[fd] = epoll_flag[fd]
    BY DEF InterestMirrorsNodes, WritesAreArmed
<1>2. write_buffer' = [write_buffer EXCEPT ![fd] = PushBack(<<>>, FromBuff(p))]
    BY DEF NodeWrite
<1>3. PushBack(<<>>, FromBuff(p)) \in Queues \ {<<>>}
    BY PushedQueue
<1>4. interest' = [interest EXCEPT ![fd] = epoll_flag[fd] \union {"OUT"}]
    BY <1>1 DEF NodeWrite
<1>5. epoll_flag' = [epoll_flag EXCEPT ![fd] = epoll_flag[fd] \union {"OUT"}]
    BY DEF NodeWrite
<1>6. nodes' = nodes /\ open' = open
    BY DEF NodeWrite
<1>7. epoll_flag' \in [Fds -> SUBSET Flags] /\ interest' \in [Fds -> SUBSET Flags]
    BY <1>1, <1>4, <1>5 DEF Flags
<1>8. InterestMirrorsNodes'
    BY <1>1, <1>4, <1>5, <1>6 DEF InterestMirrorsNodes
<1>9. WritesAreArmed'
    BY <1>1, <1>2, <1>3, <1>4, <1>6 DEF WritesAreArmed
<1> QED BY <1>2, <1>3, <1>7, <1>8, <1>9

LEMMA NodeAddKeeps ==
    ASSUME ManagerInv, NEW fd \in Fds, NodeAdd(fd)
    PROVE  /\ nodes' \subseteq Fds /\ open' \subseteq Fds
           /\ write_buffer' \in [Fds -> Queues]
           /\ epoll_flag' \in [Fds -> SUBSET Flags]
           /\ interest' \in [Fds -> SUBSET Flags]
           /\ wire' \in [Fds -> Seq(Nat)]
           /\ InterestMirrorsNodes'
           /\ WritesAreArmed'
<1> USE DEF ManagerInv, ManagerTypes, NodeAdd
<1>1. <<>> \in Queues /\ <<>> \in Seq(Nat) /\ {"IN"} \in SUBSET Flags
    BY DEF Queues, Flags
<1>2. InterestMirrorsNodes'
    BY DEF InterestMirrorsNodes
<1>3. WritesAreArmed'
    BY DEF WritesAreArmed, InterestMirrorsNodes
<1> QED BY <1>1, <1>2, <1>3

LEMMA FdRemoveKeeps ==
    ASSUME ManagerInv, NEW fd \in nodes, FdRemove(fd)
    PROVE  /\ nodes' \subseteq Fds /\ open' \subseteq Fds
           /\ write_buffer' \in [Fds -> Queues]
           /\ epoll_flag' \in [Fds -> SUBSET Flags]
           /\ interest' \in [Fds -> SUBSET Flags]
           /\ InterestMirrorsNodes'
           /\ WritesAreArmed'
<1> USE DEF ManagerInv, ManagerTypes, FdRemove
<1>1. <<>> \in Queues /\ {} \in SUBSET Flags
    BY DEF Queues
<1>2. InterestMirrorsNodes'
    BY DEF InterestMirrorsNodes
<1>3. WritesAreArmed'
    BY DEF WritesAreArmed, InterestMirrorsNodes
<1> QED BY <1>1, <1>2, <1>3

\* The writable branch of the loop: one write() and what follows it.
LEMMA HandlerOutKeeps ==
    ASSUME ManagerInv, NEW fd \in Fds, NEW r \in WriteResults(fd), HandlerOut(fd, r)
    PROVE  ManagerInv'
<1> DEFINE q    == write_buffer[fd]
           rest == IF q = <<>> THEN q ELSE Written(q, r)
<1> USE DEF ManagerInv, ManagerTypes
<1>1. /\ fd \in nodes
      /\ q \in Queues
      /\ interest[fd] = epoll_flag[fd]
      /\ nodes' = nodes /\ open' = open /\ alive' = alive
      /\ batch' = [batch EXCEPT ![fd] = {}]
    BY DEF HandlerOut, Taken, InterestMirrorsNodes
<1>2. rest \in Queues
  <2>1. CASE q = <<>>
      BY <1>1, <2>1
  <2>2. CASE q # <<>>
    <3>1. r \in {-1} \union 1..Unsent(Head(q))
        BY <2>2 DEF WriteResults
    <3> QED BY <1>1, <2>2, <3>1, WrittenQueue
  <2> QED BY <2>1, <2>2
<1>3. write_buffer' = [write_buffer EXCEPT ![fd] = rest]
    BY DEF HandlerOut
<1>4. wire' \in [Fds -> Seq(Nat)]
  <2>1. CASE q = <<>> \/ r <= 0
      BY <2>1 DEF HandlerOut
  <2>2. CASE ~(q = <<>> \/ r <= 0)
    <3> DEFINE bytes == SubSeq(Head(q).buff, Head(q).pos + 1, Head(q).pos + r)
    <3>1. r \in 1..Unsent(Head(q))
        BY <2>2 DEF WriteResults
    <3>2. bytes \in Seq(Nat)
        BY <1>1, <2>2, <3>1, WrittenBytes
    <3>3. wire[fd] \o bytes \in Seq(Nat)
      <4> HIDE DEF bytes
      <4> QED BY <3>2
    <3>4. wire' = [wire EXCEPT ![fd] = wire[fd] \o bytes]
        BY <2>2 DEF HandlerOut
    <3> HIDE DEF bytes
    <3> QED BY <3>3, <3>4
  <2> QED BY <2>1, <2>2
<1> HIDE DEF rest
<1>5. epoll_flag' = [epoll_flag EXCEPT ![fd] =
                       IF rest = <<>> THEN epoll_flag[fd] \ {"OUT"} ELSE epoll_flag[fd]]
    BY DEF HandlerOut, rest
<1>6. interest' = IF rest = <<>>
                  THEN [interest EXCEPT ![fd] = epoll_flag[fd] \ {"OUT"}]
                  ELSE interest
    BY DEF HandlerOut, rest
<1>7. ManagerTypes'
    BY <1>1, <1>2, <1>3, <1>4, <1>5, <1>6 DEF Flags, Events
<1>8. InterestMirrorsNodes'
    BY <1>1, <1>5, <1>6 DEF InterestMirrorsNodes
<1>9. WritesAreArmed'
  <2>1. rest # <<>> => q # <<>>
      BY DEF rest
  <2>2. rest # <<>> => "OUT" \in interest[fd]
      BY <1>1, <2>1 DEF WritesAreArmed
  <2> QED BY <1>1, <1>3, <1>6, <2>2 DEF WritesAreArmed
<1> QED BY <1>7, <1>8, <1>9

\* Every step of the manager keeps the inductive invariant.
LEMMA ManagerStepKeeps == ManagerInv /\ [ManagerNext]_managerVars => ManagerInv'
<1> SUFFICES ASSUME ManagerInv, [ManagerNext]_managerVars
             PROVE  ManagerInv'
    OBVIOUS
<1> USE DEF ManagerInv, ManagerTypes
<1>1. ASSUME NEW ready \in [Fds -> SUBSET Events], Collect(ready)
      PROVE  ManagerInv'
    BY <1>1 DEF Collect, InterestMirrorsNodes, WritesAreArmed
<1>2. ASSUME NEW fd \in Fds, Skip(fd)
      PROVE  ManagerInv'
    BY <1>2 DEF Skip, InterestMirrorsNodes, WritesAreArmed
<1>3. ASSUME NEW fd \in Fds, NEW r \in WriteResults(fd), HandlerOut(fd, r)
      PROVE  ManagerInv'
    BY <1>3, HandlerOutKeeps
<1>4. ASSUME NEW fd \in Fds, HandlerOutKills(fd)
      PROVE  ManagerInv'
    BY <1>4 DEF HandlerOutKills, Taken, InterestMirrorsNodes, WritesAreArmed
<1>5. ASSUME NEW fd \in Fds, CallbackTaken(fd)
      PROVE  batch' \in [Fds -> SUBSET Events] /\ alive' \in BOOLEAN
    BY <1>5 DEF CallbackTaken, Taken
<1>6. ASSUME NEW fd \in Fds, CallbackQuiet(fd)
      PROVE  ManagerInv'
    BY <1>5, <1>6 DEF CallbackQuiet, InterestMirrorsNodes, WritesAreArmed
<1>7. ASSUME NEW fd \in Fds, NEW node \in Fds, NEW p \in Payloads,
             CallbackWrite(fd, node, p)
      PROVE  ManagerInv'
  <2>1. NodeWrite(node, p) /\ node \in nodes /\ write_buffer[node] = <<>>
      BY <1>7 DEF CallbackWrite
  <2>2. nodes' = nodes /\ open' = open /\ wire' = wire
      BY <2>1 DEF NodeWrite
  <2> QED BY <1>5, <1>7, <2>1, <2>2, NodeWriteKeeps DEF CallbackWrite
<1>8. ASSUME NEW fd \in Fds, NEW node \in Fds, CallbackRemove(fd, node)
      PROVE  ManagerInv'
  <2>1. FdRemove(node) /\ node \in nodes
      BY <1>8 DEF CallbackRemove
  <2>2. wire' = wire
      BY <2>1 DEF FdRemove
  <2> QED BY <1>5, <1>8, <2>1, <2>2, FdRemoveKeeps DEF CallbackRemove
<1>9. ASSUME NEW fd \in Fds, NEW new \in Fds, CallbackAdd(fd, new)
      PROVE  ManagerInv'
    BY <1>5, <1>9, NodeAddKeeps DEF CallbackAdd
<1>10. CASE UNCHANGED managerVars
    BY <1>10 DEF managerVars, InterestMirrorsNodes, WritesAreArmed
<1> QED BY <1>1, <1>2, <1>3, <1>4, <1>6, <1>7, <1>8, <1>9, <1>10 DEF ManagerNext

\* The inductive invariant holds of every behaviour.
THEOREM ManagerInvariant == ManagerSpec => []ManagerInv
<1>1. ManagerInit => ManagerInv
    BY ManagerInitInv
<1>2. ManagerInv /\ [ManagerNext]_managerVars => ManagerInv'
    BY ManagerStepKeeps
<1> QED BY <1>1, <1>2, PTL DEF ManagerSpec

(***************************************************************************)
(* The four invariants of the manager, for every instance.                 *)
(***************************************************************************)

\* The types, and that no queue ever holds a second buffer.
THEOREM ManagerTypeCorrect == ManagerSpec => []ManagerTypeOK
BY ManagerInvariant, ManagerInvSuffices, PTL

\* The kernel watches exactly the registered descriptors, with the flags of
\* their nodes, after any use of the manager by the callbacks.
THEOREM InterestCorrect == ManagerSpec => []InterestMirrorsNodes
BY ManagerInvariant, ManagerInvSuffices, PTL

\* Writability is asked for exactly while a buffer is queued.
THEOREM WritesCorrect == ManagerSpec => []WritesAreArmed
BY ManagerInvariant, ManagerInvSuffices, PTL

\* A queued buffer has bytes left, the size_t arithmetic of a failed write
\* included.
THEOREM BuffersCorrect == ManagerSpec => []QueuedBuffersHaveBytes
BY ManagerInvariant, ManagerInvSuffices, PTL
=============================================================================
