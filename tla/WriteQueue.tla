----------------------------- MODULE WriteQueue -----------------------------
(***************************************************************************)
(* The buffers queued on an event node of net_event.c, oldest first, as a  *)
(* sequence, and what a push and a write() of the front buffer make of it. *)
(***************************************************************************)
EXTENDS Integers, Sequences

CONSTANTS
    Payloads,   \* contents of the buffers handed to ne_manager_node_write
    SizeMod     \* size_t counts modulo SizeMod

ASSUME QueueAssumption ==
    /\ SizeMod \in Nat \ {0}
    /\ Payloads \subseteq Seq(Nat)
    /\ \A p \in Payloads : Len(p) \in 1..(SizeMod - 1)

\* ne_buffer_t; the bytes buff[pos] to the end are still to be written.
Buffers == [buff : Payloads, pos : 0..(SizeMod - 1)]

FromBuff(p) == [buff |-> p, pos |-> 0]

\* rb_node_net_event_write_push_back links the new buffer after the one that
\* write_buffer_back points to, which is always the first.
PushBack(q, b) == IF q = <<>> THEN <<b>> ELSE <<Head(q), b>>

PopFront(q) == Tail(q)

\* Variant: the position is signed, and a failed write is added to it.
PosAfterSigned(b, r) == b.pos + r

\* Variant: the result is assigned to the position, not added.
PosAfterAssigned(b, r) == IF r <= 0 THEN Len(b.buff) - 1 ELSE r

\* The position of the front buffer once write() has returned r; a result
\* r <= 0 first sets the position to the size, then adds r as a size_t.
PosAfter(b, r) ==
    LET from == IF r <= 0 THEN Len(b.buff) ELSE b.pos
    IN  (from + r + SizeMod) % SizeMod

\* The front buffer has been written up to p.
MovedTo(q, p) == <<[buff |-> Head(q).buff, pos |-> p]>> \o Tail(q)

\* Variant: a buffer written to its end stays.
WrittenOffByOne(q, r) ==
    LET p == PosAfter(Head(q), r)
    IN  IF p > Len(Head(q).buff) THEN PopFront(q) ELSE MovedTo(q, p)

\* The queue once write() has returned r for its front buffer.
Written(q, r) ==
    LET p == PosAfter(Head(q), r)
    IN  IF p >= Len(Head(q).buff) THEN PopFront(q) ELSE MovedTo(q, p)

Unsent(b) == Len(b.buff) - b.pos

UnsentBytes(b) == SubSeq(b.buff, b.pos + 1, Len(b.buff))
=============================================================================
