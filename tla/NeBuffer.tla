------------------------------ MODULE NeBuffer ------------------------------
(***************************************************************************)
(* The linked list of buffers of one event node of net_event.c, with its   *)
(* pointers: write_buffer to the first, write_buffer_back, and the memory  *)
(* malloc gives and free takes back.  The list is the queue of WriteQueue  *)
(* as long as its user keeps to MaxQueued = 1 buffers, which is what the   *)
(* invariant ManagerTypeOK of NetEvent says of the manager and what S5Tar  *)
(* is shown to do.                                                         *)
(***************************************************************************)
EXTENDS WriteQueue, FiniteSets, SequencesExt

CONSTANTS
    Cells,      \* addresses malloc may return
    Null,
    MaxQueued,  \* the buffers a user of the node has queued at a time
    MaxPushes   \* bound: pushes in a behaviour

ASSUME BufferAssumption ==
    /\ IsFiniteSet(Cells) /\ Null \notin Cells
    /\ MaxQueued \in Nat /\ MaxPushes \in Nat

VARIABLES
    heap,    \* the ne_buffer_t at each address, live from malloc to free
    front,   \* node->write_buffer
    back,    \* node->write_buffer_back
    wire,    \* history: the bytes write() has accepted
    pushed,  \* history: the bytes pushed
    pushes,  \* history: how many pushes
    failed   \* history: a write() has failed

bufferVars == <<heap, front, back, wire, pushed, pushes, failed>>

Free == [live |-> FALSE, buff |-> <<>>, pos |-> 0, next |-> Null]

\* The cells of a table from c on, following next.
Linked(table, c) ==
    LET at[i \in 1..Cardinality(Cells)] ==
          IF i = 1 THEN c ELSE IF at[i - 1] = Null THEN Null ELSE table[at[i - 1]].next
    IN  [i \in {j \in 1..Cardinality(Cells) : at[j] # Null} |-> at[i]]

Chain(c) == Linked(heap, c)

CellsOf(c) == {Chain(c)[i] : i \in 1..Len(Chain(c))}

\* The queue the list stands for.
Queue == [i \in 1..Len(Chain(front)) |->
            [buff |-> heap[Chain(front)[i]].buff, pos |-> heap[Chain(front)[i]].pos]]

\* rb_node_net_event_write_push_back, c being what malloc returns.
WritePushBack(p, c) ==
    LET item == [live |-> TRUE, buff |-> p, pos |-> 0, next |-> Null]
    IN  IF front = Null
        THEN /\ heap' = [heap EXCEPT ![c] = item]
             /\ front' = c
             /\ back' = c
        ELSE /\ heap' = [heap EXCEPT ![c] = item, ![back].next = c]
             /\ UNCHANGED <<front, back>>

Push ==
    /\ Len(Queue) < MaxQueued
    /\ pushes < MaxPushes
    /\ \E p \in Payloads, c \in {x \in Cells : ~heap[x].live} :
         /\ WritePushBack(p, c)
         /\ pushed' = pushed \o p
    /\ pushes' = pushes + 1
    /\ UNCHANGED <<wire, failed>>

\* Variant: nothing is freed.
FreedNothing(c) == heap

\* ne_buffer_free: c and every buffer linked after it.
Freed(c) == [x \in Cells |-> IF x \in CellsOf(c) THEN Free ELSE heap[x]]

\* Variant: the buffer is freed and stays at the front.
PopFrountStays ==
    /\ heap' = Freed(front)
    /\ UNCHANGED <<front, back>>

\* rb_node_net_event_write_buffer_pop_frount: the buffer at the front is freed
\* with all that is linked after it.
PopFrount ==
    /\ front' = heap[front].next
    /\ back' = IF front' = Null THEN Null ELSE back
    /\ heap' = Freed(front)

\* The write() of handler__ and what follows it, r being its result.
WriteFront ==
    /\ front # Null /\ heap[front].live
    /\ \E r \in {-1} \union 1..Unsent(heap[front]) :
         LET p == PosAfter(heap[front], r)
         IN  /\ IF p >= Len(heap[front].buff)
                THEN PopFrount
                ELSE /\ heap' = [heap EXCEPT ![front].pos = p]
                     /\ UNCHANGED <<front, back>>
             /\ wire' = IF r <= 0 THEN wire
                        ELSE wire \o SubSeq(heap[front].buff, heap[front].pos + 1,
                                            heap[front].pos + r)
             /\ failed' = (failed \/ r = -1)
    /\ UNCHANGED <<pushed, pushes>>

\* rb_node_net_event_delete, and a new node in its place.
NodeDelete ==
    /\ heap' = IF front = Null THEN heap ELSE Freed(front)
    /\ front' = Null
    /\ back' = Null
    /\ wire' = <<>>
    /\ pushed' = <<>>
    /\ failed' = FALSE
    /\ UNCHANGED pushes

BufferInit ==
    /\ heap = [c \in Cells |-> Free]
    /\ front = Null
    /\ back = Null
    /\ wire = <<>>
    /\ pushed = <<>>
    /\ pushes = 0
    /\ failed = FALSE

BufferNext == Push \/ WriteFront \/ NodeDelete

BufferSpec == BufferInit /\ [][BufferNext]_bufferVars

(***************************************************************************)
(* Properties.                                                             *)
(***************************************************************************)

\* The list, from front to its end, holds what malloc gave until it is freed:
\* no read of freed memory by handler__ and no buffer leaked, and the tail
\* pointer is null with the head.
ListHoldsMemory ==
    /\ CellsOf(front) = {c \in Cells : heap[c].live}
    /\ front = Null <=> back = Null

\* While no write() has failed, the bytes on the wire and those in the list
\* are the bytes pushed, in order: none is lost, repeated or overtaken.
BytesInOrder ==
    ~failed => wire \o FlattenSeq([i \in 1..Len(Queue) |-> UnsentBytes(Queue[i])]) = pushed

\* Each step of the list is a step of the queue of WriteQueue.
ImplementsQueue ==
    [][\/ \E p \in Payloads : Queue' = PushBack(Queue, FromBuff(p))
       \/ Queue # <<>> /\ \E r \in {-1} \union 1..Unsent(Head(Queue)) : Queue' = Written(Queue, r)
       \/ Queue' = <<>>]_Queue
=============================================================================
