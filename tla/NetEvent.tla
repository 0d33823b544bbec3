------------------------------ MODULE NetEvent ------------------------------
(***************************************************************************)
(* The event manager of kdevelop-socket5-tar/src/net_event.c: the registry *)
(* of event nodes (one per descriptor), the interest list the kernel keeps *)
(* for the epoll descriptor, the per-node queue of buffers to write, and   *)
(* the loop that collects a batch of events and dispatches them one by     *)
(* one.  The callbacks of the nodes are left open: one run of a callback   *)
(* may use the manager once, to queue a buffer on a node that has none, to *)
(* remove a node (its own or another) or to register a descriptor it has   *)
(* just opened.  S5Tar gives the real callbacks and is shown to implement  *)
(* this module.                                                            *)
(*                                                                         *)
(* The red-black tree that holds the nodes is abstracted to the set of     *)
(* descriptors it contains (module RBTree has the tree), and a node's      *)
(* linked list of buffers to a sequence (NeBuffer has the list).           *)
(***************************************************************************)
EXTENDS WriteQueue, FiniteSets

CONSTANTS
    Fds,        \* descriptors the process may hold (the epoll one apart)
    ListenFd,   \* the listening socket
    MaxEvents   \* length of the epe array of ne_manager_poll

ASSUME ManagerAssumption ==
    /\ ListenFd \in Fds
    /\ MaxEvents \in Nat \ {0}

VARIABLES
    nodes,        \* descriptors with a node in ne_manager->root
    open,         \* descriptors the process has open
    epoll_flag,   \* node->epoll_flag
    interest,     \* what the kernel watches for the descriptor, {} if nothing
    write_buffer, \* the buffers queued on the node, oldest first
    batch,        \* events of this epoll_wait not yet dispatched, {} for none
    wire,         \* history: bytes accepted by write() since the open
    alive         \* FALSE once SIGPIPE has ended the process

managerVars == <<nodes, open, epoll_flag, interest, write_buffer, batch, wire, alive>>

Flags  == {"IN", "OUT"}
Events == Flags \union {"ERR"}

(***************************************************************************)
(* The operations of the manager.                                          *)
(***************************************************************************)

\* Variant: the node remembers the flag and the kernel is not told.
NodeWriteUntold(fd, p) ==
    /\ write_buffer' = [write_buffer EXCEPT ![fd] = PushBack(@, FromBuff(p))]
    /\ epoll_flag' = [epoll_flag EXCEPT ![fd] = @ \union {"OUT"}]
    /\ UNCHANGED <<nodes, open, interest, wire>>

\* ne_manager_node_write: queue p on the node of fd and ask for writability.
NodeWrite(fd, p) ==
    /\ write_buffer' = [write_buffer EXCEPT ![fd] = PushBack(@, FromBuff(p))]
    /\ epoll_flag' = [epoll_flag EXCEPT ![fd] = @ \union {"OUT"}]
    /\ interest' = IF "OUT" \in epoll_flag[fd]
                   THEN interest
                   ELSE [interest EXCEPT ![fd] = epoll_flag[fd] \union {"OUT"}]
    /\ UNCHANGED <<nodes, open, wire>>

\* ne_manager_node_add for a descriptor the kernel has just opened.
NodeAdd(fd) ==
    /\ fd \notin open
    /\ open' = open \union {fd}
    /\ nodes' = nodes \union {fd}
    /\ epoll_flag' = [epoll_flag EXCEPT ![fd] = {"IN"}]
    /\ interest' = [interest EXCEPT ![fd] = {"IN"}]
    /\ write_buffer' = [write_buffer EXCEPT ![fd] = <<>>]
    /\ wire' = [wire EXCEPT ![fd] = <<>>]

\* ne_manager_fd_remove: out of the interest list, out of the tree, closed,
\* and the node and the buffers still queued on it freed.
FdRemove(fd) ==
    /\ nodes' = nodes \ {fd}
    /\ open' = open \ {fd}
    /\ epoll_flag' = [epoll_flag EXCEPT ![fd] = {}]
    /\ interest' = [interest EXCEPT ![fd] = {}]
    /\ write_buffer' = [write_buffer EXCEPT ![fd] = <<>>]
    /\ UNCHANGED wire

(***************************************************************************)
(* The loop.  epoll_wait fills the array once; the for loop then looks up  *)
(* each descriptor again and dispatches.  The array's order is the         *)
(* kernel's choice, so the batch is kept as a function of the descriptor.  *)
(***************************************************************************)
Dispatching == \E fd \in Fds : batch[fd] # {}

Collect(ready) ==
    /\ alive
    /\ ~Dispatching
    /\ \A fd \in Fds : interest[fd] = {} => ready[fd] = {}
    /\ \A fd \in Fds : ready[fd] \subseteq interest[fd] \union {"ERR"}
    /\ Cardinality({fd \in Fds : ready[fd] # {}}) \in 1..MaxEvents
    /\ batch' = ready
    /\ UNCHANGED <<nodes, open, epoll_flag, interest, write_buffer, wire, alive>>

\* Variant: one flag of the entry is dispatched, the others are left for later.
TakenByFlag(fd) ==
    /\ alive
    /\ batch[fd] # {}
    /\ fd \in nodes
    /\ batch' = [batch EXCEPT ![fd] = @ \ {"IN"}]

\* The for loop of ne_manager_poll takes the entry of fd and finds its node.
Taken(fd) ==
    /\ alive
    /\ batch[fd] # {}
    /\ fd \in nodes
    /\ batch' = [batch EXCEPT ![fd] = {}]

\* The entry of a descriptor that has no node any more is skipped.
Skip(fd) ==
    /\ alive
    /\ batch[fd] # {}
    /\ fd \notin nodes
    /\ batch' = [batch EXCEPT ![fd] = {}]
    /\ UNCHANGED <<nodes, open, epoll_flag, interest, write_buffer, wire, alive>>

\* What write() may return for the front buffer of fd.
WriteResults(fd) ==
    LET q == write_buffer[fd]
    IN  {-1} \union (IF q = <<>> THEN {} ELSE 1..Unsent(Head(q)))

\* Variant: the interest in writability is never given up.
HandlerOutArmed(fd, r) ==
    LET q == write_buffer[fd]
    IN  /\ Taken(fd)
        /\ "OUT" \in batch[fd]
        /\ write_buffer' = [write_buffer EXCEPT ![fd] = IF q = <<>> THEN q ELSE Written(q, r)]
        /\ UNCHANGED <<nodes, open, epoll_flag, interest, wire, alive>>

\* handler__ on a writable descriptor: one write() of the front buffer, which
\* accepts r bytes (r = -1: it fails), then no more interest in writability
\* when nothing is queued.
HandlerOut(fd, r) ==
    LET q    == write_buffer[fd]
        rest == IF q = <<>> THEN q ELSE Written(q, r)
        flag == IF rest = <<>> THEN epoll_flag[fd] \ {"OUT"} ELSE epoll_flag[fd]
    IN  /\ Taken(fd)
        /\ "OUT" \in batch[fd]
        /\ write_buffer' = [write_buffer EXCEPT ![fd] = rest]
        /\ epoll_flag' = [epoll_flag EXCEPT ![fd] = flag]
        /\ interest' = IF rest = <<>> THEN [interest EXCEPT ![fd] = flag] ELSE interest
        /\ wire' = IF q = <<>> \/ r <= 0
                   THEN wire
                   ELSE [wire EXCEPT ![fd] =
                           @ \o SubSeq(Head(q).buff, Head(q).pos + 1, Head(q).pos + r)]
        /\ UNCHANGED <<nodes, open, alive>>

\* The same branch when the connection was already known to be broken: the
\* write raises SIGPIPE, which the program leaves at its default.
HandlerOutKills(fd) ==
    /\ Taken(fd)
    /\ "OUT" \in batch[fd]
    /\ write_buffer[fd] # <<>>
    /\ alive' = FALSE
    /\ UNCHANGED <<nodes, open, epoll_flag, interest, write_buffer, wire>>

\* Variant: the callback runs even when the descriptor is writable.
CallbackTakenFirst(fd) ==
    /\ Taken(fd)
    /\ UNCHANGED alive

\* handler__ on any other event runs the node's callback.
CallbackTaken(fd) ==
    /\ Taken(fd)
    /\ "OUT" \notin batch[fd]
    /\ UNCHANGED alive

CallbackQuiet(fd) ==
    /\ CallbackTaken(fd)
    /\ UNCHANGED <<nodes, open, epoll_flag, interest, write_buffer, wire>>

CallbackWrite(fd, node, p) ==
    /\ CallbackTaken(fd)
    /\ node \in nodes
    /\ write_buffer[node] = <<>>
    /\ NodeWrite(node, p)

CallbackRemove(fd, node) ==
    /\ CallbackTaken(fd)
    /\ node \in nodes
    /\ FdRemove(node)

CallbackAdd(fd, new) ==
    /\ CallbackTaken(fd)
    /\ NodeAdd(new)

\* The manager after ne_manager_new and the registration of the listener.
ManagerInit ==
    /\ nodes = {ListenFd}
    /\ open = {ListenFd}
    /\ epoll_flag = [fd \in Fds |-> IF fd = ListenFd THEN {"IN"} ELSE {}]
    /\ interest = [fd \in Fds |-> IF fd = ListenFd THEN {"IN"} ELSE {}]
    /\ write_buffer = [fd \in Fds |-> <<>>]
    /\ batch = [fd \in Fds |-> {}]
    /\ wire = [fd \in Fds |-> <<>>]
    /\ alive = TRUE

ManagerNext ==
    \/ \E ready \in [Fds -> SUBSET Events] : Collect(ready)
    \/ \E fd \in Fds :
         \/ Skip(fd)
         \/ \E r \in WriteResults(fd) : HandlerOut(fd, r)
         \/ HandlerOutKills(fd)
         \/ CallbackQuiet(fd)
         \/ \E node \in Fds, p \in Payloads : CallbackWrite(fd, node, p)
         \/ \E node \in Fds : CallbackRemove(fd, node)
         \/ \E new \in Fds : CallbackAdd(fd, new)

ManagerSpec == ManagerInit /\ [][ManagerNext]_managerVars

(***************************************************************************)
(* Properties.                                                             *)
(***************************************************************************)

\* The types of the manager's state.  A queue never has a second buffer: that
\* is what makes the broken tail pointer of the linked list harmless.
ManagerTypeOK ==
    /\ nodes \subseteq Fds
    /\ open \subseteq Fds
    /\ epoll_flag \in [Fds -> SUBSET Flags]
    /\ interest \in [Fds -> SUBSET Flags]
    /\ write_buffer \in [Fds -> Seq(Buffers)]
    /\ \A fd \in Fds : Len(write_buffer[fd]) <= 1
    /\ batch \in [Fds -> SUBSET Events]
    /\ wire \in [Fds -> Seq(Nat)]
    /\ alive \in BOOLEAN

\* The kernel's interest list is the image of the tree: it watches exactly the
\* registered descriptors, with the flags their nodes remember, so that a node
\* is never left without events (no lost ne_manager_node_modify) and no
\* descriptor stays open, or watched, without a node (no leak, no orphan).
InterestMirrorsNodes ==
    /\ open = nodes
    /\ \A fd \in Fds : interest[fd] = IF fd \in nodes THEN epoll_flag[fd] ELSE {}

\* Writability is asked for exactly while something is queued: a queued buffer
\* is never forgotten (no lost wake-up), and an idle socket, which is always
\* writable, never makes the loop spin.
WritesAreArmed ==
    \A fd \in nodes : "OUT" \in interest[fd] <=> write_buffer[fd] # <<>>

\* A queued buffer still has bytes to send, so that write() is never called
\* with a length of zero and the buffer is popped the moment it is done.
QueuedBuffersHaveBytes ==
    \A fd \in Fds : write_buffer[fd] # <<>> => Unsent(Head(write_buffer[fd])) > 0

\* net_event.c:201 says of a failed write "get error, ignore current buff to
\* write": the buffer is given up when write() fails.
FailedWriteDropsBuffer ==
    [][\A fd \in nodes :
          (/\ "OUT" \in batch[fd] /\ batch'[fd] = {}
           /\ write_buffer[fd] # <<>>
           /\ wire'[fd] = wire[fd]
           /\ alive')
          => write_buffer'[fd] = Tail(write_buffer[fd])]_managerVars
=============================================================================
