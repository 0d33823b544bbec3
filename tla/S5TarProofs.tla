---------------------------- MODULE S5TarProofs -----------------------------
(***************************************************************************)
(* The handshake server implements the event manager, and keeps what it    *)
(* promises its clients, for every set of descriptors, clients and scripts *)
(* and wherever the bytes are cut.  What makes it keep to the contract of  *)
(* the manager (never to queue on a node that has a buffer queued) is the  *)
(* order of handler__: a descriptor that has something to write is         *)
(* reported writable with every event, and a writable descriptor is not    *)
(* read.  That is the invariant BatchArmed.                                *)
(***************************************************************************)
EXTENDS S5Tar, NetEventProofs

\* A collected event tells whether writability is asked for, and still does
\* when it is dispatched: nothing but the dispatch of fd changes that.
BatchArmed ==
    \A fd \in Fds \ {ListenFd} :
        batch[fd] # {} => ("OUT" \in batch[fd] <=> "OUT" \in interest[fd])

ServerInv == ManagerInv /\ EventsHaveNodes /\ BatchArmed

\* The method reply is queued on an empty queue.
LEMMA EmptyWhenRead ==
    ASSUME ServerInv, NEW fd \in Fds, CallbackTaken(fd), fd # ListenFd
    PROVE  fd \in nodes /\ write_buffer[fd] = <<>>
BY DEF ServerInv, BatchArmed, ManagerInv, WritesAreArmed, CallbackTaken, Taken

(***************************************************************************)
(* Every step of the server is a step of the manager, or none of it.       *)
(***************************************************************************)
LEMMA ReadyEventsType ==
    ASSUME ManagerInv, NEW fd \in Fds
    PROVE  ReadyEvents(fd) \in SUBSET Events
BY DEF ReadyEvents, ManagerInv, ManagerTypes, Flags, Events

LEMMA EpollWaitCollects ==
    ASSUME ManagerInv, EpollWait
    PROVE  \E S \in SUBSET Fds :
             /\ [fd \in Fds |-> IF fd \in S THEN ReadyEvents(fd) ELSE {}]
                  \in [Fds -> SUBSET Events]
             /\ Collect([fd \in Fds |-> IF fd \in S THEN ReadyEvents(fd) ELSE {}])
<1>1. PICK S \in SUBSET Fds :
         Collect([fd \in Fds |-> IF fd \in S THEN ReadyEvents(fd) ELSE {}])
    BY DEF EpollWait
<1>2. [fd \in Fds |-> IF fd \in S THEN ReadyEvents(fd) ELSE {}] \in [Fds -> SUBSET Events]
    BY ReadyEventsType
<1> QED BY <1>1, <1>2

\* What a dispatch of an event of a connection is to the manager.
LEMMA DispatchIsManagerStep ==
    ASSUME ServerInv, NEW fd \in Fds, Dispatch(fd)
    PROVE  \/ \E r \in WriteResults(fd) : HandlerOut(fd, r)
           \/ HandlerOutKills(fd)
           \/ CallbackQuiet(fd)
           \/ CallbackWrite(fd, fd, MethodReply)
           \/ CallbackRemove(fd, fd)
<1>1. CASE Flush(fd)
    BY <1>1 DEF Flush
<1>2. CASE FlushBroken(fd)
    BY <1>2 DEF FlushBroken
<1>3. ASSUME S5tarError(fd) PROVE CallbackRemove(fd, fd)
    BY <1>3 DEF S5tarError, CallbackRemove, CallbackTaken, Taken
<1>4. CASE LinkBreak(fd) \/ Request1Unknown(fd) \/ Request2(fd)
    BY <1>3, <1>4 DEF LinkBreak, Request1Unknown, Request2
<1>5. CASE ReadMore(fd) \/ MothedC1(fd) \/ Request1(fd)
    BY <1>5 DEF ReadMore, MothedC1, Request1, Reading, SetArgs, CallbackQuiet
<1>6. CASE MothedC2(fd)
    BY <1>6, EmptyWhenRead DEF MothedC2, Reading, CallbackWrite
<1> QED BY <1>1, <1>2, <1>4, <1>5, <1>6 DEF Dispatch

LEMMA ServerStepIsManagerStep ==
    ServerInv /\ [Next]_vars => [ManagerNext]_managerVars
<1> SUFFICES ASSUME ServerInv, [Next]_vars PROVE [ManagerNext]_managerVars
    OBVIOUS
<1>1. CASE EpollWait
    BY <1>1, EpollWaitCollects DEF ServerInv, ManagerNext
<1>2. CASE NotAccept
    BY <1>2, ManagerAssumption DEF NotAccept, ManagerNext
<1>3. CASE \E fd \in Fds : HandleListen(fd)
    BY <1>3, ManagerAssumption DEF HandleListen, ManagerNext
<1>4. CASE \E fd \in Fds : Dispatch(fd)
  <2>1. MethodReply \in Payloads
      BY ServerAssumption
  <2> QED BY <1>4, <2>1, DispatchIsManagerStep DEF ManagerNext
<1>5. CASE Clients
    BY <1>5 DEF Clients, Connect, Send, Close, Reset, ClientStep
<1>6. CASE UNCHANGED vars
    BY <1>6 DEF vars
<1> QED BY <1>1, <1>2, <1>3, <1>4, <1>5, <1>6 DEF Next, Loop

(***************************************************************************)
(* The invariant of the server is inductive.                               *)
(***************************************************************************)

\* What is collected is armed as the kernel has it, and has a node.
LEMMA CollectedIsArmed ==
    ASSUME ServerInv, EpollWait
    PROVE  EventsHaveNodes' /\ BatchArmed'
<1>1. PICK S \in SUBSET Fds :
         Collect([fd \in Fds |-> IF fd \in S THEN ReadyEvents(fd) ELSE {}])
    BY DEF EpollWait
<1>2. /\ batch' = [fd \in Fds |-> IF fd \in S THEN ReadyEvents(fd) ELSE {}]
      /\ \A fd \in Fds : interest[fd] = {} => batch'[fd] = {}
      /\ nodes' = nodes /\ interest' = interest
    BY <1>1 DEF Collect
<1>3. EventsHaveNodes'
    BY <1>2 DEF ServerInv, ManagerInv, InterestMirrorsNodes, EventsHaveNodes
<1>4. ASSUME NEW fd \in Fds \ {ListenFd}
      PROVE  "OUT" \in ReadyEvents(fd) <=> "OUT" \in interest[fd]
    BY <1>4 DEF ReadyEvents
<1>5. BatchArmed'
    BY <1>2, <1>4 DEF BatchArmed
<1> QED BY <1>3, <1>5

\* A dispatch takes its own event out and changes no other descriptor.
LEMMA DispatchKeepsBatch ==
    ASSUME ServerInv, NEW fd \in Fds, Taken(fd),
           \A other \in Fds \ {fd} : /\ other \in nodes => other \in nodes'
                                     /\ interest'[other] = interest[other]
    PROVE  EventsHaveNodes' /\ BatchArmed'
<1>1. batch \in [Fds -> SUBSET Events] /\ batch' = [batch EXCEPT ![fd] = {}]
    BY DEF ServerInv, ManagerInv, ManagerTypes, Taken
<1>2. EventsHaveNodes'
    BY <1>1 DEF ServerInv, EventsHaveNodes
<1>3. BatchArmed'
    BY <1>1 DEF ServerInv, BatchArmed
<1> QED BY <1>2, <1>3

LEMMA ServerStepKeeps == ServerInv /\ [Next]_vars => ServerInv'
<1> SUFFICES ASSUME ServerInv, [Next]_vars PROVE ServerInv'
    OBVIOUS
<1>1. ManagerInv'
    BY ServerStepIsManagerStep, ManagerStepKeeps DEF ServerInv
<1>2. CASE EpollWait
    BY <1>1, <1>2, CollectedIsArmed DEF ServerInv
<1>3. CASE NotAccept
  <2>1. Taken(ListenFd) /\ nodes' = nodes /\ interest' = interest
      BY <1>3 DEF NotAccept, CallbackQuiet, CallbackTaken
  <2> QED BY <1>1, <2>1, DispatchKeepsBatch, ManagerAssumption DEF ServerInv
<1>4. ASSUME NEW new \in Fds, HandleListen(new)
      PROVE  ServerInv'
  <2>1. /\ Taken(ListenFd)
        /\ new \notin nodes
        /\ nodes' = nodes \union {new}
        /\ interest' = [interest EXCEPT ![new] = {"IN"}]
      BY <1>4 DEF HandleListen, CallbackAdd, CallbackTaken, NodeAdd, ServerInv, ManagerInv,
                  InterestMirrorsNodes
  <2>2. batch \in [Fds -> SUBSET Events] /\ interest \in [Fds -> SUBSET Flags]
      BY DEF ServerInv, ManagerInv, ManagerTypes
  <2>3. batch' = [batch EXCEPT ![ListenFd] = {}]
      BY <2>1 DEF Taken
  <2>4. EventsHaveNodes'
      BY <2>1, <2>2, <2>3 DEF ServerInv, EventsHaveNodes
  <2>5. BatchArmed'
      BY <2>1, <2>2, <2>3 DEF ServerInv, BatchArmed, EventsHaveNodes
  <2> QED BY <1>1, <2>4, <2>5 DEF ServerInv
<1>5. ASSUME NEW fd \in Fds, Dispatch(fd)
      PROVE  ServerInv'
  <2>1. /\ Taken(fd)
        /\ \A other \in Fds \ {fd} : /\ other \in nodes => other \in nodes'
                                     /\ interest'[other] = interest[other]
    <3>1. interest \in [Fds -> SUBSET Flags]
        BY DEF ServerInv, ManagerInv, ManagerTypes
    <3>2. ASSUME NEW r \in WriteResults(fd), HandlerOut(fd, r) PROVE <2>1
        BY <3>1, <3>2 DEF HandlerOut
    <3>3. CASE HandlerOutKills(fd)
        BY <3>3 DEF HandlerOutKills
    <3>4. CASE CallbackQuiet(fd)
        BY <3>4 DEF CallbackQuiet, CallbackTaken
    <3>5. CASE CallbackWrite(fd, fd, MethodReply)
        BY <3>1, <3>5 DEF CallbackWrite, CallbackTaken, NodeWrite
    <3>6. CASE CallbackRemove(fd, fd)
        BY <3>1, <3>6 DEF CallbackRemove, CallbackTaken, FdRemove
    <3> QED BY <1>5, <3>2, <3>3, <3>4, <3>5, <3>6, DispatchIsManagerStep
  <2> QED BY <1>1, <2>1, DispatchKeepsBatch DEF ServerInv
<1>6. CASE Clients \/ UNCHANGED vars
  <2>1. UNCHANGED <<nodes, interest, batch>>
      BY <1>6 DEF Clients, Connect, Send, Close, Reset, ClientStep, vars, managerVars
  <2> QED BY <1>1, <2>1 DEF ServerInv, EventsHaveNodes, BatchArmed
<1> QED BY <1>2, <1>3, <1>4, <1>5, <1>6 DEF Next, Loop

LEMMA ServerInitInv == Init => ServerInv /\ ManagerInit
<1> SUFFICES ASSUME Init PROVE ServerInv /\ ManagerInit
    OBVIOUS
<1>1. ManagerInit
    BY DEF Init
<1>2. EventsHaveNodes /\ BatchArmed
    BY <1>1 DEF ManagerInit, EventsHaveNodes, BatchArmed
<1> QED BY <1>1, <1>2, ManagerInitInv DEF ServerInv

\* The inductive invariant of the server.
THEOREM ServerInvariant == Spec => []ServerInv
<1>1. Init => ServerInv
    BY ServerInitInv
<1>2. ServerInv /\ [Next]_vars => ServerInv'
    BY ServerStepKeeps
<1> QED BY <1>1, <1>2, PTL DEF Spec

\* The server uses the manager within its contract: it is an instance of
\* NetEvent with the callbacks of socket5_tar_handler.c and handle_listen.
THEOREM ServerImplementsManager == Spec => ImplementsManager
<1>1. Init => ManagerInit
    BY ServerInitInv
<1>2. ServerInv /\ [Next]_vars => [ManagerNext]_managerVars
    BY ServerStepIsManagerStep
<1> QED BY <1>1, <1>2, ServerInvariant, PTL DEF Spec, ImplementsManager, ManagerSpec

\* Interest list, tree and open descriptors agree in the server.
THEOREM ServerInterestCorrect == Spec => []InterestMirrorsNodes
BY ServerImplementsManager, InterestCorrect, PTL DEF ImplementsManager

\* The server never forgets a queued reply, and never spins on an idle socket.
THEOREM ServerWritesCorrect == Spec => []WritesAreArmed
BY ServerImplementsManager, WritesCorrect, PTL DEF ImplementsManager

\* No event in the array outlives its connection.
THEOREM EventsCorrect == Spec => []EventsHaveNodes
<1>1. ServerInv => EventsHaveNodes
    BY DEF ServerInv
<1> QED BY <1>1, ServerInvariant, PTL

\* A connection that takes over a descriptor inside a batch gets none of the
\* events collected for the connection that had it before.
THEOREM FreshNodeCorrect == Spec => FreshNodeHasNoEvent
<1> DEFINE Fresh == \A fd \in Fds : fd \notin nodes /\ fd \in nodes' => batch'[fd] = {}
<1>1. ServerInv /\ [Next]_vars => [Fresh]_vars
  <2> SUFFICES ASSUME ServerInv, Next PROVE Fresh
      OBVIOUS
  <2>1. CASE EpollWait
      BY <2>1 DEF EpollWait, Collect
  <2>2. CASE NotAccept
      BY <2>2 DEF NotAccept, CallbackQuiet
  <2>3. CASE \E new \in Fds : HandleListen(new)
    <3>1. batch \in [Fds -> SUBSET Events]
        BY DEF ServerInv, ManagerInv, ManagerTypes
    <3> QED BY <2>3, <3>1 DEF HandleListen, CallbackAdd, CallbackTaken, Taken, NodeAdd,
                              ServerInv, EventsHaveNodes
  <2>4. CASE \E fd \in Fds : Dispatch(fd)
    <3>1. nodes' \subseteq nodes
        BY <2>4, DispatchIsManagerStep
        DEF HandlerOut, HandlerOutKills, CallbackQuiet, CallbackWrite, CallbackRemove,
            NodeWrite, FdRemove
    <3> QED BY <3>1
  <2>5. CASE Clients
      BY <2>5 DEF Clients, Connect, Send, Close, Reset, ClientStep, managerVars
  <2> QED BY <2>1, <2>2, <2>3, <2>4, <2>5 DEF Next, Loop
<1> QED BY <1>1, ServerInvariant, PTL DEF Spec, FreshNodeHasNoEvent

(***************************************************************************)
(* The types of the connections.  They rest on the socket's order (no more *)
(* is consumed than was sent, and no more sent than the script has) and on *)
(* the listener, whose socket has no bytes, staying registered.            *)
(***************************************************************************)
Sockets == {c \in Conns : c.consumed <= c.sent /\ c.sent <= Len(c.script)}

ListenerWaits ==
    /\ ListenFd \in nodes
    /\ conn[ListenFd] = NoConn
    /\ batch[ListenFd] # {} => backlog > 0

ServerTypes ==
    /\ args \in [Fds -> Args]
    /\ conn \in [Fds -> Sockets]
    /\ backlog \in Nat
    /\ accepted \in Nat
    /\ ListenerWaits

LEMMA Constants ==
    /\ CharMod \in Nat /\ SizeMod \in Nat /\ SizeMod > 0
    /\ SizeMod > 22 /\ SizeMod > CharMod
    /\ \A s \in Scripts : s \in Seq(Bytes)
    /\ \A b \in Bytes : AsSize(b) \in Nat
BY ServerAssumption, QueueAssumption DEF AsSize, Bytes

LEMMA EmptyTypes == NoBuff \in [Offsets -> Bytes \union {Uninit}] /\ NoArgs \in Args /\ NoConn \in Sockets
<1>1. NoBuff \in [Offsets -> Bytes \union {Uninit}]
    BY DEF NoBuff
<1>2. NoArgs \in Args
    BY <1>1, Constants DEF NoArgs, Args
<1>3. NoConn \in Sockets
    BY DEF NoConn, Sockets, Conns
<1> QED BY <1>1, <1>2, <1>3

LEMMA SocketTypes ==
    ASSUME NEW c \in Sockets
    PROVE  /\ c \in Conns /\ c.err \in BOOLEAN
           /\ c.sent \in Nat /\ c.consumed \in Nat /\ c.consumed <= c.sent
           /\ c.script \in Seq(Bytes) /\ c.sent <= Len(c.script)
<1>1. /\ c \in Conns /\ c.script \in Scripts \union {<<>>}
      /\ c.consumed <= c.sent /\ c.sent <= Len(c.script)
    BY DEF Sockets, Conns
<1>2. CASE c.script = <<>>
    BY <1>1, <1>2 DEF Conns
<1>3. CASE c.script \in Scripts
    BY <1>1, <1>3, Constants DEF Conns
<1> QED BY <1>1, <1>2, <1>3

\* A socket from which g bytes more are consumed.
LEMMA ConsumeTypes ==
    ASSUME NEW c \in Sockets, NEW g \in Nat, c.consumed + g <= c.sent, NEW e \in BOOLEAN
    PROVE  [c EXCEPT !.consumed = c.consumed + g, !.err = e] \in Sockets
<1> DEFINE m == c.consumed + g
           r == [c EXCEPT !.consumed = m, !.err = e]
<1>1. c \in Conns /\ m \in Nat /\ m <= c.sent /\ c.sent <= Len(c.script)
    BY SocketTypes
<1> HIDE DEF m
<1>2. r \in Conns /\ r.consumed = m /\ r.sent = c.sent /\ r.script = c.script
    BY <1>1 DEF Conns
<1>3. r \in Sockets
    BY <1>1, <1>2 DEF Sockets
<1> QED BY <1>3 DEF m

\* What a read makes of the socket and of the buffer.
LEMMA ReadTypes ==
    ASSUME ServerTypes, NEW fd \in Fds
    PROVE  /\ Got(fd) \in Nat
           /\ HasRead(fd) \in Nat
           /\ SocketRead(fd) \in Sockets
           /\ Filled(fd) \in [Offsets -> Bytes \union {Uninit}]
<1>1. args[fd] \in Args /\ conn[fd] \in Sockets
    BY DEF ServerTypes
<1>2. /\ args[fd].need_to_read \in Nat /\ args[fd].readed \in Nat
      /\ args[fd].buff \in [Offsets -> Bytes \union {Uninit}]
    BY <1>1, Constants DEF Args
<1>3. /\ conn[fd].sent \in Nat /\ conn[fd].consumed \in Nat
      /\ conn[fd].consumed <= conn[fd].sent
      /\ conn[fd].script \in Seq(Bytes) /\ conn[fd].sent <= Len(conn[fd].script)
      /\ conn[fd].err \in BOOLEAN
    BY <1>1, SocketTypes
<1>4. Got(fd) \in Nat /\ conn[fd].consumed + Got(fd) <= conn[fd].sent
  <2>1. Unread(fd) \in Nat /\ conn[fd].consumed + Unread(fd) = conn[fd].sent
      BY <1>3 DEF Unread
  <2>2. CASE Reads(fd)
    <3> DEFINE want == args[fd].need_to_read - args[fd].readed
    <3>1. want \in Nat
        BY <1>2, <2>2 DEF Reads
    <3>2. Got(fd) = Least(Unread(fd), want)
        BY <2>2 DEF Got
    <3> HIDE DEF want
    <3>3. Got(fd) \in Nat /\ Got(fd) <= Unread(fd)
        BY <2>1, <3>1, <3>2 DEF Least
    <3> QED BY <1>3, <2>1, <3>3
  <2>3. CASE ~Reads(fd)
    <3>1. Got(fd) = 0
        BY <2>3 DEF Got
    <3> QED BY <1>3, <3>1
  <2> QED BY <2>2, <2>3
<1>5. HasRead(fd) \in Nat
    BY <1>2, <1>4 DEF HasRead
<1>6. SocketRead(fd) \in Sockets
  <2> DEFINE e == IF ReadFails(fd) THEN FALSE ELSE conn[fd].err
  <2>1. e \in BOOLEAN
      BY <1>3
  <2>2. SocketRead(fd) = [conn[fd] EXCEPT !.consumed = conn[fd].consumed + Got(fd), !.err = e]
      BY DEF SocketRead
  <2> HIDE DEF e
  <2> QED BY <1>1, <1>4, <2>1, <2>2, ConsumeTypes
<1>7. ASSUME NEW i \in Offsets
      PROVE  Filled(fd)[i] \in Bytes \union {Uninit}
  <2>1. CASE i \in args[fd].readed .. (HasRead(fd) - 1)
    <3>1. /\ i \in Nat /\ args[fd].readed <= i /\ i <= args[fd].readed + Got(fd) - 1
        BY <1>2, <1>4, <2>1 DEF HasRead, Offsets
    <3>2. conn[fd].consumed + (i - args[fd].readed) + 1 \in 1..Len(conn[fd].script)
      <4>1. ASSUME NEW r \in Nat, NEW g \in Nat, NEW d \in Nat, NEW s \in Nat, NEW l \in Nat,
                   r <= i, i <= r + g - 1, d + g <= s, s <= l
            PROVE  d + (i - r) + 1 \in 1..l
          BY <3>1, <4>1
      <4>2. Len(conn[fd].script) \in Nat
          BY <1>3
      <4> QED BY <1>2, <1>3, <1>4, <3>1, <4>1, <4>2
    <3>3. conn[fd].script[conn[fd].consumed + (i - args[fd].readed) + 1] \in Bytes
        BY <1>3, <3>2
    <3> QED BY <2>1, <3>3 DEF Filled
  <2>2. CASE i \notin args[fd].readed .. (HasRead(fd) - 1)
      BY <1>2, <2>2 DEF Filled
  <2> QED BY <2>1, <2>2
<1>8. Filled(fd) \in [Offsets -> Bytes \union {Uninit}]
    BY <1>7 DEF Filled
<1> QED BY <1>4, <1>5, <1>6, <1>8

LEMMA ArgsReadType ==
    ASSUME ServerTypes, NEW fd \in Fds
    PROVE  ArgsRead(fd) \in Args
<1>1. args[fd] \in Args
    BY DEF ServerTypes
<1> QED BY <1>1, ReadTypes DEF ArgsRead, Args

\* Every stage asks for a number of bytes that a size_t holds.
LEMMA NeedForType ==
    ASSUME NEW atyp \in Supported, NEW len \in Bytes
    PROVE  NeedFor(atyp, len) \in 0..(SizeMod - 1)
<1>1. AsSize(len) \in Nat
    BY Constants
<1>2. (6 + AsSize(len)) % SizeMod \in 0..(SizeMod - 1)
    BY <1>1, Constants
<1> QED BY <1>2, Constants DEF NeedFor, Supported, S5_ATYPE_IP4, S5_ATYPE_DOMAINNAME, S5_ATYPE_IP6

\* What a handler reads of the buffer is a byte.
LEMMA ValuesType ==
    ASSUME ServerTypes, NEW fd \in Fds, NEW i \in Offsets
    PROVE  Values(Filled(fd)[i]) \subseteq Bytes
BY ReadTypes DEF Values

\* The dispatch of another descriptor, or a client of one, gives it args and a
\* socket and leaves the listener alone.
LEMMA ListenerLeft ==
    ASSUME ServerTypes, NEW fd \in Fds \ {ListenFd}, NEW a \in Args, NEW c \in Sockets,
           args' = [args EXCEPT ![fd] = a],
           conn' = [conn EXCEPT ![fd] = c],
           nodes \ {fd} \subseteq nodes',
           batch'[ListenFd] = batch[ListenFd],
           UNCHANGED <<backlog, accepted>>
    PROVE  ServerTypes'
<1>1. args' \in [Fds -> Args] /\ conn' \in [Fds -> Sockets]
    BY DEF ServerTypes
<1>2. conn'[ListenFd] = NoConn
    BY ManagerAssumption DEF ServerTypes, ListenerWaits
<1> QED BY <1>1, <1>2 DEF ServerTypes, ListenerWaits

LEMMA DispatchKeepsTypes ==
    ASSUME ServerInv, ServerTypes, NEW fd \in Fds, Dispatch(fd)
    PROVE  ServerTypes'
<1>1. /\ fd # ListenFd
      /\ batch'[ListenFd] = batch[ListenFd]
      /\ args[fd] \in Args /\ conn[fd] \in Sockets
      /\ nodes \ {fd} \subseteq nodes'
  <2>1. fd # ListenFd
      BY DEF Dispatch, Flush, FlushBroken, LinkBreak, ReadMore, MothedC1, MothedC2,
             Request1, Request1Unknown, Request2, Reading
  <2>2. batch' = [batch EXCEPT ![fd] = {}] /\ nodes \ {fd} \subseteq nodes'
      BY DEF Dispatch, Flush, FlushBroken, LinkBreak, ReadMore, MothedC1, MothedC2,
             Request1, Request1Unknown, Request2, Reading, SetArgs, S5tarError,
             HandlerOut, HandlerOutKills, CallbackTaken, Taken, NodeWrite, FdRemove
  <2>3. batch \in [Fds -> SUBSET Events]
      BY ManagerInvSuffices DEF ServerInv, ManagerTypeOK
  <2> QED BY <2>1, <2>2, <2>3, ManagerAssumption DEF ServerTypes
<1>2. CASE Flush(fd)
  <2> DEFINE e == conn[fd].err /\ write_buffer[fd] = <<>>
             c == [conn[fd] EXCEPT !.err = e]
  <2>1. e \in BOOLEAN
      OBVIOUS
  <2> HIDE DEF e
  <2>2. c \in Sockets
      BY <1>1, <2>1 DEF Sockets, Conns
  <2>3. args' = [args EXCEPT ![fd] = args[fd]] /\ conn' = [conn EXCEPT ![fd] = c]
        /\ UNCHANGED <<backlog, accepted>>
      BY <1>2 DEF Flush, ServerTypes, e
  <2> HIDE DEF c
  <2> QED BY <1>1, <2>2, <2>3, ListenerLeft
<1>3. CASE FlushBroken(fd)
  <2>1. args' = [args EXCEPT ![fd] = args[fd]] /\ conn' = [conn EXCEPT ![fd] = conn[fd]]
        /\ UNCHANGED <<backlog, accepted>>
      BY <1>3 DEF FlushBroken, ServerTypes
  <2> QED BY <1>1, <2>1, ListenerLeft
<1>4. CASE S5tarError(fd)
  <2>1. args' = [args EXCEPT ![fd] = NoArgs] /\ conn' = [conn EXCEPT ![fd] = NoConn]
        /\ UNCHANGED <<backlog, accepted>>
      BY <1>4 DEF S5tarError
  <2> QED BY <1>1, <2>1, EmptyTypes, ListenerLeft
<1>5. ASSUME NEW a \in Args, Reading(fd), args' = [args EXCEPT ![fd] = a]
      PROVE  ServerTypes'
  <2>1. conn' = [conn EXCEPT ![fd] = SocketRead(fd)] /\ UNCHANGED <<backlog, accepted>>
      BY <1>5 DEF Reading
  <2> QED BY <1>1, <1>5, <2>1, ReadTypes, ListenerLeft
<1>6. CASE ReadMore(fd)
    BY <1>5, <1>6, ArgsReadType DEF ReadMore, SetArgs
<1>7. CASE MothedC1(fd)
  <2>1. PICK n \in Values(Filled(fd)[1]) :
          SetArgs(fd, [ArgsRead(fd) EXCEPT
                         !.stage = "mothed_c_2",
                         !.need_to_read = (ArgsRead(fd).need_to_read + AsSize(n)) % SizeMod])
      BY <1>7 DEF MothedC1
  <2> DEFINE m == (ArgsRead(fd).need_to_read + AsSize(n)) % SizeMod
             a == [ArgsRead(fd) EXCEPT !.stage = "mothed_c_2", !.need_to_read = m]
  <2>2. n \in Bytes
      BY ValuesType DEF Offsets
  <2>3. ArgsRead(fd).need_to_read \in Nat /\ AsSize(n) \in Nat
      BY <2>2, ArgsReadType, Constants DEF Args
  <2>4. m \in 0..(SizeMod - 1)
      BY <2>3, Constants
  <2> HIDE DEF m
  <2>5. a \in Args
      BY <2>4, ArgsReadType DEF Args
  <2>6. args' = [args EXCEPT ![fd] = a] /\ Reading(fd)
      BY <1>7, <2>1 DEF MothedC1, SetArgs, m
  <2> HIDE DEF a
  <2> QED BY <1>5, <2>5, <2>6
<1>8. CASE MothedC2(fd)
  <2> DEFINE a == [stage |-> "request_1", next_handler |-> "s5tar_request",
                   need_to_read |-> 5, readed |-> 0, buff |-> Filled(fd)]
  <2>1. a \in Args
      BY ReadTypes, Constants DEF Args
  <2>2. args' = [args EXCEPT ![fd] = a] /\ Reading(fd)
      BY <1>8 DEF MothedC2
  <2> HIDE DEF a
  <2> QED BY <1>5, <2>1, <2>2
<1>9. CASE Request1(fd)
  <2>1. PICK atyp \in Values(Filled(fd)[3]) \intersect Supported,
             len \in Values(Filled(fd)[4]) :
          SetArgs(fd, [ArgsRead(fd) EXCEPT
                         !.stage = "request_2", !.need_to_read = NeedFor(atyp, len)])
      BY <1>9 DEF Request1
  <2> DEFINE m == NeedFor(atyp, len)
             a == [ArgsRead(fd) EXCEPT !.stage = "request_2", !.need_to_read = m]
  <2>2. len \in Bytes
      BY ValuesType DEF Offsets
  <2>3. m \in 0..(SizeMod - 1)
      BY <2>2, NeedForType
  <2> HIDE DEF m
  <2>4. a \in Args
      BY <2>3, ArgsReadType DEF Args
  <2>5. args' = [args EXCEPT ![fd] = a] /\ Reading(fd)
      BY <1>9, <2>1 DEF Request1, SetArgs, m
  <2> HIDE DEF a
  <2> QED BY <1>5, <2>4, <2>5
<1> QED BY <1>2, <1>3, <1>4, <1>6, <1>7, <1>8, <1>9
        DEF Dispatch, LinkBreak, Request1Unknown, Request2

LEMMA NewSocketType ==
    ASSUME NEW s \in Scripts
    PROVE  [NoConn EXCEPT !.script = s] \in Sockets
<1> DEFINE c == [NoConn EXCEPT !.script = s]
<1>1. NoConn \in Conns
    BY EmptyTypes DEF Sockets
<1>2. NoConn.sent = 0 /\ NoConn.consumed = 0
    BY DEF NoConn
<1>3. c \in Conns /\ c.sent = 0 /\ c.consumed = 0 /\ c.script = s
    BY <1>1, <1>2 DEF Conns
<1>4. Len(s) \in Nat
    BY Constants
<1> HIDE DEF c
<1>5. c \in Sockets
    BY <1>3, <1>4 DEF Sockets
<1> QED BY <1>5 DEF c

LEMMA ListenerKeepsTypes ==
    ASSUME ServerInv, ServerTypes,
           EpollWait \/ NotAccept \/ \E new \in Fds : HandleListen(new)
    PROVE  ServerTypes'
<1>1. batch \in [Fds -> SUBSET Events] /\ ListenFd \in Fds
    BY ManagerInvSuffices, ManagerAssumption DEF ServerInv, ManagerTypeOK
<1>2. CASE EpollWait
  <2>1. batch'[ListenFd] \subseteq ReadyEvents(ListenFd)
      BY <1>1, <1>2 DEF EpollWait, Collect
  <2>2. ReadyEvents(ListenFd) # {} => backlog > 0
      BY DEF ReadyEvents, ServerTypes, ListenerWaits, NoConn
  <2>3. UNCHANGED <<nodes, args, conn, backlog, accepted>>
      BY <1>2 DEF EpollWait, Collect
  <2> QED BY <2>1, <2>2, <2>3 DEF ServerTypes, ListenerWaits
<1>3. CASE NotAccept
  <2>1. batch'[ListenFd] = {} /\ UNCHANGED <<nodes, args, conn, backlog, accepted>>
      BY <1>1, <1>3 DEF NotAccept, CallbackQuiet, CallbackTaken, Taken
  <2> QED BY <2>1 DEF ServerTypes, ListenerWaits
<1>4. ASSUME NEW new \in Fds, HandleListen(new)
      PROVE  ServerTypes'
  <2> DEFINE a == [stage |-> "mothed_c_1", next_handler |-> "s5tar_mothed_c",
                   need_to_read |-> 2, readed |-> 0, buff |-> NoBuff]
  <2>1. PICK s \in Scripts : conn' = [conn EXCEPT ![new] = [NoConn EXCEPT !.script = s]]
      BY <1>4 DEF HandleListen
  <2> DEFINE c == [NoConn EXCEPT !.script = s]
  <2>2. a \in Args
      BY EmptyTypes, Constants DEF Args
  <2>3. c \in Sockets
      BY NewSocketType
  <2>4. /\ args' = [args EXCEPT ![new] = a] /\ conn' = [conn EXCEPT ![new] = c]
        /\ backlog' = backlog - 1 /\ accepted' = accepted + 1
        /\ nodes' = nodes \union {new} /\ new \notin open
        /\ batch[ListenFd] # {} /\ batch' = [batch EXCEPT ![ListenFd] = {}]
      BY <1>4, <2>1 DEF HandleListen, CallbackAdd, CallbackTaken, Taken, NodeAdd
  <2> HIDE DEF a, c
  <2>5. new # ListenFd
      BY <2>4, ManagerInvSuffices DEF ServerInv, InterestMirrorsNodes, ServerTypes, ListenerWaits
  <2>6. args' \in [Fds -> Args] /\ conn' \in [Fds -> Sockets]
      BY <2>2, <2>3, <2>4 DEF ServerTypes
  <2>7. backlog' \in Nat /\ accepted' \in Nat
      BY <2>4 DEF ServerTypes, ListenerWaits
  <2>8. conn'[ListenFd] = NoConn /\ batch'[ListenFd] = {} /\ ListenFd \in nodes'
      BY <1>1, <2>4, <2>5 DEF ServerTypes, ListenerWaits
  <2> QED BY <2>6, <2>7, <2>8 DEF ServerTypes, ListenerWaits
<1> QED BY <1>2, <1>3, <1>4

LEMMA ClientsKeepTypes ==
    ASSUME ServerInv, ServerTypes, Clients
    PROVE  ServerTypes'
<1>1. CASE Connect
    BY <1>1 DEF Connect, managerVars, ServerTypes, ListenerWaits
<1>2. ASSUME NEW fd \in Fds, NEW c \in Sockets, ClientStep(fd, c)
      PROVE  ServerTypes'
  <2>1. /\ fd # ListenFd /\ conn' = [conn EXCEPT ![fd] = c]
        /\ args' = [args EXCEPT ![fd] = args[fd]] /\ args[fd] \in Args
        /\ nodes' = nodes /\ batch' = batch /\ UNCHANGED <<backlog, accepted>>
      BY <1>2 DEF ClientStep, managerVars, ServerTypes
  <2> QED BY <1>2, <2>1, ListenerLeft
<1>3. ASSUME NEW fd \in Fds, Send(fd)
      PROVE  ServerTypes'
  <2>1. PICK m \in Cuts \union {Len(conn[fd].script)} :
          /\ conn[fd].sent < m /\ m <= Len(conn[fd].script)
          /\ ClientStep(fd, [conn[fd] EXCEPT !.sent = m])
      BY <1>3 DEF Send
  <2>2. conn[fd] \in Sockets
      BY DEF ServerTypes
  <2>3. m \in Nat /\ conn[fd].consumed <= m
      BY <2>1, <2>2, SocketTypes, ServerAssumption
  <2>4. [conn[fd] EXCEPT !.sent = m] \in Sockets
      BY <2>1, <2>2, <2>3 DEF Sockets, Conns
  <2> QED BY <1>2, <2>1, <2>4
<1>4. ASSUME NEW fd \in Fds, Close(fd) \/ Reset(fd)
      PROVE  ServerTypes'
  <2>1. conn[fd] \in Sockets
      BY DEF ServerTypes
  <2>2. /\ [conn[fd] EXCEPT !.peer = "fin"] \in Sockets
        /\ [conn[fd] EXCEPT !.peer = "rst", !.err = TRUE] \in Sockets
      BY <2>1 DEF Sockets, Conns
  <2> QED BY <1>2, <1>4, <2>2 DEF Close, Reset
<1> QED BY <1>1, <1>3, <1>4 DEF Clients

\* The strengthened types, on which what is proved of the handshake rests.
THEOREM ServerTypesInvariant == Spec => []ServerTypes
<1>1. Init => ServerTypes
    BY EmptyTypes, ManagerAssumption DEF Init, ManagerInit, ServerTypes, ListenerWaits
<1>2. ServerInv /\ ServerTypes /\ [Next]_vars => ServerTypes'
  <2> SUFFICES ASSUME ServerInv, ServerTypes, [Next]_vars
               PROVE  ServerTypes'
      OBVIOUS
  <2>1. CASE UNCHANGED vars
      BY <2>1 DEF vars, managerVars, ServerTypes, ListenerWaits
  <2> QED BY <2>1, DispatchKeepsTypes, ListenerKeepsTypes, ClientsKeepTypes DEF Next, Loop
<1> QED BY <1>1, <1>2, ServerInvariant, PTL DEF Spec

\* Every state has the connections' types, and a size_t holds every count that
\* a stage asks for, whatever the clients send and wherever it is cut.
THEOREM ServerTypeCorrect == Spec => []S5TarTypeOK
<1>1. ServerInv /\ ServerTypes => S5TarTypeOK
    BY ManagerInvSuffices DEF ServerInv, ServerTypes, Sockets, S5TarTypeOK
<1> QED BY <1>1, ServerInvariant, ServerTypesInvariant, PTL

(***************************************************************************)
(* What the handshake promises its clients: the handler that runs knows    *)
(* the stage, the method reply is on the wire before the request is read,  *)
(* and the request starts where the greeting ends.  Each invariant speaks  *)
(* of one descriptor and is proved for the descriptor whose event is       *)
(* dispatched; OthersUntouched says that the step leaves all others alone. *)
(***************************************************************************)

(***************************************************************************)
(* What a step leaves alone.                                               *)
(***************************************************************************)
Untouched(fd) ==
    /\ args'[fd] = args[fd]
    /\ conn'[fd] = conn[fd]
    /\ wire'[fd] = wire[fd]
    /\ write_buffer'[fd] = write_buffer[fd]
    /\ batch'[fd] = batch[fd]
    /\ fd \in nodes' <=> fd \in nodes

LEMMA Functions ==
    ASSUME ServerInv, ServerTypes
    PROVE  /\ \A fd \in Fds : args[fd] \in Args /\ conn[fd] \in Sockets
           /\ DOMAIN args = Fds /\ args = [fd \in Fds |-> args[fd]]
           /\ DOMAIN conn = Fds /\ conn = [fd \in Fds |-> conn[fd]]
           /\ batch \in [Fds -> SUBSET Events]
           /\ write_buffer \in [Fds -> Queues]
           /\ wire \in [Fds -> Seq(Nat)]
BY DEF ServerInv, ManagerInv, ManagerTypes, ServerTypes

\* The dispatch of one event changes nothing of the other descriptors.
LEMMA OthersUntouched ==
    ASSUME ServerInv, ServerTypes, NEW fd \in Fds, Dispatch(fd), NEW other \in Fds \ {fd}
    PROVE  Untouched(other)
<1>1. batch'[other] = batch[other]
  <2>1. Taken(fd)
      BY DEF Dispatch, Flush, FlushBroken, LinkBreak, ReadMore, MothedC1, MothedC2,
             Request1, Request1Unknown, Request2, Reading, S5tarError,
             HandlerOut, HandlerOutKills, CallbackTaken
  <2> QED BY <2>1, Functions DEF Taken
<1>2. /\ wire'[other] = wire[other]
      /\ write_buffer'[other] = write_buffer[other]
      /\ other \in nodes' <=> other \in nodes
  <2>1. CASE \E r \in WriteResults(fd) : HandlerOut(fd, r)
      BY <2>1, Functions DEF HandlerOut
  <2>2. CASE HandlerOutKills(fd) \/ CallbackQuiet(fd)
      BY <2>2 DEF HandlerOutKills, CallbackQuiet
  <2>3. CASE CallbackWrite(fd, fd, MethodReply)
      BY <2>3, Functions DEF CallbackWrite, NodeWrite
  <2>4. CASE CallbackRemove(fd, fd)
      BY <2>4, Functions DEF CallbackRemove, FdRemove
  <2> QED BY <2>1, <2>2, <2>3, <2>4, DispatchIsManagerStep
<1>3. args'[other] = args[other]
  <2>1. args' = args \/ \E a : args' = [args EXCEPT ![fd] = a]
      BY DEF Dispatch, Flush, FlushBroken, LinkBreak, ReadMore, MothedC1, MothedC2,
             Request1, Request1Unknown, Request2, SetArgs, S5tarError
  <2> QED BY <2>1, Functions
<1>4. conn'[other] = conn[other]
  <2>1. conn' = conn \/ \E c : conn' = [conn EXCEPT ![fd] = c]
      BY DEF Dispatch, Flush, FlushBroken, LinkBreak, ReadMore, MothedC1, MothedC2,
             Request1, Request1Unknown, Request2, Reading, S5tarError
  <2> QED BY <2>1, Functions
<1> QED BY <1>1, <1>2, <1>3, <1>4 DEF Untouched

(***************************************************************************)
(* What a dispatched event does to the descriptor it is of.                *)
(***************************************************************************)
\* A read changes neither the stage nor the handler.
LEMMA ReadKeepsStage ==
    ASSUME ServerInv, ServerTypes, NEW fd \in Fds
    PROVE  /\ ArgsRead(fd) \in Args
           /\ ArgsRead(fd).stage = args[fd].stage
           /\ ArgsRead(fd).next_handler = args[fd].next_handler
           /\ ArgsRead(fd).need_to_read = args[fd].need_to_read
           /\ ArgsRead(fd).readed = HasRead(fd)
           /\ ArgsRead(fd).buff = Filled(fd)
BY Functions, ArgsReadType DEF ArgsRead, Args

\* Only the dispatch of an event of fd takes its node away, and only s5tar_error.
LEMMA DispatchedNode ==
    ASSUME ServerInv, ServerTypes, NEW fd \in Fds, Dispatch(fd)
    PROVE  /\ fd \in nodes \ {ListenFd}
           /\ fd \in nodes' <=> ~S5tarError(fd)
<1>1. Taken(fd) /\ fd # ListenFd
    BY DEF Dispatch, Flush, FlushBroken, LinkBreak, ReadMore, MothedC1, MothedC2,
           Request1, Request1Unknown, Request2, Reading, S5tarError,
           HandlerOut, HandlerOutKills, CallbackTaken
<1>2. fd \in nodes
    BY <1>1 DEF Taken
<1>3. CASE S5tarError(fd)
    BY <1>1, <1>2, <1>3 DEF S5tarError, FdRemove
<1>4. CASE ~S5tarError(fd)
  <2>1. nodes' = nodes
      BY <1>4 DEF Dispatch, Flush, FlushBroken, LinkBreak, ReadMore, MothedC1, MothedC2,
             Request1, Request1Unknown, Request2, SetArgs, HandlerOut, HandlerOutKills,
             NodeWrite
  <2> QED BY <1>1, <1>2, <1>4, <2>1
<1> QED BY <1>3, <1>4

LEMMA AfterReadMore ==
    ASSUME ServerInv, ServerTypes, NEW fd \in Fds, ReadMore(fd)
    PROVE  /\ Reading(fd) /\ ~ReadFails(fd) /\ HasRead(fd) < args[fd].need_to_read
           /\ args'[fd].stage = args[fd].stage
           /\ args'[fd].next_handler = args[fd].next_handler
           /\ args'[fd].need_to_read = args[fd].need_to_read
           /\ args'[fd].readed = HasRead(fd)
           /\ args'[fd].buff = Filled(fd)
           /\ UNCHANGED <<nodes, write_buffer, wire>>
<1>1. args'[fd] = ArgsRead(fd)
    BY Functions DEF ReadMore, SetArgs
<1> QED BY <1>1, ReadKeepsStage DEF ReadMore, SetArgs

LEMMA AfterMothedC1 ==
    ASSUME ServerInv, ServerTypes, NEW fd \in Fds, MothedC1(fd)
    PROVE  /\ Reading(fd) /\ Runs(fd, "s5tar_mothed_c", "mothed_c_1")
           /\ args'[fd].stage = "mothed_c_2"
           /\ args'[fd].next_handler = "s5tar_mothed_c"
           /\ args'[fd].readed = HasRead(fd)
           /\ args'[fd].buff = Filled(fd)
           /\ \E nmotheds \in Values(Filled(fd)[1]) :
                args'[fd].need_to_read = (args[fd].need_to_read + AsSize(nmotheds)) % SizeMod
           /\ UNCHANGED <<nodes, write_buffer, wire>>
<1>1. PICK k \in Values(Filled(fd)[1]) :
        SetArgs(fd, [ArgsRead(fd) EXCEPT
                       !.stage = "mothed_c_2",
                       !.need_to_read = (ArgsRead(fd).need_to_read + AsSize(k)) % SizeMod])
    BY DEF MothedC1
<1> DEFINE m == (ArgsRead(fd).need_to_read + AsSize(k)) % SizeMod
<1>2. /\ args'[fd] = [ArgsRead(fd) EXCEPT !.stage = "mothed_c_2", !.need_to_read = m]
      /\ UNCHANGED <<nodes, write_buffer, wire>>
    BY <1>1, Functions DEF SetArgs
<1>3. m = (args[fd].need_to_read + AsSize(k)) % SizeMod
    BY ReadKeepsStage
<1> HIDE DEF m
<1>4. /\ args'[fd].stage = "mothed_c_2"
      /\ args'[fd].next_handler = args[fd].next_handler
      /\ args'[fd].readed = HasRead(fd)
      /\ args'[fd].buff = Filled(fd)
      /\ args'[fd].need_to_read = m
    BY <1>2, ReadKeepsStage DEF Args
<1> QED BY <1>2, <1>3, <1>4 DEF MothedC1, Runs

LEMMA AfterMothedC2 ==
    ASSUME ServerInv, ServerTypes, NEW fd \in Fds, MothedC2(fd)
    PROVE  /\ Reading(fd) /\ Runs(fd, "s5tar_mothed_c", "mothed_c_2")
           /\ args'[fd].stage = "request_1"
           /\ args'[fd].next_handler = "s5tar_request"
           /\ args'[fd].need_to_read = 5
           /\ args'[fd].readed = 0
           /\ args'[fd].buff = Filled(fd)
           /\ write_buffer[fd] = <<>>
           /\ write_buffer'[fd] = <<FromBuff(MethodReply)>>
           /\ UNCHANGED <<nodes, wire>>
<1>1. write_buffer[fd] = <<>>
    BY EmptyWhenRead DEF MothedC2, Reading
<1>2. write_buffer'[fd] = <<FromBuff(MethodReply)>> /\ UNCHANGED <<nodes, wire>>
    BY <1>1, Functions DEF MothedC2, NodeWrite, PushBack
<1>3. args'[fd] = [stage |-> "request_1", next_handler |-> "s5tar_request",
                   need_to_read |-> 5, readed |-> 0, buff |-> Filled(fd)]
    BY Functions DEF MothedC2
<1> QED BY <1>1, <1>2, <1>3 DEF MothedC2

LEMMA AfterRequest1 ==
    ASSUME ServerInv, ServerTypes, NEW fd \in Fds, Request1(fd)
    PROVE  /\ Reading(fd) /\ Runs(fd, "s5tar_request", "request_1")
           /\ args'[fd].stage = "request_2"
           /\ args'[fd].next_handler = "s5tar_request"
           /\ args'[fd].readed = HasRead(fd)
           /\ args'[fd].buff = Filled(fd)
           /\ \E atyp \in Values(Filled(fd)[3]) \intersect Supported,
                 len \in Values(Filled(fd)[4]) :
                args'[fd].need_to_read = NeedFor(atyp, len)
           /\ UNCHANGED <<nodes, write_buffer, wire>>
<1>1. PICK atyp \in Values(Filled(fd)[3]) \intersect Supported,
           len \in Values(Filled(fd)[4]) :
        SetArgs(fd, [ArgsRead(fd) EXCEPT
                       !.stage = "request_2", !.need_to_read = NeedFor(atyp, len)])
    BY DEF Request1
<1> DEFINE m == NeedFor(atyp, len)
<1>2. /\ args'[fd] = [ArgsRead(fd) EXCEPT !.stage = "request_2", !.need_to_read = m]
      /\ UNCHANGED <<nodes, write_buffer, wire>>
    BY <1>1, Functions DEF SetArgs
<1> HIDE DEF m
<1>3. /\ args'[fd].stage = "request_2"
      /\ args'[fd].next_handler = args[fd].next_handler
      /\ args'[fd].readed = HasRead(fd)
      /\ args'[fd].buff = Filled(fd)
      /\ args'[fd].need_to_read = m
    BY <1>2, ReadKeepsStage DEF Args
<1> QED BY <1>2, <1>3 DEF Request1, Runs, m

(***************************************************************************)
(* The handler that runs next knows the stage.                             *)
(***************************************************************************)

\* args as the handlers leave them: none, or of a stage with its handler.
Fits(a) ==
    \/ a = NoArgs
    \/ /\ a.stage \in {"mothed_c_1", "mothed_c_2"}
       /\ a.next_handler = "s5tar_mothed_c"
    \/ /\ a.stage \in {"request_1", "request_2"}
       /\ a.next_handler = "s5tar_request"

HandlerSlot(fd) ==
    /\ Fits(args[fd])
    /\ args[fd] # NoArgs <=> fd \in nodes \ {ListenFd}

HandlerInv == \A fd \in Fds : HandlerSlot(fd)

LEMMA DispatchKeepsHandler ==
    ASSUME ServerInv, ServerTypes, NEW fd \in Fds, HandlerSlot(fd), Dispatch(fd)
    PROVE  HandlerSlot(fd)'
<1>1. fd \in nodes \ {ListenFd} /\ args[fd] # NoArgs
    BY DispatchedNode DEF HandlerSlot
<1>2. CASE S5tarError(fd)
  <2>1. args'[fd] = NoArgs
      BY <1>2, Functions DEF S5tarError
  <2> QED BY <1>2, <2>1, DispatchedNode DEF HandlerSlot, Fits
<1>3. CASE args' = args /\ ~S5tarError(fd)
    BY <1>1, <1>3, DispatchedNode DEF HandlerSlot
<1>4. CASE ReadMore(fd)
  <2>1. args'[fd].stage # "none" /\ Fits(args'[fd])
      BY <1>1, <1>4, AfterReadMore DEF HandlerSlot, Fits
  <2> QED BY <1>1, <1>4, <2>1, AfterReadMore DEF HandlerSlot, NoArgs
<1>5. CASE MothedC1(fd)
    BY <1>1, <1>5, AfterMothedC1 DEF HandlerSlot, Fits, NoArgs
<1>6. CASE MothedC2(fd)
    BY <1>1, <1>6, AfterMothedC2 DEF HandlerSlot, Fits, NoArgs
<1>7. CASE Request1(fd)
    BY <1>1, <1>7, AfterRequest1 DEF HandlerSlot, Fits, NoArgs
<1> QED BY <1>2, <1>3, <1>4, <1>5, <1>6, <1>7
        DEF Dispatch, Flush, FlushBroken, LinkBreak, Request1Unknown, Request2

\* accept() gives a descriptor without a node its first stage.
LEMMA AfterHandleListen ==
    ASSUME ServerInv, ServerTypes, NEW new \in Fds, HandleListen(new)
    PROVE  /\ new # ListenFd /\ new \notin nodes
           /\ nodes' = nodes \union {new}
           /\ args'[new] = [stage |-> "mothed_c_1", next_handler |-> "s5tar_mothed_c",
                            need_to_read |-> 2, readed |-> 0, buff |-> NoBuff]
           /\ \E s \in Scripts : conn'[new] = [NoConn EXCEPT !.script = s]
           /\ wire'[new] = <<>> /\ write_buffer'[new] = <<>> /\ batch'[new] = {}
           /\ \A fd \in Fds \ {new, ListenFd} : Untouched(fd)
           /\ args'[ListenFd] = args[ListenFd] /\ conn'[ListenFd] = conn[ListenFd]
           /\ wire'[ListenFd] = wire[ListenFd]
           /\ write_buffer'[ListenFd] = write_buffer[ListenFd]
<1>1. new \notin nodes /\ ListenFd \in nodes /\ batch[new] = {} /\ ListenFd \in Fds
    BY ManagerAssumption
    DEF HandleListen, CallbackAdd, NodeAdd, ServerInv, ManagerInv, InterestMirrorsNodes,
        EventsHaveNodes, ServerTypes, ListenerWaits
<1>2. /\ batch' = [batch EXCEPT ![ListenFd] = {}]
      /\ nodes' = nodes \union {new}
      /\ write_buffer' = [write_buffer EXCEPT ![new] = <<>>]
      /\ wire' = [wire EXCEPT ![new] = <<>>]
    BY DEF HandleListen, CallbackAdd, CallbackTaken, Taken, NodeAdd
<1>3. /\ args' = [args EXCEPT ![new] =
                    [stage |-> "mothed_c_1", next_handler |-> "s5tar_mothed_c",
                     need_to_read |-> 2, readed |-> 0, buff |-> NoBuff]]
      /\ \E s \in Scripts : conn' = [conn EXCEPT ![new] = [NoConn EXCEPT !.script = s]]
    BY DEF HandleListen
<1> QED BY <1>1, <1>2, <1>3, Functions DEF Untouched

\* The steps that are not of one descriptor's event.
LEMMA QuietSteps ==
    ASSUME ServerInv, ServerTypes, EpollWait \/ NotAccept \/ Clients \/ UNCHANGED vars
    PROVE  UNCHANGED <<nodes, args, wire, write_buffer>>
BY DEF EpollWait, Collect, NotAccept, CallbackQuiet, Clients, Connect, Send, Close, Reset,
       ClientStep, vars, managerVars

LEMMA StepKeepsHandler ==
    ServerInv /\ ServerTypes /\ HandlerInv /\ [Next]_vars => HandlerInv'
<1> SUFFICES ASSUME ServerInv, ServerTypes, HandlerInv, [Next]_vars, NEW fd \in Fds
             PROVE  HandlerSlot(fd)'
    BY DEF HandlerInv
<1>1. HandlerSlot(fd)
    BY DEF HandlerInv
<1>2. CASE EpollWait \/ NotAccept \/ Clients \/ UNCHANGED vars
    BY <1>1, <1>2, QuietSteps DEF HandlerSlot
<1>3. ASSUME NEW new \in Fds, HandleListen(new)
      PROVE  HandlerSlot(fd)'
  <2>1. CASE fd = new
      BY <1>3, <2>1, AfterHandleListen DEF HandlerSlot, Fits, NoArgs
  <2>2. CASE fd # new
      BY <1>1, <1>3, <2>2, AfterHandleListen DEF HandlerSlot, Untouched
  <2> QED BY <2>1, <2>2
<1>4. ASSUME NEW other \in Fds, Dispatch(other)
      PROVE  HandlerSlot(fd)'
  <2>1. CASE fd = other
      BY <1>1, <1>4, <2>1, DispatchKeepsHandler
  <2>2. CASE fd # other
      BY <1>1, <1>4, <2>2, OthersUntouched DEF HandlerSlot, Untouched
  <2> QED BY <2>1, <2>2
<1> QED BY <1>2, <1>3, <1>4 DEF Next, Loop

\* Every connection has its args and the listener none, and the handler that
\* runs next is the one that knows the stage.
THEOREM HandlerCorrect == Spec => []HandlerFitsStage
<1>1. Init => HandlerInv
    BY ManagerAssumption DEF Init, ManagerInit, HandlerInv, HandlerSlot, Fits
<1>2. HandlerInv => HandlerFitsStage
  <2> SUFFICES ASSUME HandlerInv, NEW fd \in Fds
               PROVE  /\ args[fd] # NoArgs <=> fd \in nodes \ {ListenFd}
                      /\ args[fd].next_handler =
                           CASE args[fd].stage = "none" -> "none"
                             [] args[fd].stage \in {"mothed_c_1", "mothed_c_2"} -> "s5tar_mothed_c"
                             [] args[fd].stage \in {"request_1", "request_2"} -> "s5tar_request"
      BY DEF HandlerFitsStage
  <2>1. HandlerSlot(fd)
      BY DEF HandlerInv
  <2> QED BY <2>1 DEF HandlerSlot, Fits, NoArgs
<1> QED BY <1>1, <1>2, StepKeepsHandler, ServerInvariant, ServerTypesInvariant, PTL DEF Spec

(***************************************************************************)
(* The method reply is on the wire before the request is read.  It is      *)
(* queued on an empty queue and written from there byte by byte; a reset   *)
(* makes the write fail once, which leaves a byte queued, so that nothing  *)
(* is read from the descriptor any more and the next write is the last.    *)
(***************************************************************************)

\* What the queue will still put on the wire.
Rest(q) == IF q = <<>> THEN <<>> ELSE UnsentBytes(Head(q))

ReplySlot(fd) ==
    /\ conn[fd].err => conn[fd].peer = "rst"
    /\ fd \in nodes =>
         IF args[fd].next_handler = "s5tar_request"
         THEN /\ \/ wire[fd] \o Rest(write_buffer[fd]) = MethodReply
                 \/ conn[fd].peer = "rst" /\ ~conn[fd].err /\ write_buffer[fd] # <<>>
              /\ args[fd].stage = "request_2" \/ args[fd].readed > 0 => write_buffer[fd] = <<>>
         ELSE wire[fd] = <<>> /\ write_buffer[fd] = <<>>

ReplyInv == \A fd \in Fds : ReplySlot(fd)

LEMMA ReplyBuffers ==
    /\ MethodReply \in Seq(Nat) /\ Len(MethodReply) = 2 /\ SizeMod > 22
    /\ \A q \in Queues \ {<<>>} : \E m \in 0..1 : q = <<[buff |-> MethodReply, pos |-> m]>>
<1>1. MethodReply \in Seq(Nat) /\ Len(MethodReply) = 2 /\ SizeMod > 22
    BY Constants DEF MethodReply
<1>2. ASSUME NEW q \in Queues \ {<<>>}
      PROVE  \E m \in 0..1 : q = <<[buff |-> MethodReply, pos |-> m]>>
  <2>1. PICK b \in Buffers : q = <<b>> /\ Unsent(b) > 0
      BY DEF Queues
  <2>2. b.buff = MethodReply /\ b.pos \in Nat /\ b = [buff |-> b.buff, pos |-> b.pos]
      BY <2>1, ServerAssumption DEF Buffers
  <2>3. Len(b.buff) = 2 /\ Len(b.buff) - b.pos > 0
      BY <1>1, <2>1, <2>2 DEF Unsent
  <2>4. b.pos \in 0..1
      BY <2>2, <2>3
  <2> QED BY <2>1, <2>2, <2>4
<1> QED BY <1>1, <1>2

LEMMA WireConcat ==
    ASSUME NEW a \in Seq(Nat), NEW b \in Seq(Nat), NEW c \in Seq(Nat)
    PROVE  (a \o b) \o c = a \o (b \o c)
BY ConcatAssociative

\* The bytes of a sequence from one place to the end, cut at a later place.
LEMMA CutBytes ==
    ASSUME NEW R \in Seq(Nat), Len(R) = 2, NEW m \in 0..1, NEW r \in 1..(2 - m)
    PROVE  /\ SubSeq(R, m + 1, m + r) \in Seq(Nat)
           /\ SubSeq(R, m + r + 1, 2) \in Seq(Nat)
           /\ SubSeq(R, m + 1, m + r) \o SubSeq(R, m + r + 1, 2) = SubSeq(R, m + 1, 2)
<1> DEFINE k == m + r
<1>1. k \in 1..2 /\ m + 1 \in 1..2 /\ m + 1 \in 1..Len(R) + 1 /\ k \in (m + 1) - 1 .. Len(R)
      /\ 2 \in k .. Len(R)
    OBVIOUS
<1> HIDE DEF k
<1>2. \A i \in (m + 1)..k : R[i] \in Nat
    BY <1>1, ElementOfSeq
<1>3. \A i \in (k + 1)..2 : R[i] \in Nat
  <2> SUFFICES ASSUME NEW i \in (k + 1)..2 PROVE R[i] \in Nat
      OBVIOUS
  <2>1. i \in 1..Len(R)
      BY <1>1
  <2> QED BY <2>1, ElementOfSeq
<1>4. SubSeq(R, m + 1, k) \in Seq(Nat)
    BY <1>1, <1>2, SubSeqProperties
<1>5. SubSeq(R, k + 1, 2) \in Seq(Nat)
    BY <1>1, <1>3, SubSeqProperties
<1>6. SubSeq(R, m + 1, k) \o SubSeq(R, k + 1, 2) = SubSeq(R, m + 1, 2)
    BY <1>1, ConcatAdjacentSubSeq
<1> QED BY <1>4, <1>5, <1>6 DEF k

\* A write() that succeeds moves bytes from the queue to the wire.
LEMMA WriteMovesBytes ==
    ASSUME NEW q \in Queues \ {<<>>}, NEW r \in 1..Unsent(Head(q)), NEW w \in Seq(Nat),
           w \o Rest(q) = MethodReply
    PROVE  (w \o SubSeq(Head(q).buff, Head(q).pos + 1, Head(q).pos + r))
              \o Rest(Written(q, r)) = MethodReply
<1>1. PICK m \in 0..1 : q = <<[buff |-> MethodReply, pos |-> m]>>
    BY ReplyBuffers
<1> DEFINE b == [buff |-> MethodReply, pos |-> m]
<1>2. Head(q) = b /\ Tail(q) = <<>> /\ b.buff = MethodReply /\ b.pos = m
    BY <1>1
<1> HIDE DEF b
<1>3. MethodReply \in Seq(Nat) /\ Len(MethodReply) = 2 /\ SizeMod > 22 /\ SizeMod \in Nat
    BY ReplyBuffers, Constants
<1>4. r \in 1..(2 - m)
    BY <1>2, <1>3 DEF Unsent
<1>5. PosAfter(b, r) = m + r
  <2>1. PosAfter(b, r) = (m + r + SizeMod) % SizeMod
      BY <1>2, <1>4 DEF PosAfter
  <2>2. ASSUME NEW k \in 1..2, NEW z \in Nat, z > 22
        PROVE  (k + z) % z = k
      BY <2>2
  <2> QED BY <1>3, <1>4, <2>1, <2>2
<1>6. Rest(q) = SubSeq(MethodReply, m + 1, 2)
    BY <1>1, <1>2, <1>3 DEF Rest, UnsentBytes
<1>7. Rest(Written(q, r)) = SubSeq(MethodReply, m + r + 1, 2)
  <2>1. CASE m + r >= 2
    <3>1. Written(q, r) = <<>>
        BY <1>2, <1>3, <1>5, <2>1 DEF Written, PopFront
    <3>2. SubSeq(MethodReply, m + r + 1, 2) = <<>>
        BY <1>4, <2>1, SubSeqEmpty
    <3> QED BY <3>1, <3>2 DEF Rest
  <2>2. CASE m + r < 2
    <3> DEFINE c == [buff |-> MethodReply, pos |-> m + r]
    <3>1. <<c>> \o <<>> = <<c>>
        OBVIOUS
    <3>2. ~(PosAfter(Head(q), r) >= Len(Head(q).buff))
      <4>1. Len(Head(q).buff) = 2 /\ PosAfter(Head(q), r) = m + r
          BY <1>2, <1>3, <1>5, Zenon
      <4>2. ~(m + r >= 2)
          BY <1>4, <2>2
      <4> QED BY <4>1, <4>2
    <3>3. MovedTo(q, PosAfter(Head(q), r)) = <<c>>
        BY <1>2, <1>5, <3>1 DEF MovedTo
    <3>4. Written(q, r) = <<c>>
        BY <3>2, <3>3 DEF Written
    <3>5. Head(<<c>>) = c /\ <<c>> # <<>> /\ c.buff = MethodReply /\ c.pos = m + r
        OBVIOUS
    <3> QED BY <1>3, <3>4, <3>5 DEF Rest, UnsentBytes
  <2> QED BY <1>4, <2>1, <2>2
<1>8. (w \o SubSeq(MethodReply, m + 1, m + r)) \o SubSeq(MethodReply, m + r + 1, 2)
        = w \o SubSeq(MethodReply, m + 1, 2)
  <2> DEFINE s == SubSeq(MethodReply, m + 1, m + r)
             t == SubSeq(MethodReply, m + r + 1, 2)
  <2>1. s \in Seq(Nat) /\ t \in Seq(Nat) /\ s \o t = SubSeq(MethodReply, m + 1, 2)
      BY <1>3, <1>4, CutBytes
  <2> HIDE DEF s, t
  <2>2. (w \o s) \o t = w \o (s \o t)
      BY <2>1, WireConcat, Zenon
  <2> QED BY <2>1, <2>2 DEF s, t
<1> QED BY <1>2, <1>6, <1>7, <1>8

\* A write() that fails leaves the last byte of the buffer queued.
LEMMA FailedWriteKeepsByte ==
    ASSUME NEW q \in Queues \ {<<>>}
    PROVE  Written(q, -1) # <<>>
<1>1. PICK m \in 0..1 : q = <<[buff |-> MethodReply, pos |-> m]>>
    BY ReplyBuffers
<1>2. Head(q).buff = MethodReply /\ Tail(q) = <<>>
    BY <1>1
<1>3. Len(MethodReply) = 2 /\ SizeMod > 22 /\ SizeMod \in Nat
    BY ReplyBuffers, Constants
<1>4. Len(Head(q).buff) = 2
    BY <1>2, <1>3, Zenon
<1>5. PosAfter(Head(q), -1)
        = ((IF -1 <= 0 THEN 2 ELSE Head(q).pos) + (-1) + SizeMod) % SizeMod
    BY <1>4, Zenon DEF PosAfter
<1>6. PosAfter(Head(q), -1) = 1 /\ ~(1 >= 2)
    BY <1>3, <1>5
<1>7. ~(PosAfter(Head(q), -1) >= Len(Head(q).buff))
    BY <1>4, <1>6, Zenon
<1>8. MovedTo(q, PosAfter(Head(q), -1)) # <<>>
    BY <1>2 DEF MovedTo
<1> QED BY <1>7, <1>8 DEF Written

\* The events of a descriptor that asks for writability.
LEMMA FlushKeepsReply ==
    ASSUME ServerInv, ServerTypes, HandlerInv, NEW fd \in Fds, ReplySlot(fd),
           Flush(fd) \/ FlushBroken(fd)
    PROVE  ReplySlot(fd)'
<1> DEFINE q == write_buffer[fd]
           e == conn[fd].err /\ q = <<>>
<1>1. /\ args' = args /\ nodes' = nodes /\ fd \in nodes
      /\ conn[fd] \in Sockets /\ q \in Queues /\ wire[fd] \in Seq(Nat)
    BY Functions DEF Flush, FlushBroken, HandlerOut, HandlerOutKills, Taken
<1>2. CASE FlushBroken(fd)
    BY <1>1, <1>2 DEF FlushBroken, HandlerOutKills, ReplySlot
<1>3. CASE Flush(fd)
  <2>1. PICK r \in WriteResults(fd) :
          /\ q # <<>> => (r = -1 <=> conn[fd].err) /\ (conn[fd].peer = "rst" => conn[fd].err)
          /\ HandlerOut(fd, r)
      BY <1>3 DEF Flush
  <2>2. /\ write_buffer'[fd] = IF q = <<>> THEN q ELSE Written(q, r)
        /\ wire'[fd] = IF q = <<>> \/ r <= 0 THEN wire[fd]
                       ELSE wire[fd] \o SubSeq(Head(q).buff, Head(q).pos + 1, Head(q).pos + r)
      BY <2>1, Functions DEF HandlerOut
  <2>3. conn'[fd].err <=> e
      BY <1>3, Functions DEF Flush, Sockets, Conns
  <2>4. conn'[fd].peer = conn[fd].peer
      BY <1>3, Functions DEF Flush, Sockets, Conns
  <2>5. CASE q = <<>>
      BY <1>1, <2>2, <2>3, <2>4, <2>5 DEF ReplySlot
  <2>6. CASE q # <<>> /\ r = -1
    <3>1. write_buffer'[fd] # <<>>
        BY <1>1, <2>2, <2>6, FailedWriteKeepsByte
    <3> QED BY <1>1, <2>1, <2>2, <2>3, <2>4, <2>6, <3>1 DEF ReplySlot
  <2>7. CASE q # <<>> /\ r # -1
    <3>1. r \in 1..Unsent(Head(q)) /\ r > 0
        BY <2>7 DEF WriteResults
    <3>2. conn[fd].peer # "rst" /\ ~conn[fd].err
        BY <2>1, <2>7 DEF ReplySlot
    <3>3. args[fd].next_handler = "s5tar_request" /\ wire[fd] \o Rest(q) = MethodReply
        BY <1>1, <2>7, <3>2 DEF ReplySlot
    <3>4. wire'[fd] \o Rest(write_buffer'[fd]) = MethodReply
      <4>1. ~(q = <<>> \/ r <= 0)
          BY <2>7, <3>1
      <4>2. /\ wire'[fd] = wire[fd] \o SubSeq(Head(q).buff, Head(q).pos + 1, Head(q).pos + r)
            /\ write_buffer'[fd] = Written(q, r)
          BY <2>2, <4>1
      <4>3. q \in Queues \ {<<>>}
          BY <1>1, <2>7
      <4> QED BY <1>1, <3>1, <3>3, <4>2, <4>3, WriteMovesBytes, Zenon
    <3>5. ~(args[fd].stage = "request_2" \/ args[fd].readed > 0)
        BY <1>1, <2>7, <3>3 DEF ReplySlot
    <3> QED BY <1>1, <2>3, <2>4, <3>2, <3>3, <3>4, <3>5 DEF ReplySlot
  <2> QED BY <2>5, <2>6, <2>7
<1> QED BY <1>2, <1>3

\* A read leaves the end of the connection as it is, and reports an error once.
LEMMA SocketReadKeeps ==
    ASSUME ServerInv, ServerTypes, NEW fd \in Fds, Reading(fd)
    PROVE  /\ conn'[fd].peer = conn[fd].peer
           /\ conn'[fd].script = conn[fd].script
           /\ conn'[fd].sent = conn[fd].sent
           /\ conn'[fd].consumed = conn[fd].consumed + Got(fd)
           /\ conn'[fd].err => conn[fd].err
           /\ fd \in nodes /\ write_buffer[fd] = <<>>
           /\ batch'[fd] = {}
<1>1. conn'[fd] = SocketRead(fd)
    BY Functions DEF Reading
<1>2. batch'[fd] = {}
    BY Functions DEF Reading, CallbackTaken, Taken
<1>3. fd \in nodes /\ write_buffer[fd] = <<>>
    BY EmptyWhenRead DEF Reading
<1> QED BY <1>1, <1>2, <1>3, Functions DEF SocketRead, Sockets, Conns

LEMMA DispatchKeepsReply ==
    ASSUME ServerInv, ServerTypes, HandlerInv, NEW fd \in Fds, ReplySlot(fd), Dispatch(fd)
    PROVE  ReplySlot(fd)'
<1>1. HandlerSlot(fd)
    BY DEF HandlerInv
<1>2. CASE Flush(fd) \/ FlushBroken(fd)
    BY <1>2, FlushKeepsReply
<1>3. CASE S5tarError(fd)
  <2>1. conn'[fd] = NoConn /\ fd \notin nodes'
      BY <1>3, Functions, DispatchedNode DEF S5tarError
  <2>2. NoConn.err = FALSE
      BY DEF NoConn
  <2>3. ~conn'[fd].err
      BY <2>1, <2>2, Zenon
  <2> QED BY <2>1, <2>3, Zenon DEF ReplySlot
<1>4. CASE ReadMore(fd)
    BY <1>4, AfterReadMore, SocketReadKeeps DEF ReplySlot
<1>5. CASE MothedC1(fd)
  <2>1. args[fd].next_handler = "s5tar_mothed_c" /\ args'[fd].next_handler = "s5tar_mothed_c"
      BY <1>5, AfterMothedC1 DEF Runs
  <2> QED BY <1>5, <2>1, AfterMothedC1, SocketReadKeeps DEF ReplySlot
<1>6. CASE MothedC2(fd)
  <2>1. args[fd].next_handler = "s5tar_mothed_c" /\ wire'[fd] = <<>>
      BY <1>6, AfterMothedC2, SocketReadKeeps DEF Runs, ReplySlot
  <2>2. Rest(<<FromBuff(MethodReply)>>) = MethodReply
    <3>1. FromBuff(MethodReply).buff = MethodReply /\ FromBuff(MethodReply).pos = 0
        BY DEF FromBuff
    <3> DEFINE b == FromBuff(MethodReply)
    <3> HIDE DEF b
    <3>2. Head(<<b>>) = b /\ <<b>> # <<>>
        OBVIOUS
    <3>3. Rest(<<b>>) = SubSeq(b.buff, b.pos + 1, Len(b.buff))
        BY <3>2, Zenon DEF Rest, UnsentBytes
    <3>4. Rest(<<b>>) = SubSeq(MethodReply, 1, Len(MethodReply))
        BY <3>1, <3>3 DEF b
    <3> QED BY <3>4, ReplyBuffers, SubSeqFull DEF b
  <2>3. wire'[fd] \o Rest(write_buffer'[fd]) = MethodReply
      BY <1>6, <2>1, <2>2, ReplyBuffers, AfterMothedC2
  <2> QED BY <1>6, <2>3, AfterMothedC2, SocketReadKeeps DEF ReplySlot
<1>7. CASE Request1(fd)
  <2>1. args[fd].next_handler = "s5tar_request"
      BY <1>7, AfterRequest1 DEF Runs
  <2> QED BY <1>7, <2>1, AfterRequest1, SocketReadKeeps DEF ReplySlot
<1> QED BY <1>2, <1>3, <1>4, <1>5, <1>6, <1>7
        DEF Dispatch, LinkBreak, Request1Unknown, Request2

\* What a client changes of its socket.
LEMMA SentSocket ==
    ASSUME NEW c \in Sockets, NEW m \in Nat, NEW d, d = [c EXCEPT !.sent = m]
    PROVE  /\ d.script = c.script /\ d.consumed = c.consumed
           /\ d.peer = c.peer /\ d.err = c.err /\ d.sent = m
BY SocketTypes DEF Conns

LEMMA ClientSockets ==
    ASSUME NEW c \in Sockets, NEW d
    PROVE  /\ d = [c EXCEPT !.peer = "fin"] =>
                /\ d.script = c.script /\ d.consumed = c.consumed
                /\ d.peer = "fin" /\ d.err = c.err /\ d.sent = c.sent
           /\ d = [c EXCEPT !.peer = "rst", !.err = TRUE] =>
                /\ d.script = c.script /\ d.consumed = c.consumed
                /\ d.peer = "rst" /\ d.err = TRUE /\ d.sent = c.sent
BY SocketTypes DEF Conns

\* The script a new connection brings changes nothing else of its socket.
LEMMA NewSocket ==
    ASSUME NEW s \in Scripts
    PROVE  LET d == [NoConn EXCEPT !.script = s]
           IN  /\ d.script = s /\ d.sent = 0 /\ d.consumed = 0
               /\ d.peer = "open" /\ d.err = FALSE
BY DEF NoConn

\* What a client does shows in its socket alone.
LEMMA ClientsTouchSockets ==
    ASSUME ServerInv, ServerTypes, Clients, NEW fd \in Fds
    PROVE  /\ UNCHANGED <<nodes, args, wire, write_buffer, batch, interest>>
           /\ conn'[fd].consumed = conn[fd].consumed
           /\ conn'[fd].script = conn[fd].script
           /\ conn[fd].sent <= conn'[fd].sent
           /\ conn[fd].peer = "open" \/ conn'[fd].sent = conn[fd].sent
           /\ conn'[fd].peer = "open" => conn[fd].peer = "open"
           /\ conn[fd].peer = "rst" => conn'[fd].peer = "rst" /\ conn'[fd].err = conn[fd].err
           /\ conn'[fd].err => conn[fd].err \/ conn'[fd].peer = "rst"
           /\ conn[fd].err => conn'[fd].err
<1>1. UNCHANGED <<nodes, args, wire, write_buffer, batch, interest>>
    BY DEF Clients, Connect, Send, Close, Reset, ClientStep, managerVars
<1>2. conn[fd] \in Sockets /\ conn[fd].sent \in Nat
    BY Functions, SocketTypes
<1>3. CASE conn'[fd] = conn[fd]
    BY <1>1, <1>2, <1>3
<1>4. ASSUME Send(fd)
      PROVE  \E m \in Nat : /\ conn[fd].sent < m /\ conn[fd].peer = "open"
                            /\ conn'[fd] = [conn[fd] EXCEPT !.sent = m]
  <2>1. PICK m \in Cuts \union {Len(conn[fd].script)} :
          /\ conn[fd].sent < m /\ conn[fd].peer = "open"
          /\ ClientStep(fd, [conn[fd] EXCEPT !.sent = m])
      BY <1>4 DEF Send
  <2>2. m \in Nat
      BY <2>1, Functions, SocketTypes, ServerAssumption
  <2> QED BY <2>1, <2>2, Functions DEF ClientStep
<1>5. CASE Send(fd)
  <2>1. PICK m \in Nat : /\ conn[fd].sent < m /\ conn[fd].peer = "open"
                         /\ conn'[fd] = [conn[fd] EXCEPT !.sent = m]
      BY <1>4, <1>5
  <2>2. /\ conn'[fd].script = conn[fd].script /\ conn'[fd].consumed = conn[fd].consumed
        /\ conn'[fd].peer = conn[fd].peer /\ conn'[fd].err = conn[fd].err /\ conn'[fd].sent = m
    <3> DEFINE d == conn'[fd]
    <3>1. d = [conn[fd] EXCEPT !.sent = m]
        BY <2>1
    <3> HIDE DEF d
    <3>2. /\ d.script = conn[fd].script /\ d.consumed = conn[fd].consumed
          /\ d.peer = conn[fd].peer /\ d.err = conn[fd].err /\ d.sent = m
        BY <1>2, <3>1, SentSocket
    <3> QED BY <3>2 DEF d
  <2> QED BY <1>1, <1>2, <2>1, <2>2
<1>6. CASE Close(fd)
  <2>1. conn[fd].peer = "open" /\ conn'[fd] = [conn[fd] EXCEPT !.peer = "fin"]
      BY <1>6, Functions DEF Close, ClientStep
  <2>2. /\ conn'[fd].script = conn[fd].script /\ conn'[fd].consumed = conn[fd].consumed
        /\ conn'[fd].peer = "fin" /\ conn'[fd].err = conn[fd].err
        /\ conn'[fd].sent = conn[fd].sent
      BY <1>2, <2>1, ClientSockets, Zenon
  <2> QED BY <1>1, <1>2, <2>1, <2>2
<1>7. CASE Reset(fd)
  <2>1. conn[fd].peer # "rst" /\ conn'[fd] = [conn[fd] EXCEPT !.peer = "rst", !.err = TRUE]
      BY <1>7, Functions DEF Reset, ClientStep
  <2>2. /\ conn'[fd].script = conn[fd].script /\ conn'[fd].consumed = conn[fd].consumed
        /\ conn'[fd].peer = "rst" /\ conn'[fd].err = TRUE
        /\ conn'[fd].sent = conn[fd].sent
      BY <1>2, <2>1, ClientSockets, Zenon
  <2>3. conn[fd].sent <= conn'[fd].sent
      BY <1>2, <2>2
  <2>4. "rst" # "open"
      OBVIOUS
  <2> QED BY <1>1, <2>1, <2>2, <2>3, <2>4, Zenon
<1>8. CASE Connect \/ \E other \in Fds \ {fd} : Send(other) \/ Close(other) \/ Reset(other)
    BY <1>3, <1>8, Functions DEF Connect, Send, Close, Reset, ClientStep
<1> QED BY <1>5, <1>6, <1>7, <1>8 DEF Clients

LEMMA StepKeepsReply ==
    ServerInv /\ ServerTypes /\ HandlerInv /\ ReplyInv /\ [Next]_vars => ReplyInv'
<1> SUFFICES ASSUME ServerInv, ServerTypes, HandlerInv, ReplyInv, [Next]_vars, NEW fd \in Fds
             PROVE  ReplySlot(fd)'
    BY DEF ReplyInv
<1>1. ReplySlot(fd)
    BY DEF ReplyInv
<1>2. CASE EpollWait \/ NotAccept \/ UNCHANGED vars
  <2>1. conn' = conn
      BY <1>2 DEF EpollWait, NotAccept, vars
  <2> QED BY <1>1, <1>2, <2>1, QuietSteps DEF ReplySlot
<1>3. CASE Clients
    BY <1>1, <1>3, ClientsTouchSockets DEF ReplySlot
<1>4. ASSUME NEW new \in Fds, HandleListen(new)
      PROVE  ReplySlot(fd)'
  <2>1. CASE fd = new
    <3>1. /\ args'[fd].next_handler = "s5tar_mothed_c"
          /\ wire'[fd] = <<>> /\ write_buffer'[fd] = <<>>
          /\ \E s \in Scripts : conn'[fd] = [NoConn EXCEPT !.script = s]
        BY <1>4, <2>1, AfterHandleListen
    <3>2. conn'[fd].err = FALSE
        BY <3>1, NewSocket, Zenon
    <3> QED BY <3>1, <3>2 DEF ReplySlot
  <2>2. CASE fd = ListenFd
    <3>1. fd # new
        BY <1>4, <2>2, AfterHandleListen
    <3>2. /\ args'[fd] = args[fd] /\ conn'[fd] = conn[fd] /\ wire'[fd] = wire[fd]
          /\ write_buffer'[fd] = write_buffer[fd] /\ (fd \in nodes' <=> fd \in nodes)
        BY <1>4, <2>2, <3>1, AfterHandleListen
    <3> QED BY <1>1, <3>2 DEF ReplySlot
  <2>3. CASE fd # new /\ fd # ListenFd
    <3>1. Untouched(fd)
        BY <1>4, <2>3, AfterHandleListen
    <3> QED BY <1>1, <3>1 DEF ReplySlot, Untouched
  <2> QED BY <2>1, <2>2, <2>3
<1>5. ASSUME NEW other \in Fds, Dispatch(other)
      PROVE  ReplySlot(fd)'
  <2>1. CASE fd = other
      BY <1>1, <1>5, <2>1, DispatchKeepsReply
  <2>2. CASE fd # other
      BY <1>1, <1>5, <2>2, OthersUntouched DEF ReplySlot, Untouched
  <2> QED BY <2>1, <2>2
<1> QED BY <1>2, <1>3, <1>4, <1>5 DEF Next, Loop

THEOREM ReplyInvariant == Spec => [](HandlerInv /\ ReplyInv)
<1>1. Init => HandlerInv /\ ReplyInv
    BY ManagerAssumption
    DEF Init, ManagerInit, HandlerInv, HandlerSlot, Fits, ReplyInv, ReplySlot, NoConn, NoArgs
<1> QED BY <1>1, StepKeepsHandler, StepKeepsReply, ServerInvariant, ServerTypesInvariant, PTL
        DEF Spec

\* The method reply is on the wire, whole and once, before the request is read.
THEOREM ReplyCorrect == Spec => []MethodReplyFirst
<1>1. ServerInv /\ ServerTypes /\ HandlerInv /\ ReplyInv => MethodReplyFirst
  <2> SUFFICES ASSUME ServerInv, ServerTypes, HandlerInv, ReplyInv, NEW fd \in nodes
               PROVE  /\ \/ wire[fd] \o Rest(write_buffer[fd])
                              = (IF args[fd].next_handler = "s5tar_request"
                                 THEN MethodReply ELSE <<>>)
                         \/ conn[fd].peer = "rst"
                      /\ (\/ args[fd].stage = "request_2"
                          \/ args[fd].stage = "request_1" /\ args[fd].readed > 0)
                           => wire[fd] = MethodReply /\ write_buffer[fd] = <<>>
      BY DEF MethodReplyFirst, Rest
  <2>1. fd \in Fds /\ wire[fd] \in Seq(Nat)
      BY Functions DEF ServerInv, ManagerInv, ManagerTypes
  <2>2. HandlerSlot(fd) /\ ReplySlot(fd)
      BY <2>1 DEF HandlerInv, ReplyInv
  <2>3. Rest(<<>>) = <<>> /\ \A w \in Seq(Nat) : w \o <<>> = w
      BY DEF Rest
  <2>4. CASE args[fd].next_handler = "s5tar_request"
      BY <2>1, <2>2, <2>3, <2>4 DEF ReplySlot
  <2>5. CASE args[fd].next_handler # "s5tar_request"
    <3>1. wire[fd] = <<>> /\ write_buffer[fd] = <<>>
        BY <2>2, <2>5 DEF ReplySlot
    <3>2. args[fd].stage \notin {"request_1", "request_2"}
        BY <2>2, <2>5 DEF HandlerSlot, Fits, NoArgs
    <3>3. <<>> \o <<>> = <<>>
        OBVIOUS
    <3> QED BY <2>3, <2>5, <3>1, <3>2, <3>3
  <2> QED BY <2>4, <2>5
<1> QED BY <1>1, ReplyInvariant, ServerInvariant, ServerTypesInvariant, PTL

(***************************************************************************)
(* The frames: the request is read from the byte after the greeting and to *)
(* the end of its address.  While a client stays, a read never fails (it   *)
(* is called when bytes are there); when it closes after a whole script, a *)
(* read fails only beyond the script.  Until then reads add up in readed   *)
(* as they do in the socket, stage_mothed_c_1 finds the count of methods   *)
(* at offset 1 of the buffer and stage_request_1 the address type and the  *)
(* length of a name at offsets 3 and 4.                                    *)
(***************************************************************************)

\* The length of a greeting as the code computes it: need_to_read starts at 2
\* and (size_t) of the char nmethods is added, and two bytes are read already.
Counted(s) == (2 + AsSize(s[2])) % SizeMod
GreetingTaken(s) == IF Counted(s) > 2 THEN Counted(s) ELSE 2

\* A script of one greeting, its methods few enough for a signed char, and the
\* first five bytes of a request at least, not for a domain name.
Whole(s) ==
    /\ Len(s) >= 2
    /\ 2 * s[2] < CharMod
    /\ Len(s) >= GreetingLength(s) + 5
    /\ s[GreetingLength(s) + 4] # S5_ATYPE_DOMAINNAME

\* A client that stays, or has sent the whole of a whole script.
Followed(c) == c.peer = "open" \/ (Whole(c.script) /\ c.sent = Len(c.script))

\* The buffer of the request holds the bytes read, which start in s after n.
Holds(buff, readed, s, n) == \A i \in {3, 4} : i < readed => buff[i] = s[n + i + 1]

\* How far the reads have come, for a socket c and the args a of its node.
AtFrame(c, a) ==
    LET s == c.script
        n == GreetingTaken(s)
    IN  /\ a.stage = "mothed_c_1" =>
             a.need_to_read = 2 /\ c.consumed = a.readed /\ a.readed < 2
        /\ a.stage = "mothed_c_2" =>
             c.consumed = a.readed /\ a.need_to_read = Counted(s) /\ a.readed \in 2..n
        /\ a.next_handler = "s5tar_request" =>
             c.consumed - a.readed = n /\ Holds(a.buff, a.readed, s, n)
        /\ a.stage = "request_1" => a.need_to_read = 5 /\ a.readed < 5
        /\ a.stage = "request_2" =>
             /\ s[n + 4] \in Supported
             /\ a.need_to_read = NeedFor(s[n + 4], s[n + 5])
             /\ a.readed >= 5
             /\ a.readed = 5 \/ a.readed < a.need_to_read

FrameSlot(fd) ==
    fd \in nodes \ {ListenFd} =>
        /\ conn[fd].script \in Scripts
        /\ conn[fd].peer = "open" =>
             ("IN" \in batch[fd] => Unread(fd) > 0) /\ "ERR" \notin batch[fd]
        /\ Followed(conn[fd]) => AtFrame(conn[fd], args[fd])

FrameInv == \A fd \in Fds : FrameSlot(fd)

\* What the code takes for the greeting of a whole script is the greeting.
LEMMA WholeGreeting ==
    ASSUME NEW s \in Seq(Bytes), Len(s) >= 2, 2 * s[2] < CharMod
    PROVE  /\ Counted(s) = 2 + s[2] /\ GreetingTaken(s) = 2 + s[2]
           /\ GreetingLength(s) = 2 + s[2] /\ s[2] \in Nat
<1>1. s[2] \in Bytes
  <2>1. 2 \in 1..Len(s)
      OBVIOUS
  <2> QED BY <2>1, ElementOfSeq
<1>2. 2 + s[2] \in 0..(SizeMod - 1) /\ SizeMod \in Nat
  <2>1. \A b \in Bytes : 2 + b \in 0..(SizeMod - 1)
      BY ServerAssumption, QueueAssumption DEF Bytes
  <2> QED BY <1>1, <2>1, Constants
<1>3. AsSize(s[2]) = s[2]
    BY DEF AsSize
<1>4. (2 + s[2]) % SizeMod = 2 + s[2]
    BY <1>2
<1>5. Counted(s) = 2 + s[2]
    BY <1>3, <1>4 DEF Counted
<1> QED BY <1>1, <1>5 DEF GreetingTaken, GreetingLength, Bytes

LEMMA TakenType ==
    ASSUME NEW s \in Seq(Bytes), Len(s) >= 2
    PROVE  GreetingTaken(s) \in Nat /\ GreetingTaken(s) >= 2 /\ Counted(s) \in Nat
<1>1. s[2] \in Bytes
  <2>1. 2 \in 1..Len(s)
      OBVIOUS
  <2> QED BY <2>1, ElementOfSeq
<1>2. Counted(s) \in Nat
    BY <1>1, Constants DEF Counted
<1> QED BY <1>2 DEF GreetingTaken

LEMMA LeastRead ==
    ASSUME NEW m \in Nat, NEW n \in Nat
    PROVE  Least(m, n) \in Nat /\ Least(m, n) <= m /\ Least(m, n) <= n
BY DEF Least

\* A read for a client that is followed gets no more than was asked for, and
\* does not fail before the address of the request is read.
LEMMA FollowedRead ==
    ASSUME ServerInv, ServerTypes, NEW fd \in Fds, HandlerSlot(fd), FrameSlot(fd),
           Reading(fd), Followed(conn[fd])
    PROVE  /\ AtFrame(conn[fd], args[fd])
           /\ args[fd].stage # "request_2" => ~ReadFails(fd)
           /\ args[fd].readed \in Nat /\ args[fd].need_to_read \in Nat
           /\ conn[fd].consumed \in Nat /\ conn'[fd].consumed \in Nat
           /\ Got(fd) \in Nat /\ HasRead(fd) = args[fd].readed + Got(fd)
           /\ args[fd].readed < args[fd].need_to_read => HasRead(fd) <= args[fd].need_to_read
           /\ args[fd].readed >= args[fd].need_to_read => Got(fd) = 0
           /\ conn'[fd].consumed = conn[fd].consumed + Got(fd)
           /\ conn'[fd].consumed <= Len(conn[fd].script)
           /\ conn'[fd].script = conn[fd].script
           /\ conn[fd].script \in Seq(Bytes)
<1>1. fd \in nodes \ {ListenFd}
    BY EmptyWhenRead DEF Reading
<1>2. "IN" \in batch[fd]
  <2>1. batch[fd] # {} /\ batch[fd] \subseteq {"IN", "OUT", "ERR"}
      BY Functions DEF Reading, CallbackTaken, Taken, Events, Flags
  <2> QED BY <2>1 DEF Reading, CallbackTaken
<1>3. AtFrame(conn[fd], args[fd]) /\ (conn[fd].peer = "open" => Unread(fd) > 0)
    BY <1>1, <1>2 DEF FrameSlot
<1>5. args[fd].readed \in Nat /\ args[fd].need_to_read \in Nat
    BY Functions, Constants DEF Args
<1>6. /\ conn[fd].consumed \in Nat /\ conn[fd].sent \in Nat
      /\ conn[fd].consumed <= conn[fd].sent
      /\ conn[fd].sent <= Len(conn[fd].script) /\ Len(conn[fd].script) \in Nat
      /\ conn[fd].script \in Seq(Bytes)
    BY Functions, SocketTypes
<1>4. ASSUME args[fd].stage # "request_2", ReadFails(fd)
      PROVE  FALSE
  <2>1. args[fd].readed < args[fd].need_to_read /\ conn[fd].sent = conn[fd].consumed
      BY <1>4, <1>6 DEF ReadFails, Reads, Unread
  <2>2. conn[fd].peer # "open"
      BY <1>3, <1>6, <2>1 DEF Unread
  <2> DEFINE s == conn[fd].script
  <2>3. Whole(s) /\ conn[fd].consumed = Len(s)
      BY <2>1, <2>2 DEF Followed
  <2>4. /\ Counted(s) = 2 + s[2] /\ GreetingTaken(s) = 2 + s[2] /\ s[2] \in Nat
        /\ Len(s) >= 2 + s[2] + 5
      BY <1>6, <2>3, WholeGreeting DEF Whole
  <2>5. CASE args[fd].stage = "mothed_c_1"
      BY <1>3, <1>6, <2>3, <2>4, <2>5 DEF AtFrame
  <2>6. CASE args[fd].stage = "mothed_c_2"
      BY <1>3, <1>5, <1>6, <2>1, <2>3, <2>4, <2>6 DEF AtFrame
  <2>7. CASE args[fd].stage = "request_1"
    <3>1. args[fd].next_handler = "s5tar_request"
        BY <2>7 DEF HandlerSlot, Fits, NoArgs
    <3> QED BY <1>3, <1>5, <1>6, <2>3, <2>4, <2>7, <3>1 DEF AtFrame
  <2> QED BY <1>1, <1>4, <2>5, <2>6, <2>7 DEF HandlerSlot, Fits
<1>7. /\ Got(fd) \in Nat /\ conn[fd].consumed + Got(fd) <= conn[fd].sent
      /\ args[fd].readed < args[fd].need_to_read
           => args[fd].readed + Got(fd) <= args[fd].need_to_read
  <2>1. CASE Reads(fd)
    <3> DEFINE u == conn[fd].sent - conn[fd].consumed
               v == args[fd].need_to_read - args[fd].readed
    <3>1. u \in Nat /\ v \in Nat /\ conn[fd].consumed + u = conn[fd].sent
          /\ args[fd].readed + v = args[fd].need_to_read
        BY <1>5, <1>6, <2>1 DEF Reads
    <3>2. Got(fd) = Least(u, v)
        BY <2>1 DEF Got, Unread
    <3> HIDE DEF u, v
    <3>3. Got(fd) \in Nat /\ Got(fd) <= u /\ Got(fd) <= v
        BY <3>1, <3>2, LeastRead
    <3> QED BY <1>5, <1>6, <3>1, <3>3
  <2>2. CASE ~Reads(fd)
      BY <1>5, <1>6, <2>2 DEF Got, Reads
  <2> QED BY <2>1, <2>2
<1>9. args[fd].readed >= args[fd].need_to_read => Got(fd) = 0
    BY <1>5 DEF Got, Reads
<1>10. HasRead(fd) = args[fd].readed + Got(fd)
    BY DEF HasRead
<1>11. conn'[fd].consumed = conn[fd].consumed + Got(fd) /\ conn'[fd].script = conn[fd].script
    BY SocketReadKeeps
<1>12. conn'[fd].consumed \in Nat /\ conn'[fd].consumed <= Len(conn[fd].script)
    BY <1>6, <1>7, <1>11
<1>13. args[fd].readed < args[fd].need_to_read => HasRead(fd) <= args[fd].need_to_read
    BY <1>7, <1>10
<1> QED BY <1>3, <1>4, <1>5, <1>6, <1>7, <1>9, <1>10, <1>11, <1>12, <1>13, Zenon

\* The bytes read of the request stay in its buffer.
LEMMA ReadFills ==
    ASSUME ServerInv, ServerTypes, NEW fd \in Fds, HandlerSlot(fd), FrameSlot(fd),
           Reading(fd), Followed(conn[fd]), args[fd].next_handler = "s5tar_request"
    PROVE  LET s == conn[fd].script
               n == GreetingTaken(s)
           IN  /\ conn'[fd].consumed - HasRead(fd) = n
               /\ Holds(Filled(fd), HasRead(fd), s, n)
<1> DEFINE s == conn[fd].script
           n == GreetingTaken(s)
<1>1. conn[fd].consumed - args[fd].readed = n /\ Holds(args[fd].buff, args[fd].readed, s, n)
    BY FollowedRead DEF AtFrame
<1>2. /\ args[fd].readed \in Nat /\ conn[fd].consumed \in Nat /\ Got(fd) \in Nat
      /\ HasRead(fd) = args[fd].readed + Got(fd)
      /\ conn'[fd].consumed = conn[fd].consumed + Got(fd)
    BY FollowedRead
<1>3. ASSUME NEW i \in {3, 4}, i < HasRead(fd)
      PROVE  Filled(fd)[i] = s[n + i + 1]
  <2>1. i \in Offsets
      BY DEF Offsets
  <2>2. CASE i < args[fd].readed
    <3>1. i \notin args[fd].readed .. (HasRead(fd) - 1)
        BY <1>2, <2>2
    <3> QED BY <1>1, <2>1, <2>2, <3>1 DEF Filled, Holds
  <2>3. CASE i >= args[fd].readed
    <3>1. i \in args[fd].readed .. (HasRead(fd) - 1)
        BY <1>2, <1>3, <2>3
    <3>2. conn[fd].consumed + (i - args[fd].readed) + 1 = n + i + 1
        BY <1>1, <1>2
    <3> QED BY <2>1, <3>1, <3>2 DEF Filled
  <2> QED BY <1>2, <2>2, <2>3
<1>4. conn'[fd].consumed - HasRead(fd) = n
    BY <1>1, <1>2
<1> QED BY <1>3, <1>4 DEF Holds

\* stage_mothed_c_1 ends with the second byte of the script in the buffer.
LEMMA CountFound ==
    ASSUME ServerInv, ServerTypes, NEW fd \in Fds, HandlerSlot(fd), FrameSlot(fd),
           MothedC1(fd), Followed(conn[fd])
    PROVE  AtFrame(conn'[fd], args'[fd])
<1>1. Reading(fd) /\ Runs(fd, "s5tar_mothed_c", "mothed_c_1")
    BY AfterMothedC1
<1>2. args[fd].need_to_read = 2 /\ conn[fd].consumed = args[fd].readed /\ args[fd].readed \in 0..1
    BY <1>1, FollowedRead DEF Runs, AtFrame
<1>3. HasRead(fd) = 2 /\ conn'[fd].consumed = 2 /\ 2 <= Len(conn[fd].script)
    BY <1>1, <1>2, FollowedRead DEF Runs
<1>4. conn[fd].script \in Seq(Bytes)
    BY Functions, SocketTypes
<1>5. conn[fd].script[2] \in Bytes
  <2>1. 2 \in 1..Len(conn[fd].script)
      BY <1>3, <1>4
  <2> QED BY <1>4, <2>1, ElementOfSeq
<1>6. Filled(fd)[1] = conn[fd].script[2]
  <2>1. 1 \in Offsets /\ 1 \in args[fd].readed .. (HasRead(fd) - 1)
      BY <1>2, <1>3 DEF Offsets
  <2>2. Filled(fd)[1] = conn[fd].script[conn[fd].consumed + (1 - args[fd].readed) + 1]
      BY <2>1 DEF Filled
  <2>3. conn[fd].consumed + (1 - args[fd].readed) + 1 = 2
      BY <1>2
  <2> QED BY <2>2, <2>3
<1>7. Values(Filled(fd)[1]) = {conn[fd].script[2]}
  <2>1. conn[fd].script[2] # Uninit
      BY <1>5 DEF Uninit, Bytes
  <2> QED BY <1>6, <2>1 DEF Values
<1>8. args'[fd].need_to_read = Counted(conn'[fd].script)
    BY <1>1, <1>2, <1>7, AfterMothedC1, FollowedRead DEF Counted
<1>9. GreetingTaken(conn'[fd].script) \in Nat /\ GreetingTaken(conn'[fd].script) >= 2
    BY <1>1, <1>3, <1>4, FollowedRead, TakenType
<1> QED BY <1>3, <1>8, <1>9, AfterMothedC1 DEF AtFrame

\* stage_request_1 ends with the address type and the next byte in the buffer.
LEMMA AddressFound ==
    ASSUME ServerInv, ServerTypes, NEW fd \in Fds, HandlerSlot(fd), FrameSlot(fd),
           Request1(fd), Followed(conn[fd])
    PROVE  AtFrame(conn'[fd], args'[fd])
<1> DEFINE s == conn[fd].script
           n == GreetingTaken(s)
<1>1. /\ Reading(fd) /\ Runs(fd, "s5tar_request", "request_1")
      /\ args[fd].next_handler = "s5tar_request" /\ args[fd].stage = "request_1"
    BY AfterRequest1 DEF Runs
<1>2. args[fd].need_to_read = 5 /\ args[fd].readed < 5
    BY <1>1, FollowedRead DEF AtFrame
<1>3. HasRead(fd) = 5 /\ conn'[fd].consumed <= Len(s) /\ s \in Seq(Bytes)
      /\ conn'[fd].consumed \in Nat /\ conn'[fd].script = s
    BY <1>1, <1>2, FollowedRead DEF Runs
<1>4. conn'[fd].consumed - 5 = n /\ Holds(Filled(fd), 5, s, n)
    BY <1>1, <1>3, ReadFills
<1>5. n \in Nat /\ n + 5 <= Len(s) /\ Len(s) \in Nat
  <2>1. n \in Int /\ n = conn'[fd].consumed - 5
      BY <1>3, <1>4
  <2>2. n >= 2
    <3>1. n = 2 \/ n > 2
        BY DEF GreetingTaken
    <3> QED BY <2>1, <3>1
  <2> QED BY <1>3, <2>1, <2>2
<1> HIDE DEF n, s
<1>6. s[n + 4] \in Bytes /\ s[n + 5] \in Bytes
  <2>1. n + 4 \in 1..Len(s) /\ n + 5 \in 1..Len(s)
      BY <1>5
  <2> QED BY <1>3, <2>1, ElementOfSeq
<1>7. Filled(fd)[3] = s[n + 4] /\ Filled(fd)[4] = s[n + 5]
    BY <1>4, <1>5 DEF Holds
<1>8. Values(Filled(fd)[3]) = {s[n + 4]} /\ Values(Filled(fd)[4]) = {s[n + 5]}
    BY <1>6, <1>7 DEF Values, Uninit, Bytes
<1>9. s[n + 4] \in Supported /\ args'[fd].need_to_read = NeedFor(s[n + 4], s[n + 5])
    BY <1>8, AfterRequest1
<1>10. /\ args'[fd].stage = "request_2" /\ args'[fd].next_handler = "s5tar_request"
       /\ args'[fd].readed = 5 /\ args'[fd].buff = Filled(fd)
    BY <1>3, AfterRequest1
<1>11. n = GreetingTaken(s)
    BY DEF n
<1> QED BY <1>3, <1>4, <1>9, <1>10, <1>11 DEF AtFrame

LEMMA DispatchKeepsFrame ==
    ASSUME ServerInv, ServerTypes, NEW fd \in Fds, HandlerSlot(fd), FrameSlot(fd), Dispatch(fd)
    PROVE  FrameSlot(fd)'
<1> SUFFICES ASSUME fd \in nodes'
             PROVE  /\ batch'[fd] = {}
                    /\ conn'[fd].script = conn[fd].script
                    /\ Followed(conn'[fd]) => AtFrame(conn'[fd], args'[fd])
    BY DispatchedNode DEF FrameSlot
<1>1. fd \in nodes \ {ListenFd} /\ ~S5tarError(fd)
    BY DispatchedNode
<1>2. Taken(fd)
    BY <1>1 DEF Dispatch, Flush, FlushBroken, LinkBreak, ReadMore, MothedC1, MothedC2,
           Request1, Request1Unknown, Request2, Reading,
           HandlerOut, HandlerOutKills, CallbackTaken
<1>3. batch'[fd] = {}
    BY <1>2, Functions DEF Taken
<1>10. conn'[fd].script = conn[fd].script
  <2>1. CASE Flush(fd) \/ FlushBroken(fd)
    <3>1. conn[fd] \in Conns
        BY Functions, SocketTypes
    <3> QED BY <2>1, <3>1, Functions DEF Flush, FlushBroken, Conns
  <2>2. CASE Reading(fd)
      BY <2>2, SocketReadKeeps
  <2> QED BY <1>1, <2>1, <2>2 DEF Dispatch, LinkBreak, Request1Unknown, Request2,
             ReadMore, MothedC1, MothedC2, Request1
<1> SUFFICES ASSUME Followed(conn'[fd])
             PROVE  AtFrame(conn'[fd], args'[fd])
    BY <1>3, <1>10
<1>4. CASE Flush(fd) \/ FlushBroken(fd)
  <2>1. args' = args
      BY <1>4 DEF Flush, FlushBroken
  <2>2. conn[fd] \in Conns
      BY Functions, SocketTypes
  <2>3. /\ conn'[fd].script = conn[fd].script /\ conn'[fd].consumed = conn[fd].consumed
        /\ conn'[fd].peer = conn[fd].peer /\ conn'[fd].sent = conn[fd].sent
      BY <1>4, <2>2, Functions DEF Flush, FlushBroken, Conns
  <2>4. AtFrame(conn[fd], args[fd])
      BY <1>1, <2>3 DEF FrameSlot, Followed
  <2> QED BY <2>1, <2>3, <2>4 DEF AtFrame
<1>5. ASSUME Reading(fd)
      PROVE  Followed(conn[fd]) /\ Fits(args[fd])
    BY <1>5, SocketReadKeeps DEF HandlerSlot, Followed
<1>6. CASE ReadMore(fd)
  <2>1. Reading(fd) /\ Followed(conn[fd]) /\ Fits(args[fd])
      BY <1>5, <1>6, AfterReadMore
  <2>2. /\ AtFrame(conn[fd], args[fd]) /\ conn'[fd].script = conn[fd].script
        /\ conn'[fd].consumed = conn[fd].consumed + Got(fd)
        /\ args'[fd].readed = args[fd].readed + Got(fd)
        /\ args'[fd].readed = HasRead(fd)
        /\ args'[fd].readed < args[fd].need_to_read
        /\ conn[fd].consumed \in Nat /\ args[fd].readed \in Nat /\ Got(fd) \in Nat
        /\ args[fd].need_to_read \in Nat
      BY <1>6, <2>1, FollowedRead, AfterReadMore
  <2>3. /\ args'[fd].stage = args[fd].stage
        /\ args'[fd].next_handler = args[fd].next_handler
        /\ args'[fd].need_to_read = args[fd].need_to_read
        /\ args'[fd].buff = Filled(fd)
      BY <1>6, AfterReadMore
  <2>4. CASE args[fd].stage = "mothed_c_1"
    <3>1. args[fd].next_handler # "s5tar_request"
        BY <2>1, <2>4 DEF Fits, NoArgs
    <3> QED BY <2>2, <2>3, <2>4, <3>1 DEF AtFrame
  <2>5. CASE args[fd].stage = "mothed_c_2"
    <3>1. args[fd].next_handler # "s5tar_request"
        BY <2>1, <2>5 DEF Fits, NoArgs
    <3>2. args[fd].readed \in 2..GreetingTaken(conn[fd].script)
          /\ args'[fd].readed < Counted(conn[fd].script) /\ Counted(conn[fd].script) \in Nat
        BY <2>2, <2>5 DEF AtFrame
    <3>3. args'[fd].readed \in 2..GreetingTaken(conn[fd].script)
        BY <2>2, <3>2 DEF GreetingTaken
    <3> QED BY <2>2, <2>3, <2>5, <3>1, <3>3 DEF AtFrame
  <2>6. CASE args[fd].next_handler = "s5tar_request"
    <3>1. args[fd].stage \in {"request_1", "request_2"}
        BY <2>1, <2>6 DEF Fits, NoArgs
    <3>2. /\ conn'[fd].consumed - HasRead(fd) = GreetingTaken(conn[fd].script)
          /\ Holds(Filled(fd), HasRead(fd), conn[fd].script, GreetingTaken(conn[fd].script))
        BY <2>1, <2>6, ReadFills
    <3>3. CASE args[fd].stage = "request_1"
        BY <2>2, <2>3, <3>2, <3>3 DEF AtFrame
    <3>4. CASE args[fd].stage = "request_2"
      <4>1. args'[fd].readed >= 5
          BY <2>2, <3>4 DEF AtFrame
      <4> QED BY <2>2, <2>3, <3>2, <3>4, <4>1 DEF AtFrame
    <3> QED BY <3>1, <3>3, <3>4
  <2>7. CASE args[fd] = NoArgs
    <3>1. NoArgs.stage = "none" /\ NoArgs.next_handler = "none"
        BY DEF NoArgs
    <3> QED BY <2>3, <2>7, <3>1 DEF AtFrame
  <2> QED BY <2>1, <2>4, <2>5, <2>6, <2>7 DEF Fits
<1>7. CASE MothedC1(fd)
    BY <1>5, <1>7, CountFound, AfterMothedC1
<1>8. CASE MothedC2(fd)
  <2>1. Reading(fd) /\ Runs(fd, "s5tar_mothed_c", "mothed_c_2") /\ Followed(conn[fd])
      BY <1>5, <1>8, AfterMothedC2
  <2>2. /\ args[fd].need_to_read = Counted(conn[fd].script)
        /\ conn[fd].consumed = args[fd].readed
        /\ args[fd].readed \in 2..GreetingTaken(conn[fd].script)
        /\ HasRead(fd) >= args[fd].need_to_read
      BY <2>1, FollowedRead DEF Runs, AtFrame
  <2>3. conn'[fd].consumed = GreetingTaken(conn[fd].script)
      BY <2>1, <2>2, FollowedRead DEF GreetingTaken
  <2>4. Holds(Filled(fd), 0, conn[fd].script, GreetingTaken(conn[fd].script))
      BY DEF Holds
  <2>5. conn'[fd].consumed - 0 = conn'[fd].consumed
      BY <2>1, FollowedRead
  <2> QED BY <1>8, <2>1, <2>3, <2>4, <2>5, FollowedRead, AfterMothedC2 DEF AtFrame
<1>9. CASE Request1(fd)
    BY <1>5, <1>9, AddressFound, AfterRequest1
<1> QED BY <1>1, <1>4, <1>6, <1>7, <1>8, <1>9
        DEF Dispatch, LinkBreak, Request1Unknown, Request2

LEMMA StepKeepsFrame ==
    ServerInv /\ ServerTypes /\ HandlerInv /\ ReplyInv /\ FrameInv /\ [Next]_vars => FrameInv'
<1> SUFFICES ASSUME ServerInv, ServerTypes, HandlerInv, ReplyInv, FrameInv, [Next]_vars,
                    NEW fd \in Fds
             PROVE  FrameSlot(fd)'
    BY DEF FrameInv
<1>1. FrameSlot(fd) /\ HandlerSlot(fd) /\ (conn[fd].err => conn[fd].peer = "rst")
    BY DEF FrameInv, HandlerInv, ReplyInv, ReplySlot
<1>2. CASE EpollWait
  <2>1. /\ UNCHANGED <<nodes, args, conn>>
        /\ \E S \in SUBSET Fds :
             batch' = [d \in Fds |-> IF d \in S THEN ReadyEvents(d) ELSE {}]
      BY <1>2 DEF EpollWait, Collect
  <2>2. fd # ListenFd /\ conn[fd].peer = "open" =>
          ("IN" \in batch'[fd] => Unread(fd) > 0) /\ "ERR" \notin batch'[fd]
    <3> SUFFICES ASSUME fd # ListenFd, conn[fd].peer = "open"
                 PROVE  ("IN" \in batch'[fd] => Unread(fd) > 0) /\ "ERR" \notin batch'[fd]
        OBVIOUS
    <3>1. batch'[fd] \subseteq ReadyEvents(fd)
        BY <2>1
    <3>2. "IN" \in ReadyEvents(fd) => Unread(fd) > 0
        BY DEF ReadyEvents
    <3>3. interest[fd] \subseteq Flags
        BY DEF ServerInv, ManagerInv, ManagerTypes
    <3>4. "ERR" \notin ReadyEvents(fd)
        BY <1>1, <3>3 DEF ReadyEvents, Flags
    <3> QED BY <3>1, <3>2, <3>4
  <2>3. Unread(fd)' = Unread(fd)
      BY <2>1 DEF Unread
  <2> QED BY <1>1, <2>1, <2>2, <2>3 DEF FrameSlot
<1>3. CASE NotAccept
  <2>1. UNCHANGED <<nodes, args, conn>> /\ batch' = [batch EXCEPT ![ListenFd] = {}]
      BY <1>3 DEF NotAccept, CallbackQuiet, CallbackTaken, Taken
  <2>2. fd # ListenFd => batch'[fd] = batch[fd]
      BY <2>1, Functions
  <2> QED BY <1>1, <2>1, <2>2 DEF FrameSlot, Unread
<1>4. CASE Clients
  <2>1. /\ UNCHANGED <<nodes, args, batch>>
        /\ conn'[fd].consumed = conn[fd].consumed /\ conn'[fd].script = conn[fd].script
        /\ conn[fd].sent <= conn'[fd].sent
        /\ conn[fd].peer = "open" \/ conn'[fd].sent = conn[fd].sent
        /\ conn'[fd].peer = "open" => conn[fd].peer = "open"
      BY <1>4, ClientsTouchSockets
  <2>2. Unread(fd) > 0 => Unread(fd)' > 0
    <3>1. conn[fd].sent \in Nat /\ conn[fd].consumed \in Nat
        BY Functions, SocketTypes
    <3>2. ServerTypes' /\ ServerInv'
        BY <1>4, ClientsKeepTypes, ServerStepKeeps DEF Next
    <3>3. conn'[fd].sent \in Nat
        BY <3>2, SocketTypes DEF ServerTypes
    <3> QED BY <2>1, <3>1, <3>3 DEF Unread
  <2>3. Followed(conn'[fd]) => Followed(conn[fd])
      BY <2>1 DEF Followed
  <2>4. AtFrame(conn[fd], args[fd]) => AtFrame(conn'[fd], args'[fd])
      BY <2>1 DEF AtFrame
  <2> QED BY <1>1, <2>1, <2>2, <2>3, <2>4 DEF FrameSlot
<1>5. ASSUME NEW new \in Fds, HandleListen(new)
      PROVE  FrameSlot(fd)'
  <2>1. CASE fd = new
    <3>1. /\ args'[fd].stage = "mothed_c_1" /\ args'[fd].next_handler = "s5tar_mothed_c"
          /\ args'[fd].need_to_read = 2 /\ args'[fd].readed = 0
          /\ batch'[fd] = {}
          /\ \E s \in Scripts : conn'[fd] = [NoConn EXCEPT !.script = s]
        BY <1>5, <2>1, AfterHandleListen
    <3>2. conn'[fd].consumed = 0 /\ conn'[fd].script \in Scripts
        BY <3>1, NewSocket, Zenon
    <3> QED BY <3>1, <3>2 DEF FrameSlot, AtFrame
  <2>2. CASE fd = ListenFd
      BY <2>2 DEF FrameSlot
  <2>3. CASE fd # new /\ fd # ListenFd
    <3>1. Untouched(fd)
        BY <1>5, <2>3, AfterHandleListen
    <3> QED BY <1>1, <3>1 DEF FrameSlot, Untouched, Unread
  <2> QED BY <2>1, <2>2, <2>3
<1>6. ASSUME NEW other \in Fds, Dispatch(other)
      PROVE  FrameSlot(fd)'
  <2>1. CASE fd = other
      BY <1>1, <1>6, <2>1, DispatchKeepsFrame
  <2>2. CASE fd # other
    <3>1. Untouched(fd)
        BY <1>6, <2>2, OthersUntouched
    <3> QED BY <1>1, <3>1 DEF FrameSlot, Untouched, Unread
  <2> QED BY <2>1, <2>2
<1>7. CASE UNCHANGED vars
  <2>1. UNCHANGED <<nodes, args, conn, batch>>
      BY <1>7 DEF vars, managerVars
  <2> QED BY <1>1, <2>1 DEF FrameSlot, Unread
<1> QED BY <1>2, <1>3, <1>4, <1>5, <1>6, <1>7 DEF Next, Loop

\* The inductive invariant of the handshake.
THEOREM FrameInvariant == Spec => [](HandlerInv /\ ReplyInv /\ FrameInv)
<1>1. Init => FrameInv
    BY DEF Init, ManagerInit, FrameInv, FrameSlot
<1> QED BY <1>1, StepKeepsFrame, ReplyInvariant, ServerInvariant, ServerTypesInvariant, PTL
        DEF Spec

\* Whatever a client that stays sends, and however it is cut, the buffer of the
\* request starts at the byte where the greeting ends as the code counts it.
GreetingCounted ==
    \A fd \in nodes \ {ListenFd} :
        conn[fd].peer = "open" =>
            conn[fd].consumed - args[fd].readed =
                IF args[fd].next_handler = "s5tar_request"
                THEN GreetingTaken(conn[fd].script) ELSE 0

\* The frames are cut as the code counts them, for all clients that stay.
THEOREM GreetingCountedCorrect == Spec => []GreetingCounted
<1>1. ServerInv /\ ServerTypes /\ HandlerInv /\ FrameInv => GreetingCounted
  <2> SUFFICES ASSUME ServerInv, ServerTypes, HandlerInv, FrameInv,
                      NEW fd \in nodes \ {ListenFd}, conn[fd].peer = "open"
               PROVE  conn[fd].consumed - args[fd].readed =
                        IF args[fd].next_handler = "s5tar_request"
                        THEN GreetingTaken(conn[fd].script) ELSE 0
      BY DEF GreetingCounted
  <2>1. fd \in Fds
      BY DEF ServerInv, ManagerInv, ManagerTypes
  <2>2. AtFrame(conn[fd], args[fd]) /\ Fits(args[fd]) /\ args[fd] # NoArgs
      BY <2>1 DEF FrameInv, FrameSlot, HandlerInv, HandlerSlot, Followed
  <2>3. conn[fd].consumed \in Nat
      BY <2>1, Functions, SocketTypes
  <2> QED BY <2>2, <2>3 DEF AtFrame, Fits
<1> QED BY <1>1, FrameInvariant, ServerInvariant, ServerTypesInvariant, PTL

\* Clients list no more methods than a signed char counts.
CountableMethods == \A s \in Scripts : Len(s) >= 2 => 2 * s[2] < CharMod

\* For such clients the greeting ends where the protocol says; with 128 methods
\* and more the code counts another length (GreetingTaken).
THEOREM FrameCorrect ==
    ASSUME CountableMethods
    PROVE  Spec => []FrameAligned
<1>1. ServerInv /\ ServerTypes /\ GreetingCounted => FrameAligned
  <2> SUFFICES ASSUME ServerInv, ServerTypes, GreetingCounted,
                      NEW fd \in nodes \ {ListenFd}, conn[fd].peer = "open"
               PROVE  conn[fd].consumed - args[fd].readed =
                        IF args[fd].next_handler = "s5tar_request"
                        THEN GreetingLength(conn[fd].script) ELSE 0
      BY DEF FrameAligned
  <2> DEFINE s == conn[fd].script
  <2>1. fd \in Fds
      BY DEF ServerInv, ManagerInv, ManagerTypes
  <2>2. /\ conn[fd].consumed \in Nat /\ args[fd].readed \in Nat
        /\ conn[fd].consumed <= Len(s) /\ s \in Seq(Bytes) /\ s \in Scripts \union {<<>>}
    <3>1. conn[fd] \in Sockets /\ args[fd] \in Args
        BY <2>1, Functions
    <3>2. conn[fd].script \in Scripts \union {<<>>} /\ args[fd].readed \in Nat
        BY <3>1 DEF Sockets, Conns, Args
    <3> QED BY <3>1, <3>2, SocketTypes
  <2>3. CASE args[fd].next_handler # "s5tar_request"
      BY <2>3 DEF GreetingCounted
  <2>4. CASE args[fd].next_handler = "s5tar_request"
    <3>1. conn[fd].consumed - args[fd].readed = GreetingTaken(s)
        BY <2>4 DEF GreetingCounted
    <3> HIDE DEF s
    <3>2. Len(s) >= 2
      <4>1. ~(Counted(s) > 2) => GreetingTaken(s) = 2
          BY DEF GreetingTaken
      <4>2. Counted(s) > 2 => GreetingTaken(s) = Counted(s)
          BY DEF GreetingTaken
      <4>3. Len(s) \in Nat
          BY <2>2
      <4> QED BY <2>2, <3>1, <4>1, <4>2, <4>3
    <3>3. 2 * s[2] < CharMod
      <4>1. s # <<>>
          BY <3>2
      <4> QED BY <2>2, <3>2, <4>1 DEF CountableMethods
    <3>4. GreetingTaken(s) = GreetingLength(s)
        BY <2>2, <3>2, <3>3, WholeGreeting
    <3> QED BY <2>4, <3>1, <3>4 DEF s
  <2> QED BY <2>3, <2>4
<1> QED BY <1>1, GreetingCountedCorrect, ServerInvariant, ServerTypesInvariant, PTL

\* Clients send a greeting and a request of an address (for a domain name the
\* code reads a byte too few, as the run of MCS5TarDomain shows).
AddressRequests == \A s \in Scripts : Whole(s)

\* Such a request is answered when it has been read to its last byte, and
\* nothing after it, wherever the bytes are cut and also when the client closes
\* behind it.
THEOREM RequestCorrect ==
    ASSUME AddressRequests
    PROVE  Spec => RequestReadWhole
<1> DEFINE ReadWhole ==
             \A fd \in Fds : AnswersRequest(fd) =>
                conn[fd].consumed + Got(fd) =
                    GreetingLength(conn[fd].script) + 3
                      + Convert!HeaderSize(Filled(fd)[3], Filled(fd)[4])
<1>1. ServerInv /\ ServerTypes /\ HandlerInv /\ FrameInv /\ [Next]_vars => [ReadWhole]_vars
  <2> SUFFICES ASSUME ServerInv, ServerTypes, HandlerInv, FrameInv, Next,
                      NEW fd \in Fds, AnswersRequest(fd)
               PROVE  conn[fd].consumed + Got(fd) =
                        GreetingLength(conn[fd].script) + 3
                          + Convert!HeaderSize(Filled(fd)[3], Filled(fd)[4])
      OBVIOUS
  <2> DEFINE s == conn[fd].script
             n == GreetingTaken(s)
  <2>1. Dispatch(fd)
    <3>1. fd \in nodes /\ fd \notin nodes'
        BY DEF AnswersRequest
    <3>2. ~(EpollWait \/ NotAccept \/ Clients)
        BY <3>1, QuietSteps
    <3>3. ASSUME NEW new \in Fds, HandleListen(new) PROVE FALSE
        BY <3>1, <3>3, AfterHandleListen
    <3>4. ASSUME NEW other \in Fds \ {fd}, Dispatch(other) PROVE FALSE
        BY <3>1, <3>4, OthersUntouched DEF Untouched
    <3> QED BY <3>2, <3>3, <3>4 DEF Next, Loop
  <2>2. Request2(fd) /\ fd \in nodes \ {ListenFd} /\ args[fd].stage = "request_2"
    <3>1. S5tarError(fd)
        BY <2>1, DispatchedNode DEF AnswersRequest
    <3>2. nodes' # nodes
        BY DEF AnswersRequest
    <3>3. ~(Flush(fd) \/ FlushBroken(fd) \/ ReadMore(fd) \/ MothedC1(fd) \/ MothedC2(fd)
              \/ Request1(fd))
        BY <3>2 DEF Flush, FlushBroken, HandlerOut, HandlerOutKills, ReadMore, MothedC1,
                    MothedC2, Request1, SetArgs, NodeWrite
    <3>4. ~LinkBreak(fd)
        BY DEF AnswersRequest, LinkBreak
    <3>5. ~Request1Unknown(fd)
        BY DEF AnswersRequest, Request1Unknown, Runs
    <3> QED BY <2>1, <3>3, <3>4, <3>5, DispatchedNode DEF Dispatch, AnswersRequest
  <2>3. HasRead(fd) >= args[fd].need_to_read /\ args[fd].next_handler = "s5tar_request"
      BY <2>2 DEF AnswersRequest, Request2, Runs
  <2>4. /\ FrameSlot(fd) /\ s \in Scripts /\ s \in Seq(Bytes) /\ Whole(s)
        /\ AtFrame(conn[fd], args[fd])
    <3>1. FrameSlot(fd) /\ s \in Scripts
        BY <2>2 DEF FrameInv, FrameSlot
    <3>2. s \in Seq(Bytes) /\ Whole(s)
        BY <3>1, Constants DEF AddressRequests
    <3> QED BY <2>2, <3>1, <3>2 DEF FrameSlot, AnswersRequest, Followed
  <2>5. /\ conn[fd].consumed \in Nat /\ conn[fd].sent \in Nat
        /\ conn[fd].consumed <= conn[fd].sent
        /\ args[fd].readed \in Nat /\ args[fd].need_to_read \in Nat
    <3>1. conn[fd] \in Sockets /\ args[fd] \in Args
        BY Functions
    <3>2. args[fd].readed \in Nat /\ args[fd].need_to_read \in Nat
        BY <3>1, Constants DEF Args
    <3> QED BY <3>1, <3>2, SocketTypes
  <2>6. /\ conn[fd].consumed - args[fd].readed = n
        /\ Holds(args[fd].buff, args[fd].readed, s, n)
        /\ s[n + 4] \in Supported
        /\ args[fd].need_to_read = NeedFor(s[n + 4], s[n + 5])
        /\ args[fd].readed >= 5
        /\ args[fd].readed = 5 \/ args[fd].readed < args[fd].need_to_read
      BY <2>2, <2>3, <2>4 DEF AtFrame
  <2>7. n = GreetingLength(s) /\ n \in Nat /\ s[n + 4] # S5_ATYPE_DOMAINNAME
      BY <2>4, WholeGreeting DEF Whole
  <2> HIDE DEF n, s
  <2>8. Filled(fd)[3] = s[n + 4]
    <3>1. 3 \in Offsets /\ 3 \notin args[fd].readed .. (HasRead(fd) - 1)
        BY <2>5, <2>6 DEF Offsets
    <3>2. Filled(fd)[3] = args[fd].buff[3]
        BY <3>1 DEF Filled
    <3>3. args[fd].buff[3] = s[n + 3 + 1]
        BY <2>5, <2>6 DEF Holds
    <3> QED BY <2>7, <3>2, <3>3
  <2>9. \/ /\ args[fd].need_to_read = 10
           /\ Convert!HeaderSize(Filled(fd)[3], Filled(fd)[4]) = 7
        \/ /\ args[fd].need_to_read = 22
           /\ Convert!HeaderSize(Filled(fd)[3], Filled(fd)[4]) = 19
    <3>1. CASE s[n + 4] = S5_ATYPE_IP4
      <4>1. args[fd].need_to_read = 10
          BY <2>6, <3>1
          DEF NeedFor, S5_ATYPE_IP4, S5_ATYPE_DOMAINNAME, S5_ATYPE_IP6
      <4>2. Convert!HeaderSize(Filled(fd)[3], Filled(fd)[4]) = 7
          BY <2>8, <3>1
          DEF Convert!HeaderSize, S5_ATYPE_IP4, Convert!S5_ATYPE_IP4,
              Convert!S5_ATYPE_DOMAINNAME, Convert!S5_ATYPE_IP6
      <4> QED BY <4>1, <4>2
    <3>2. CASE s[n + 4] = S5_ATYPE_IP6
      <4>1. args[fd].need_to_read = 22
          BY <2>6, <3>2
          DEF NeedFor, S5_ATYPE_IP4, S5_ATYPE_DOMAINNAME, S5_ATYPE_IP6
      <4>2. Convert!HeaderSize(Filled(fd)[3], Filled(fd)[4]) = 19
          BY <2>8, <3>2
          DEF Convert!HeaderSize, S5_ATYPE_IP6, Convert!S5_ATYPE_IP4,
              Convert!S5_ATYPE_DOMAINNAME, Convert!S5_ATYPE_IP6
      <4> QED BY <4>1, <4>2
    <3> QED BY <2>6, <2>7, <3>1, <3>2 DEF Supported
  <2>10. Got(fd) = args[fd].need_to_read - args[fd].readed
    <3>1. Reads(fd)
        BY <2>5, <2>6, <2>9 DEF Reads
    <3> DEFINE u == conn[fd].sent - conn[fd].consumed
               v == args[fd].need_to_read - args[fd].readed
    <3>2. u \in Nat /\ v \in Nat
        BY <2>5, <3>1 DEF Reads
    <3>3. Got(fd) = Least(u, v)
        BY <3>1 DEF Got, Unread
    <3>4. HasRead(fd) = args[fd].readed + Got(fd)
        BY DEF HasRead
    <3> HIDE DEF u
    <3>5. Got(fd) \in Nat /\ Got(fd) <= v
        BY <3>2, <3>3, LeastRead
    <3> QED BY <2>3, <2>5, <3>4, <3>5
  <2>11. conn[fd].consumed + Got(fd) = n + args[fd].need_to_read
      BY <2>5, <2>6, <2>7, <2>10
  <2>12. conn[fd].consumed + Got(fd)
           = n + 3 + Convert!HeaderSize(Filled(fd)[3], Filled(fd)[4])
      BY <2>7, <2>9, <2>11
  <2> QED BY <2>7, <2>12 DEF s
<1> QED BY <1>1, FrameInvariant, ServerInvariant, ServerTypesInvariant, PTL DEF RequestReadWhole, Spec
=============================================================================
