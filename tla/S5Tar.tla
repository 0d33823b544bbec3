------------------------------- MODULE S5Tar --------------------------------
(***************************************************************************)
(* The SOCKS5 handshake server of kdevelop-socket5-tar: the callbacks of   *)
(* socket5_tar_handler.c driven by ne_event_handler_read_n_and_call, on    *)
(* the event manager of NetEvent, with the accept callback of test.c and   *)
(* its main loop.  Each action dispatches one event and is the whole       *)
(* callback chain: the read, the handler of the stage the connection is    *)
(* in, the manager calls it makes.                                         *)
(*                                                                         *)
(* The sockets and the clients are external: a client sends the bytes of   *)
(* a script in pieces, closes or resets; the kernel keeps the bytes not    *)
(* read yet and finds a connected socket always writable.  Only what the   *)
(* code looks at is kept of a received buffer: its bytes at the offsets 1, *)
(* 3 and 4.                                                                *)
(***************************************************************************)
EXTENDS NetEvent

CONSTANTS
    CharMod,    \* a char holds one of CharMod byte values, signed
    Scripts,    \* what a client may send: a greeting, then a request
    Cuts,       \* bound: the offsets of a script at which a segment may end
    MaxConns    \* bound: connections opened in a behaviour

Bytes == 0..(CharMod - 1)
Uninit == -1            \* a byte of the malloc'ed buffer never written
Offsets == {1, 3, 4}    \* nmethods, atyp, length of a domain name

MethodReply == <<5, 0>>

ASSUME ServerAssumption ==
    /\ CharMod \in Nat /\ CharMod >= 8
    /\ SizeMod > CharMod + 22
    /\ Scripts \subseteq Seq(Bytes)
    /\ Cuts \subseteq Nat
    /\ MaxConns \in Nat
    /\ Payloads = {MethodReply}

VARIABLES
    args,      \* node->extra, a s5tar_args_t, NoArgs when there is none
    conn,      \* the socket of a descriptor, as the kernel keeps it
    backlog,   \* connections waiting for accept()
    accepted   \* connections accepted so far

vars == <<managerVars, args, conn, backlog, accepted>>

NoBuff == [i \in Offsets |-> Uninit]

NoArgs == [stage |-> "none", next_handler |-> "none",
           need_to_read |-> 0, readed |-> 0, buff |-> NoBuff]

\* script: what the client means to send; sent: how many of its bytes the
\* kernel has received; consumed: how many of them read() has returned; peer:
\* "open", or after the client's "fin" or "rst"; err: an error to report.
NoConn == [script |-> <<>>, sent |-> 0, consumed |-> 0, peer |-> "open", err |-> FALSE]

S5_ATYPE_IP4        == 1
S5_ATYPE_DOMAINNAME == 3
S5_ATYPE_IP6        == 4
Supported == {S5_ATYPE_IP4, S5_ATYPE_DOMAINNAME, S5_ATYPE_IP6}

(***************************************************************************)
(* Conversions and reads.                                                  *)
(***************************************************************************)

\* (size_t)c for a signed char c with the bits of the byte b.
AsSize(b) == IF 2 * b < CharMod THEN b ELSE (SizeMod + b) - CharMod

\* What a read of the buffer yields: any byte where nothing was ever stored.
Values(b) == IF b = Uninit THEN Bytes ELSE {b}

\* Variant: the port of an IPv4 request is forgotten.
NeedForNoPort(atyp, len) == IF atyp = S5_ATYPE_IP4 THEN 8 ELSE 22

\* need_to_read once the address type is known, len being buff[4].
NeedFor(atyp, len) ==
    CASE atyp = S5_ATYPE_IP4        -> 10
      [] atyp = S5_ATYPE_DOMAINNAME -> (6 + AsSize(len)) % SizeMod
      [] atyp = S5_ATYPE_IP6        -> 22

Unread(fd) == conn[fd].sent - conn[fd].consumed
Least(m, n) == IF m < n THEN m ELSE n

\* read() is called only while the buffer holds less than was asked for.
Reads(fd) == args[fd].readed < args[fd].need_to_read
ReadFails(fd) == Reads(fd) /\ Unread(fd) = 0
Got(fd) == IF Reads(fd)
           THEN Least(Unread(fd), args[fd].need_to_read - args[fd].readed)
           ELSE 0
HasRead(fd) == args[fd].readed + Got(fd)

\* args->base.buff after the read.
Filled(fd) ==
    [i \in Offsets |->
        IF i \in args[fd].readed .. (HasRead(fd) - 1)
        THEN conn[fd].script[conn[fd].consumed + (i - args[fd].readed) + 1]
        ELSE args[fd].buff[i]]

(***************************************************************************)
(* Pieces of the callbacks.                                                *)
(***************************************************************************)

\* The socket after the read; one that fails reports the pending error.
SocketRead(fd) ==
    [conn[fd] EXCEPT !.consumed = @ + Got(fd),
                     !.err = IF ReadFails(fd) THEN FALSE ELSE @]

\* ne_event_handler_read_n_and_call on an event without EPOLLERR.
Reading(fd) ==
    /\ CallbackTaken(fd)
    /\ fd # ListenFd
    /\ "ERR" \notin batch[fd]
    /\ conn' = [conn EXCEPT ![fd] = SocketRead(fd)]
    /\ UNCHANGED <<backlog, accepted>>

\* The read is complete, or has failed: the next handler runs, in stage s.
Runs(fd, handler, s) ==
    /\ ReadFails(fd) \/ HasRead(fd) >= args[fd].need_to_read
    /\ args[fd].next_handler = handler
    /\ args[fd].stage = s

\* Where the stage allows it, only args changes (the handler's call of
\* ne_manager_node_modify passes the flags the kernel already has).
SetArgs(fd, next) ==
    /\ args' = [args EXCEPT ![fd] = next]
    /\ UNCHANGED <<nodes, open, epoll_flag, interest, write_buffer, wire>>

\* Variant: the count of the bytes read is assigned instead of added to.
ArgsReadAssigned(fd) == [args[fd] EXCEPT !.readed = Got(fd), !.buff = Filled(fd)]

\* args after the read of this event.
ArgsRead(fd) == [args[fd] EXCEPT !.readed = HasRead(fd), !.buff = Filled(fd)]

\* Variant: the node is taken out of the tree, but its descriptor neither out
\* of the interest list nor closed.
S5tarErrorLeaks(fd) ==
    /\ CallbackTaken(fd)
    /\ nodes' = nodes \ {fd}
    /\ args' = [args EXCEPT ![fd] = NoArgs]
    /\ UNCHANGED <<open, epoll_flag, interest, write_buffer, wire, conn, backlog, accepted>>

\* s5tar_error: args and its buffer are freed, the node is removed and the
\* descriptor closed, with what the kernel kept for it.
S5tarError(fd) ==
    /\ CallbackTaken(fd)
    /\ FdRemove(fd)
    /\ args' = [args EXCEPT ![fd] = NoArgs]
    /\ conn' = [conn EXCEPT ![fd] = NoConn]
    /\ UNCHANGED <<backlog, accepted>>

(***************************************************************************)
(* The actions of the server.                                              *)
(***************************************************************************)

\* epoll_wait: the descriptors that are ready, MaxEvents of them at most.
ReadyEvents(fd) ==
    LET in  == IF fd = ListenFd THEN backlog > 0
                                ELSE Unread(fd) > 0 \/ conn[fd].peer # "open"
        out == fd # ListenFd
    IN  (interest[fd] \intersect
            ((IF in THEN {"IN"} ELSE {}) \union (IF out THEN {"OUT"} ELSE {})))
        \union (IF conn[fd].err THEN {"ERR"} ELSE {})

EpollWait ==
    LET ready == {fd \in Fds : ReadyEvents(fd) # {}}
    IN  /\ \E S \in SUBSET ready :
             /\ Cardinality(S) = Least(MaxEvents, Cardinality(ready))
             /\ Collect([fd \in Fds |-> IF fd \in S THEN ReadyEvents(fd) ELSE {}])
        /\ UNCHANGED <<args, conn, backlog, accepted>>

\* handle_listen: accept() gives an unused descriptor, which gets a node and,
\* from s5tar_entry, the first stage.
HandleListen(new) ==
    /\ CallbackAdd(ListenFd, new)
    /\ backlog' = backlog - 1
    /\ accepted' = accepted + 1
    /\ args' = [args EXCEPT ![new] =
                  [stage |-> "mothed_c_1", next_handler |-> "s5tar_mothed_c",
                   need_to_read |-> 2, readed |-> 0, buff |-> NoBuff]]
    /\ \E s \in Scripts : conn' = [conn EXCEPT ![new] = [NoConn EXCEPT !.script = s]]

\* No descriptor is left: accept() fails and the connection keeps waiting.
NotAccept ==
    /\ CallbackQuiet(ListenFd)
    /\ open = Fds
    /\ UNCHANGED <<args, conn, backlog, accepted>>

\* The writable branch of handler__; on a broken connection write() returns
\* the pending error, once.
Flush(fd) ==
    /\ fd # ListenFd
    /\ \E r \in WriteResults(fd) :
         /\ write_buffer[fd] # <<>> =>
              (r = -1 <=> conn[fd].err) /\ (conn[fd].peer = "rst" => conn[fd].err)
         /\ HandlerOut(fd, r)
    /\ conn' = [conn EXCEPT ![fd] =
                  [conn[fd] EXCEPT !.err = conn[fd].err /\ write_buffer[fd] = <<>>]]
    /\ UNCHANGED <<args, backlog, accepted>>

\* Once the error is reported, the next write() raises SIGPIPE.
FlushBroken(fd) ==
    /\ fd # ListenFd
    /\ conn[fd].peer = "rst"
    /\ ~conn[fd].err
    /\ HandlerOutKills(fd)
    /\ UNCHANGED <<args, conn, backlog, accepted>>

\* An event with EPOLLERR goes through the next handler to s5tar_error.
LinkBreak(fd) ==
    /\ fd # ListenFd
    /\ "ERR" \in batch[fd]
    /\ S5tarError(fd)

\* Variant: a read of nothing is taken for a read to be tried again.
ReadMoreRetries(fd) ==
    /\ Reading(fd)
    /\ HasRead(fd) < args[fd].need_to_read
    /\ SetArgs(fd, ArgsRead(fd))

\* The read leaves the buffer incomplete: wait for more.
ReadMore(fd) ==
    /\ Reading(fd)
    /\ ~ReadFails(fd)
    /\ HasRead(fd) < args[fd].need_to_read
    /\ SetArgs(fd, ArgsRead(fd))

\* s5tar_mothed_c, stage_mothed_c_1: the number of methods is known.
MothedC1(fd) ==
    /\ Runs(fd, "s5tar_mothed_c", "mothed_c_1")
    /\ Reading(fd)
    /\ \E nmotheds \in Values(Filled(fd)[1]) :
         SetArgs(fd, [ArgsRead(fd) EXCEPT
                        !.stage = "mothed_c_2",
                        !.need_to_read = (@ + AsSize(nmotheds)) % SizeMod])

\* Variant: the stage changes, but not the handler that knows it.
MothedC2SameHandler(fd) ==
    /\ Runs(fd, "s5tar_mothed_c", "mothed_c_2")
    /\ Reading(fd)
    /\ NodeWrite(fd, MethodReply)
    /\ args' = [args EXCEPT ![fd] = [ArgsRead(fd) EXCEPT !.stage = "request_1"]]

\* stage_mothed_c_2: the reply is queued and s5tar_request prepares the read
\* of the request.
MothedC2(fd) ==
    /\ Runs(fd, "s5tar_mothed_c", "mothed_c_2")
    /\ Reading(fd)
    /\ NodeWrite(fd, MethodReply)
    /\ args' = [args EXCEPT ![fd] =
                  [stage |-> "request_1", next_handler |-> "s5tar_request",
                   need_to_read |-> 5, readed |-> 0, buff |-> Filled(fd)]]

\* s5tar_request, stage_request_1: the address type tells how much to read.
Request1(fd) ==
    /\ Runs(fd, "s5tar_request", "request_1")
    /\ Reading(fd)
    /\ \E atyp \in Values(Filled(fd)[3]) \intersect Supported,
          len \in Values(Filled(fd)[4]) :
         SetArgs(fd, [ArgsRead(fd) EXCEPT
                        !.stage = "request_2", !.need_to_read = NeedFor(atyp, len)])

\* An unknown address type: s5tar_error.  The code then falls out of the inner
\* switch and stores into the freed args and node, and calls epoll_ctl for the
\* closed descriptor, which fails: no state of the server is left to change.
Request1Unknown(fd) ==
    /\ fd # ListenFd
    /\ "ERR" \notin batch[fd]
    /\ Runs(fd, "s5tar_request", "request_1")
    /\ ~(Values(Filled(fd)[3]) \subseteq Supported)
    /\ S5tarError(fd)

\* stage_request_2: the reply is queued and s5tar_error called at once, which
\* frees the queue with it.
Request2(fd) ==
    /\ fd # ListenFd
    /\ "ERR" \notin batch[fd]
    /\ Runs(fd, "s5tar_request", "request_2")
    /\ S5tarError(fd)

(***************************************************************************)
(* The clients.                                                            *)
(***************************************************************************)
Connect ==
    /\ accepted + backlog < MaxConns
    /\ backlog' = backlog + 1
    /\ UNCHANGED <<managerVars, args, conn, accepted>>

ClientStep(fd, c) ==
    /\ fd \in open \ {ListenFd}
    /\ conn' = [conn EXCEPT ![fd] = c]
    /\ UNCHANGED <<managerVars, args, backlog, accepted>>

Send(fd) ==
    /\ conn[fd].peer = "open"
    /\ \E n \in Cuts \union {Len(conn[fd].script)} :
         /\ conn[fd].sent < n /\ n <= Len(conn[fd].script)
         /\ ClientStep(fd, [conn[fd] EXCEPT !.sent = n])

Close(fd) ==
    /\ conn[fd].peer = "open"
    /\ ClientStep(fd, [conn[fd] EXCEPT !.peer = "fin"])

Reset(fd) ==
    /\ conn[fd].peer # "rst"
    /\ ClientStep(fd, [conn[fd] EXCEPT !.peer = "rst", !.err = TRUE])

Init ==
    /\ ManagerInit
    /\ args = [fd \in Fds |-> NoArgs]
    /\ conn = [fd \in Fds |-> NoConn]
    /\ backlog = 0
    /\ accepted = 0

Dispatch(fd) ==
    \/ Flush(fd)
    \/ FlushBroken(fd)
    \/ LinkBreak(fd)
    \/ ReadMore(fd)
    \/ MothedC1(fd)
    \/ MothedC2(fd)
    \/ Request1(fd)
    \/ Request1Unknown(fd)
    \/ Request2(fd)

Loop ==
    \/ EpollWait
    \/ NotAccept
    \/ \E fd \in Fds : HandleListen(fd) \/ Dispatch(fd)

Clients == Connect \/ \E fd \in Fds : Send(fd) \/ Close(fd) \/ Reset(fd)

Next == Loop \/ Clients

\* main() calls ne_manager_poll for ever; nothing is owed by the clients.
Fairness == WF_vars(Loop)

Spec == Init /\ [][Next]_vars
FairSpec == Spec /\ Fairness

(***************************************************************************)
(* Properties.                                                             *)
(***************************************************************************)

\* The types of the connections' state, and the manager's.
Args == [stage : {"none", "mothed_c_1", "mothed_c_2", "request_1", "request_2"},
         next_handler : {"none", "s5tar_mothed_c", "s5tar_request"},
         need_to_read : 0..(SizeMod - 1),
         readed : Nat,
         buff : [Offsets -> Bytes \union {Uninit}]]

Conns == [script : Scripts \union {<<>>}, sent : Nat, consumed : Nat,
          peer : {"open", "fin", "rst"}, err : BOOLEAN]

S5TarTypeOK ==
    /\ ManagerTypeOK
    /\ args \in [Fds -> Args]
    /\ conn \in [Fds -> Conns]
    /\ backlog \in Nat
    /\ accepted \in Nat

\* A collected event never outlives its connection: whatever the callbacks of
\* one batch remove or register, no entry of the array names a descriptor that
\* is gone, or one that was closed and given to another connection since.
EventsHaveNodes == \A fd \in Fds : batch[fd] # {} => fd \in nodes

FreshNodeHasNoEvent ==
    [][\A fd \in Fds : fd \notin nodes /\ fd \in nodes' => batch'[fd] = {}]_vars

\* Every connection has its args, the listener has none, and the handler that
\* runs next is the one that knows the stage (the other one's switch would
\* fall to its default and drop the client).
HandlerFitsStage ==
    \A fd \in Fds :
        /\ args[fd] # NoArgs <=> fd \in nodes \ {ListenFd}
        /\ args[fd].next_handler =
             CASE args[fd].stage = "none" -> "none"
               [] args[fd].stage \in {"mothed_c_1", "mothed_c_2"} -> "s5tar_mothed_c"
               [] args[fd].stage \in {"request_1", "request_2"} -> "s5tar_request"

\* What a client sends is cut into frames exactly: however the bytes arrive,
\* while the greeting is read nothing of it is lost or read twice, and the
\* buffer of the request starts at the first byte after the nmethods methods.
GreetingLength(s) == 2 + s[2]

FrameAligned ==
    \A fd \in nodes \ {ListenFd} :
        conn[fd].peer = "open" =>
            conn[fd].consumed - args[fd].readed =
                IF args[fd].next_handler = "s5tar_request"
                THEN GreetingLength(conn[fd].script) ELSE 0

\* The answer to the greeting is on the wire, whole and once, before a byte of
\* the request is read: the server takes the steps of the protocol in turn,
\* although replies are written later than they are queued.
MethodReplyFirst ==
    \A fd \in nodes :
        /\ \/ wire[fd] \o (IF write_buffer[fd] = <<>> THEN <<>>
                           ELSE UnsentBytes(Head(write_buffer[fd])))
                = (IF args[fd].next_handler = "s5tar_request" THEN MethodReply ELSE <<>>)
           \/ conn[fd].peer = "rst"
        /\ args[fd].stage = "request_2" \/ (args[fd].stage = "request_1" /\ args[fd].readed > 0)
             => wire[fd] = MethodReply /\ write_buffer[fd] = <<>>

\* The request is answered by this step, not given up on an error or after
\* the client has closed in the middle of it.
AnswersRequest(fd) ==
    /\ args[fd].stage = "request_2"
    /\ fd \in nodes /\ fd \notin nodes'
    /\ "ERR" \notin batch[fd]
    /\ ~ReadFails(fd)
    /\ conn[fd].peer = "open" \/ conn[fd].sent = Len(conn[fd].script)

\* A request is answered when it has been read whole, and nothing after it: as
\* convert_s5_request decodes it, three bytes and an address of header_size.
Convert == INSTANCE S5Convert

RequestReadWhole ==
    [][\A fd \in Fds : AnswersRequest(fd) =>
          conn[fd].consumed + Got(fd) =
              GreetingLength(conn[fd].script) + 3
                + Convert!HeaderSize(Filled(fd)[3], Filled(fd)[4])]_vars

\* The server is an event manager whose callbacks keep to one use of the
\* manager a run and never queue on a node that has a buffer queued.
ImplementsManager == ManagerSpec

\* A connection whose client is gone is removed in the end, its descriptor
\* closed (or the process is ended by SIGPIPE).
ClientGone(fd) == fd \in nodes /\ conn[fd].peer # "open"
Reaped == \A fd \in Fds \ {ListenFd} : ClientGone(fd) ~> (fd \notin nodes \/ ~alive)

\* A client that has sent its greeting and stays gets the method reply.  A
\* greeting without methods is read whole in the first stage, and the second
\* runs at the next event: the client has to send more.
Greeted(fd) ==
    /\ fd \in nodes
    /\ \/ conn[fd].sent > GreetingLength(conn[fd].script)
       \/ /\ conn[fd].sent = GreetingLength(conn[fd].script)
          /\ conn[fd].script[2] > 0
GreetingAnswered ==
    \A fd \in Fds \ {ListenFd} : Greeted(fd) ~> (\/ wire[fd] = MethodReply
                                    \/ conn[fd].peer # "open"
                                    \/ fd \notin nodes
                                    \/ ~alive)

\* The backlog is served, unless every descriptor has a client that stays: when
\* accept has failed for want of a descriptor, the loop still serves the clients,
\* and one that goes makes room for the next.
BacklogServed ==
    (backlog > 0) ~> (\/ backlog = 0
                      \/ \A fd \in Fds \ {ListenFd} : fd \in nodes /\ conn[fd].peer = "open"
                      \/ ~alive)
=============================================================================
