# socket5 in TLA+

A verification project for the C libraries and the SOCKS5 server of this
repository: TLA+ modules that model the server's event manager, handshake and
data structures, TLC runs that check them on small instances, and theorems
proved with TLAPS for every instance.

## 1. The system

The repository is four small C projects: `kdevelop-rbtree`,
`kdevelop-socket5-tar`, `kdevelop-json` and `kdevelop-stringbuilder`. The first
two make a single-threaded server on epoll, which does the first half of a SOCKS5
conversation (greeting, method reply, request). The others are libraries of
values and strings that the server does not use.

| Component | State | Operations | Talks to |
|---|---|---|---|
| event manager, `net_event.c` | tree of nodes (one per descriptor), the kernel's interest list, per node a list of buffers to write | `ne_manager_node_add`, `_node_write`, `_node_modify`, `_fd_remove`, `_poll`, `handler__`, `ne_event_handler_read_n_and_call` | the kernel (epoll, read, write, close); the nodes' callbacks, which call back into it during the poll loop |
| write list, `net_event.c:10-67` | linked `ne_buffer_t`, first and last pointer | push back, pop front, free | `handler__` |
| red-black tree, `rb_tree.c` | nodes with parent, children, colour | after-insert fix-up, pop, min, max, next, prev | insertion and search are written by the user (`net_event.c:70-98`) |
| handshake, `socket5_tar_handler.c` | per connection: stage, next handler, count needed, count read, buffer | `s5tar_entry`, `s5tar_mothed_c`, `s5tar_request`, `s5tar_error` | called by the counted read of `net_event.c`; queues replies, removes its node |
| main program, `test.c` | listening socket | the poll loop, `handle_listen` | adds the nodes |
| message conversion, `socket5_convert.c` | none | encode and decode of SOCKS5 messages | handshake (request only) |
| json, `json.c` | tree of values on the heap, three values that are never freed (true, false, null) | constructors, setters, concat, accessors, select, delete, parse, print | string builder (print) |
| string builder, `string_builder.c` | chain of cells, each with a buffer | new, from text, append, character, build (`c_str`), delete | json |

What is hard here, and hard to test:

* **Callbacks inside the loop.** `epoll_wait` fills an array once; the callbacks
  run while it is gone through may close a descriptor that has an entry further
  on, or accept a connection that gets the same number.
* **The interest in writability** is kept in the node and in the kernel. A writable
  event is *only* written, never read, so a wrong flag makes a connection silent or
  the loop spin.
* **Partial reads and writes**, at any byte, and failed writes with `size_t`
  arithmetic on a negative result.
* **The order of replies and requests**: replies are queued, requests may be
  pipelined behind the greeting, and the connection is closed by the callback that
  queues the last reply.
* **End of file and resets** at every stage, with and without `EPOLLERR`.
* **Long sequences on the tree**: what a pop leaves behind is met by a later
  insertion.

* **Ownership of json values.** Every constructor and `concat` takes over its arguments,
  and the parser has many ways out of a half-read pair; each has to free what it leaves.
* **Texts that are cut off or malformed**, at any place and depth: the parser's loops end
  only when something is no item.
* **Printing and parsing** are written apart, each with its own rules of escapes, numbers and
  words, and are meant to be inverses.

There are no threads, no persisted state and no timers; hazards of those kinds are
not listed. `PROJECT.json` has every hazard at its line with the properties that
cover it.

### What makes each component correct

* manager: tree, descriptor table and interest list agree; writability is asked
  for exactly while something is queued; no event outlives its connection.
* write list: bytes go out once, in order; what malloc gave is freed once.
* messages: encoded to the bytes of the protocol, decoded back to the same fields, refused
  before an address is copied.
* tree: pointers agree, search finds exactly the keys, scans are in order, no red
  child of a red node, equal black heights, insertion ends, a pop takes out one key.
* string builder: the chain is one text; no cell is reached after it was freed or lost; a
  text given out by `c_str` stays as it is.
* json: a value in memory has one owner at any time; the parser stays in the text and
  comes to an end; what is printed is read back; concat keeps all items; what an accessor gives
  lies in the list it is given.
* handshake: the stream is cut into frames exactly; handler and stage fit; the
  method reply is on the wire before the request is read; a request is answered
  when it has been read whole; a dead connection is given up in the end.

## 2. The modules

| Module | What it models | Code |
|---|---|---|
| `WriteQueue` | buffers queued on a node as a sequence; push, pop, position after a write | `net_event.c:10-67, 194-210` |
| `NetEvent` | the event manager, with the callbacks left open | `net_event.c:115-236` |
| `S5Tar` | the server: handshake stages, counted reads, accept, clients and sockets; extends `NetEvent` | `socket5_tar_handler.c`, `net_event.c:311-343`, `test.c:157-191` |
| `NeBuffer` | the write list with addresses, malloc, free | `net_event.c:10-67` |
| `S5Convert` | the message conversion, both directions, on a caller's memory | `socket5_convert.c` |
| `ConvertCallers` | a caller that encodes any message, and one that decodes its bytes | |
| `OrderedSet` | what the users of the tree rely on: a set of keys | |
| `RBTree` | the tree with its pointers and colours | `rb_tree.c`, `net_event.c:70-98` |
| `BuiltText` | what json relies on: a text that is appended to | |
| `StringBuilder` | the chain of cells with their buffers | `string_builder.c` |
| `JsonValue` | values on the heap, delete, concat | `json.c:10-302` |
| `JsonText` | print, escapes, numbers, the parser's scans | `json.c:305-574` |
| `Json` | the recursive parser as a machine, and a program that uses the library | `json.c:576-755` |
| `JsonAccess` | accessors and select; what is printed and read back, joined and found, value by value | `json.c:151-221, 757-787` |
| `NetEventProofs`, `S5TarProofs` | theorems about the manager, and about the server as an instance of it and its handshake | |
| `RBTreeProofs`, `NeBufferProofs`, `StringBuilderProofs` | theorems about the data structures | |
| `ConvertProofs` | theorems about the message conversion | |
| `JsonProofs` | theorems about the ownership of json values and the texts they are read from | |
| `CountingLemmas` | induction over numbers and the text of concatenated pieces, for these proofs | |
| `MC...` | instances for TLC | |

How they compose: `S5Tar` gives the callbacks that `NetEvent` leaves open, and its
specification is shown to imply `NetEvent`'s (`ImplementsManager`, both checked and
proved). `NeBuffer` is shown to implement the sequences of `WriteQueue`, and
`RBTree` the set of keys of `OrderedSet`, each within the limits below; those are
the abstractions of the list and the tree that `NetEvent` uses. `StringBuilder` is shown to
implement the text of `BuiltText`, and the printer of `JsonText` gives such texts.

### NetEvent

`nodes` is the set of descriptors in `ne_manager->root`; `epoll_flag`,
`write_buffer` are fields of the node; `interest` is what the kernel was last told
by `epoll_ctl`; `batch` is the part of the `epe` array not dispatched yet, as a
function of the descriptor because the order of the array is the kernel's; `wire`
is a history of bytes accepted by `write`. `alive` becomes FALSE when SIGPIPE ends the
process.

One dispatch (`handler__` and all that it calls) is one action: `HandlerOut` for the
writable branch, `HandlerOutKills` for a write that raises SIGPIPE, `Callback...`
for the other one. In `NetEvent` a callback may use the manager once a run:
nothing, queue a buffer on a node with none, remove any node, or register a
new descriptor.

### S5Tar

`args` is the `s5tar_args_t` of a connection. Of the 1024-byte buffer only the offsets
the code looks at are kept: 1 (number of methods), 3 (address type), 4 (length of a
name); a byte that was never stored is `Uninit`, and reading it yields any value. `conn`
is the socket as the kernel keeps it: the client's script, how much of it has arrived
and how much has been read, whether the client has closed or reset, and the error not
reported yet. Each dispatch of a connection is one action named for what it does:
`Flush`, `FlushBroken`, `LinkBreak`, `ReadMore`, `MothedC1`, `MothedC2` (with the call
of `s5tar_request` that follows), `Request1`, `Request1Unknown`, `Request2`.
`HandleListen` is accept with `ne_manager_node_add` and `s5tar_entry`.

A client sends its script in segments that end at the offsets `Cuts`, closes or
resets, at any time, also between the events of a batch. It sends only once its
connection has been accepted; bytes sent earlier reach the same states, since
nothing looks at a socket before. The kernel finds a connected socket always
writable, and reports what is ready, as many as fit in the array.

A char is scaled to 3 bits and a `size_t` to 6, keeping the sign extension of the
one into the other and the wrap-around of sums. Clients' scripts keep their length bytes
below half the range of a char: above it the code reads and prints past its buffer,
which is undefined behaviour with no bounded set of outcomes.

### RBTree

A node is its key. An insertion is one action for each turn of the search loop and
of the fix-up loop, so that the invariants speak of the tree between them. Left and
right mirror each other in the code and are the two values of a direction. A pop is
one action: its colour fix-up loop runs while a node is black that has just been
painted red, so it never runs. After a pop has lost nodes the code goes on with
freed memory; the model stops there (`Intact` in `TreeNext`).

### S5Convert

The memory of a caller is a function of places: the buffer and the fields are arrays of
chars. Every function of `socket5_convert.c` is an operator from a memory to a memory
with the status and the size returned. `ConvertCallers` has the callers: one encodes a
message, another decodes the buffer into fields that hold nothing, and a reference
definition (`Message`) builds the bytes by concatenation. `Room` is the size of a field,
`Fillings` are the bytes messages are made of, `Lengths` those of names, passwords and lists. `S5Tar` takes the size of an address from `S5Convert`. The
port of a domain name is not where the function's parameter `port` says: both directions
copy it from or to `addr+1` (`socket5_convert.c:60`), over the name; the properties say
so.

### StringBuilder

`cells` is the memory of `string_builder_t`, `chars` that of the buffers, both with the
addresses malloc gives; `sb` is the user's pointer. A buffer is the text in it, so
`buffer_length` is its length. Each function is an action, `string_builder_ch` an
operator. `given` remembers the texts `c_str` returned: since it overwrites the head's
old buffer without freeing it (`string_builder.c:76`), such a text stays readable for
ever and its memory is lost. `tidy` says whether that has been avoided, as json.c does,
by building each builder once. The two copies of the file, in `kdevelop-stringbuilder`
and in `kdevelop-json/src/remote`, are the same; the map names one or the other.

### JsonValue, JsonText, Json, JsonAccess

The heap is a function from addresses to records with the fields of `json_value_t`; a
string's buffer is kept in its value, since it is made and freed with it. An object or
array is the list of its nodes over `next`, its first node standing for the whole, or
for an empty list if it has no value. `Frees` is the sequence of addresses a delete
frees, so that a second free of one address shows. In `JsonAccess` accessors are sets of
results, `Crash` being the end of the program: `json_array_at` follows the link of an *object* in
an array (`json.c:218`), where nothing was stored, so what it reads is left open. `Tree` is the
value at an address, without addresses.

A text is a sequence of character codes with its `'\0'`. `ReadNumber` counts doubles in
units of the last place `%lf` prints; `MaxDigits` bounds the digits before its point, and those
of an integer. `Unescaped` has the letters of hexadecimal digits
count from 0, as `hex2char` does. It reads a `\u` escape six characters long whatever is left
(`json.c:381`), up to three characters beyond the `'\0'`. What stands there is one of `Behind`, which are
any texts of three characters, and a string is read with one of them behind the text (`StringRead`);
the copy that makes its value stops at a `'\0'` (`String`). `NothingFromBehind` says what follows from the two.

`json_parser` and `read_k_v` call each other. `Json` has them as a machine whose `stack`
has a frame for every object or array being read (`list` is the code's `ret`, `back` its
`back`, `key` is `k` of `read_k_v`) and whose `ret` is the value just returned. An
action reaches from one call or return to the next; each loop turn of an array or object
is one (`ReadsItem`; `ReadsName`, `ReadsPair`, `GivesPairUp`). So the invariants speak
of the memory inside a parse. malloc fails in one place, the loop that an unterminated
array keeps turning (`RunsOutOfMemory`); `Memory` is large enough that the program's
other calls never meet its end. The other actions are the calls of a program that keeps
to what json.h asks for: a value it has given away is not used again.

### Where the abstractions hold

* **The tree as a set.** Run `tree_pop` shows (`SmallTreeImplementsSet`) that as long as the
  tree has never had more than three nodes, one of them never removed (the listener), any
  sequence of insertions and pops is that of a set; `SmallTreesImplementSet` proves it for any
  keys, pinned or not. With a fourth node this is not so (`LosesOnlyByMisplacing` says exactly
  when), for instance descriptors 4, 5, 7, 6 followed by the close of 7. `NetEvent` and `S5Tar` are therefore faithful
  to the program with at most two connections at a time, which is what their TLC
  instances have; the theorems for larger sets of descriptors are about the manager
  with a tree that keeps its nodes.
* **The list as a queue.** Run `write_list` shows it for one queued buffer. With two the
  tail pointer is left behind and a pop frees the chain; `ManagerTypeOK`
  (at most one buffer) and `ImplementsManager` say that the server never gets there.

## 3. The runs

Passing runs:

| Run | Instance | What it shows |
|---|---|---|
| `manager` | listener, 2 descriptors, batch of 2, a payload of 2 bytes | the invariants of the manager under every use its callbacks may make of it |
| `handshake` | 1 descriptor used by 2 connections in turn, 4 kinds of clients, among them one without methods, 6 places a segment may end | frames, stages, reply order, size of requests, greetings answered, the backlog served although descriptors run out; the server implements the manager |
| `connections` | 2 descriptors, 3 connections, batch of 2 | events across connections: closes, resets and accepts inside a batch, descriptors reused |
| `progress` | 2 descriptors, 2 connections at a time | a client that has gone is removed in the end |
| `write_list` | 3 addresses, payloads of 1 to 3 bytes, 4 pushes | the list implements the queue; bytes in order; no leak |
| `tree_insert` | 8 keys in every order, no pops | the red-black invariants between any two turns; insertion ends |
| `tree_pop` | 6 keys, pops of any but the first | a pop damages the tree exactly when the leaving node's child is on the other side; a tree of at most three nodes implements a set |
| `convert` | all message kinds, lists and names of 0 to 3 bytes, 3 seeds of bytes, reserved chars set or not | bytes, round trip, sizes, refusals |
| `string_builder` | 4 cells, 4 buffers, texts of 0 to 2 characters | the chain is one text, its memory is held and given out texts stay |
| `json` | about 5300 texts of up to 3 tokens behind some beginnings, digits or `'\0'`s behind the text; programs of 4 calls on three sample texts | ownership, ends of parses, what is read behind a text, round trip, concat, what the accessors miss |

Bounds and why they are enough: two connections are the least that can disturb each
other inside a batch, and three connections on two descriptors force the reuse of a
number. The cuts fall inside and at the ends of the greeting and of the request's head,
and in its address; the last byte of a script always ends a segment. In `progress` the
only cut is the end of the greeting, so that a client may fall silent there. Eight keys
are the least for which a fix-up climbs, after a recolouring, to a second violation and
rotates there around a subtree that is not empty; every case occurs on both sides.
`MaxWire` bounds a history only. Four cells make a chain with an inner cell and one
built head before it. The texts of `json` are spelled by tokens: brackets, comma, colon,
quote, digit, `true` behind the beginnings `{`, `{""`, `{"":1`, `[1,`, `[{` or nothing,
so that a pair can be given up at each of its parts, first or later, nested or not, and
every list is cut off at every place; strings of quotes, backslashes and escapes (`u` is a token, so that a `\u` is cut off after each
of its characters), and
numbers of signs, digits, dot and exponent, are of three characters each; some numbers begin as
far as their exponent. Four calls are
enough to parse or make two lists, join them, and delete the result or parse its print.
33 addresses are what four calls can fill at most. `SizeMod` is above the number of
addresses, so that a wrapped count is never a valid index.

`CHECK_DEADLOCK FALSE` is given where the model may stop: SIGPIPE ends the server, the
clients' connections are bounded, the tree is not used after damage, the builder has a
bounded text, and the json program a bounded number of calls.

Fairness: `WF_vars(Loop)`, where `Loop` is what the main program does. `test_epoll_echo`
calls `ne_manager_poll` for ever and the dispatch loop has no other way than forward, so
that some step is taken whenever one can be. Nothing is assumed of the clients. The
array is as long as the descriptors in `handshake` and `progress` (the program has 512), so every
ready descriptor is in each batch. `BacklogServed` asks nothing of clients that stay: a connection
may wait as long as each descriptor has one. In `handshake` there is one descriptor for two
connections, so that `accept` fails (`NotAccept`) and succeeds later. `WF(ParserStep)` says that json_parser, sequential code,
goes on until it returns; nothing is owed by the program that calls it. `FairTreeSpec`
says that the insertion's own loops go on, which its caller waits for.

Violation runs, each one a statement of the repository that the code does not keep
(`findings` in `PROJECT.json` has the lines):

| Run | Statement | What the code does |
|---|---|---|
| `failed_write` | a failed write gives up the buffer (`net_event.c:201`) | the last byte of it is sent again later |
| `domain_request` | a request is read whole (size as in `socket5_convert.c:61`) | a domain request is answered one byte short |

More facts of this kind that the models have and no violation run is spent on:

* A read that returns 0 or fails calls the next handler without `EPOLLERR`, so that the stage
  goes on as if its bytes had come (`net_event.c:323-325`, in `Runs`).
* The reply to a request is queued and freed with the connection in the same callback, before
  a byte of it is written (`socket5_tar_handler.c:143-154`, `Request2`).
* A greeting without methods is answered only when the client sends more (`Greeted`).
* A pop whose leaving node has its child on the other side than its own puts that child in the
  place of the sibling and loses the sibling's subtree (`rb_tree.c:298`; the drawing above it says otherwise).
  `LosesOnlyByMisplacing` says that a pop damages the tree then and only then.
* The colours are not fixed after a pop (`rb_tree.c:183-187`, see `Popped`), so that `RedBlack`
  holds of insertions only.
* `RoundTrip` says which json values survive being printed and parsed, and that no others do:
  not those with true, false or null inside (they are compared with the whole rest of the text,
  `json.c:689`), not those with a string that ends in a backslash (`json.c:568`), and not
  negative doubles (`json.c:534`).
* `AccessorsStayInList` says that an index never finds an element (`json.c:155, 217`) and that a
  selector of several names stays in one list (`json.c:764`).
* A `\u` escape that is cut off is read beyond the end of the text (`json.c:381`). `NothingFromBehind` says
  that what stands there gets into no value, except for a text that ends in a `\u` with one
  character that is no digit: there it does.
* `OnlyOpenArrayExhausts`: a text that ends inside an array is never done with (`json.c:674, 718`);
  all other texts are.

## 4. The proofs

`NetEventProofs` proves, for every set of descriptors, payloads, array length and
`SizeMod`: `ManagerTypeOK`, `InterestMirrorsNodes`, `WritesAreArmed`,
`QueuedBuffersHaveBytes`. Assumptions: `QueueAssumption` (a payload has at least
one byte and its length fits a `size_t`) and `ManagerAssumption`. The
inductive invariant `ManagerInv` is the conjunction of the four: none is
inductive alone. The kernel is told only when the flag was not there before, so
that `interest` is right only if it mirrors the node; the queue's type after a failed
write needs that the front buffer has bytes left; and `WritesAreArmed` is kept by a
push because the flag tells whether something is queued. One lemma for each operation
(`NodeWrite`, `NodeAdd`, `FdRemove`, `HandlerOut`) is used by every callback.

`S5TarProofs` proves that the server implements the manager
(`ServerImplementsManager`), hence has its invariants, and that no collected event
outlives its connection (`EventsCorrect`, `FreshNodeCorrect`). The invariant is
`ServerInv`: the manager's, `EventsHaveNodes`, and `BatchArmed`, which
says that a collected event includes writability exactly if the descriptor is still
armed. That is what keeps the server from queueing twice on a node: a connection
with a reply queued is reported writable with every event, and `handler__` does not
call the callback of a writable descriptor.

`ServerTypeCorrect` proves `S5TarTypeOK`, from `ServerTypes`: a socket's consumed bytes
are among those sent, and those among the script's, so that the bytes a read stores are
bytes of the client; and the listener stays registered, has no bytes, and is reported
only while the backlog is not empty. It uses `ServerAssumption` (a `size_t` is wider
than a char and holds the largest fixed count).

The second half of `S5TarProofs` proves the properties of the handshake, in three layers, each using
the one before:

* `HandlerCorrect` (`HandlerFitsStage`): `HandlerInv` says of each connection which
  handler, count and kept bytes go with its stage; a counted read changes none of them
  until it is complete.
* `ReplyCorrect` (`MethodReplyFirst`): `ReplyInv` says that what is on the wire followed by
  what is queued is the method reply exactly once `s5tar_request` is the handler, and nothing
  before; that the request is not read while something is queued; and that a failed write,
  which puts its last byte back, happens on a reset connection only.
* `GreetingCountedCorrect`, `FrameCorrect` (`FrameAligned`) and `RequestCorrect`
  (`RequestReadWhole`): `FrameInv` says where in the client's script the bytes of the buffer
  and the reads under way are. It says so of clients that stay, or have sent the whole of a
  whole script before they closed or reset (`Followed`): a read that returns 0 is taken for a
  complete one and the frame is lost. What the code counts as a greeting is `Counted`
  for any number of methods; `FrameCorrect` assumes `CountableMethods`, that clients name fewer
  methods than half the range of a char, which makes this the greeting of the protocol
  (`socket5_tar_handler.c:71`). `RequestCorrect` assumes that scripts are whole and requests carry an
  address and not a name (`AddressRequests`): with a name the property is false (run `domain_request`).

`RBTreeProofs` is about trees of any size, first those that are only inserted into (`NoPops`: every
key is pinned, as in the run `tree_insert`). `TreeInv` is the invariant of the head of every turn of the search and of the fix-up.
It describes the tree by two ghosts under an existential quantifier: `sub`, the keys at and
below each node (`Shape`: the pointers agree, a node's subtree is itself and those of
its children, which are on their sides of it), and `h`, the black height of each node
(`Balanced`). `Calm` says that at most the node being fixed is red under a red
parent. With `sub` the walks of the code (search, `rbt_next` up and down, `rbt_min`) can be
followed without induction over trees: a walk that went wrong would do so at a
lowest, or highest, node, by the size of `sub`. Rotation and recolouring keep `Shape` and `Balanced` with
new ghosts for the two nodes turned. From this: `IntactCorrect`,
`RedBlackCorrect`, `ScansCorrect`, and `InsertionsImplementSet`, the refinement of
`OrderedSet`.

With pops the colours say nothing any more, so a second invariant, `LinkInv`, speaks of the links
alone, and every turn of an insertion keeps it whatever the colours are. A pop is
followed through its three parts: the leaving node is spliced out (`SpliceKeepsShape`), takes
the place of the popped one under its name (`ReplaceKeepsShape`, where a
node's successor may stand in for it because no other key lies between, `LeavingFacts`), and the popped one is cleared.
`PopKeepsShape` needs the leaving node's child to be on its own side; `PopMisplaces` shows that
otherwise a link to a node stays that does not know its parent. Hence
`PopsLoseByMisplacing`: in every tree that insertions and pops can build, of any size,
`OwnSide` decides whether a pop loses nodes; `TreeTypeCorrect`, with pops; and `WellPlacedPops`: until a pop
misplaces a child the tree is intact, scanned in order and a set of keys. The
tree of a server (`SmallInv`, as long as `peak` is at most `ServerNodes`) is red-black and has
red nodes only below its root. A red node under a red one being excluded, the root is then the only node
with children, so that no pop finds a child on the wrong side (`PopKeepsRedBelow`); a recolouring, which
would blacken nodes, takes four nodes; a rotation reddens the node it takes down. From this:
`SmallTreesImplementSet` and `SmallTreesStayOrdered`. Assumption of all: `TreeAssumption`.

`NeBufferProofs` assumes `MaxQueued <= 1`, which `ManagerTypeCorrect` and
`ServerImplementsManager` justify for the server. `ListInv` is then simple, one cell or none
(`Alone`), but has to hold through the arithmetic of `handler__`: the position after a write is
a sum modulo `SizeMod` that must not wrap, and what was accepted and what is left must be
the payload (`PosFound`, `Divided`). From it: `ListCorrect`, `BytesCorrect`,
`ImplementsQueueCorrect`.

`StringBuilderProofs` uses a ghost too: the sequence of cells. `Chained` says that the
links follow it, that its cells are those allocated and no two are the same. `BuilderInv` adds
that the texts given out are not in buffers of cells behind the head, which the next `c_str`
frees, and that no buffer is lost while builders are built once.
`string_builder_ch` and `c_str` are then facts about the concatenation of pieces
(`PiecesRead`, `FlattenGrows` in `CountingLemmas`). From it: `ChainHoldsCorrect`,
`GivenTextCorrect`, `ChCorrect`, `ImplementsTextCorrect`. Assumption: `BuilderAssumption`.

`ConvertProofs` is about every width of a char and of a `size_t`, every size of the fields,
every filling and all lengths. Where the parts of a message are in its bytes is said once for each kind
(`Lies`, from `Extend`: a part behind another part). A copy of one part takes a memory that holds the bytes before it
to one that holds the part too, in the buffer (`WriteMore`) or in the fields (`ReadMore`,
which also says that the length read is the length to copy next). `EncodeAddress` and
`DecodeAddress` chain the copies of an address, and a lemma for each function those of its message.
The invariant `ConvertInv` says that the message is one that callers are given, and that the result
is the one those lemmas speak of. From it: `EncodesEveryMessage`,
`DecodesWhatWasEncoded`, `RefusedBeforeAddress`. Assumptions: `CallersAssumption` (lengths
are chars without the top bit, what they count is in its array, and the size of any header is
a `size_t`) and that of `S5Convert`.

The induction theorems of the library cannot be instantiated by the installed provers, so
`CountingLemmas` gets induction over numbers from the well-foundedness of `<`: a set of numbers
that is not empty has a least one (`LeastNumber`).

`JsonProofs` is about any memory, all texts, well formed or not, whatever stands behind them, and all
programs that keep to the rules of `json.h`, for any number of calls. The operators of `JsonValue` and `JsonText` that
follow pointers or read texts (`Frees`, `Nodes`, `Printed`, `Unescaped`) are recursive functions,
of which the provers know nothing until one is shown to exist: `RecursionExists` does that for any
unfolding that needs values of a lower rank only (`Grounded`), the rank being the size of a
value or what is left of a text. Two ghosts describe the heap: `sub`, the addresses of the value at each
address, which are itself and, without overlap, those of what its pointers lead to
(`IsForest`); and `slot`, the owner of each address. A slot is a place whose pointer
may own a value: `held` (the program), `list` and `key` of a frame of the parser, and `ret`, which
`json_parser` is returning. `Owned` says that the value a slot points to is all that has this slot
as its owner. Each operation then says who owns what afterwards: a constructor
moves the values it takes and its new node to one slot, `concat` one list to the owner of the other,
a delete frees what one slot has and nothing else (`FreesParts`). `JsonInv` is the inductive
invariant: `Owned`, a position within the text, and of each frame what the loops of the parser need
(`IsFrame`): `back` is a node of the list that the frame owns, of its kind, and the last one, so
that linking behind it loses nothing; a frame that has read nothing has no list, and only one of
an object has a name. `OwnedOnce` alone is not inductive, as it would let `back` lie in another list
or before the end of its own. From it: `JsonTypeCorrect` (the position json_parser goes on from stays in the text; every pointer
of the program, of a list being read and of a list's node is to a value in memory), and `ValuesOwnedOnce`, whose last part
counts the addresses that the sequence `Owners` frees. `NothingFromBehindCorrect` needs of `JsonInv` only that
there is a text and a position in it. Two memories that begin with the same text are read side by side
(`AgreedReads`): what an escape gives is the same, or begins with the `'\0'` of both and is the last
(`Agree`), since `hex2char` gives a `'\0'` back (`NoDigit`); and of two texts that differ behind a `'\0'` only
`String` makes the same (`AgreedString`). Assumptions: `ValueAssumption`,
`TextAssumption` and `JsonAssumption` (a text ends with its only `'\0'`; three characters behind it are in memory).

Only model-checked: liveness (`Reaped`, `GreetingAnswered`, `BacklogServed`, `InsertionEnds`, `ParseEnds`); and
of json, what the values are and not only who owns them. `RoundTrip`, `AccessorsStayInList`
and `ConcatKeepsItems` say what recursive definitions over all trees and texts compute, with the
RECURSIVE operators of `JsonAccess`, which the provers do not take. `OnlyOpenArrayExhausts` supposes
a memory that the texts do not fill otherwise, which the instance has and no
assumption of `Json` states.

## 5. Not modelled

* `ne_manager_delete`, which pops a node whose handler removes it a second time: it comes after the loop, which nothing ends (`handle_read` sets another
  `is_exit`). `handle_read` itself is replaced by `s5tar_entry` before any event.
* Failing `malloc`, `epoll_ctl` and `epoll_create1`, whose results the code does not
  look at, and `accept` failing for other reasons than the descriptor limit.
* Debug output, addresses and ports, and the decoded request, which the code only prints.
* The authentication and UDP messages, declared and never handled.
* Of json: `json_string_new` and `json_number_new` on their own, which give a string without
  buffer and a zero; `json_value_to_string`, the print copied to the caller;
  `json_number_get_float`; the 128 bytes a number is printed to (`json.c:414`), which a double
  above 10^120 exceeds; one value
  put into two containers, which nobody could delete; doubles below the printed places.
* Demonstrations that print (`test.c` of the tree and of the string builder). Build files and
  binaries have no behaviour to model.

## 6. Plan

Done: `WriteQueue`, `NetEvent`, `S5Tar` (the server, most important first), `NeBuffer`,
`OrderedSet`, `RBTree`, `S5Convert`, `ConvertCallers`, `BuiltText`, `StringBuilder`, `JsonValue`,
`JsonText`, `Json`, `JsonAccess`, the runs above, and the proofs of the manager, of the refinement by
the server, of the handshake, the write list, the tree, the string builder,
the message conversion and the ownership of json values.

Next:

1. Composition of `NetEvent` with `RBTree` in place of the set, on four descriptors:
   what the server does when its tree has lost a node.
