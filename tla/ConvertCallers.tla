--------------------------- MODULE ConvertCallers ---------------------------
(***************************************************************************)
(* Two callers of S5Convert: one encodes a message, the other decodes the  *)
(* buffer into fields of its own.                                          *)
(***************************************************************************)
EXTENDS S5Convert, Sequences

CONSTANTS
    Room,      \* chars in the array of a field; the buffer has twice as many
    Fillings,  \* the bytes to fill a message with
    Lengths    \* lengths of a name, a password or a list of methods

\* Counts are chars without the top bit, and what they count is in its array;
\* the size of any header is a size_t.
ASSUME CallersAssumption ==
    /\ SizeMod >= 4 * CharMod
    /\ Room \in Nat /\ Room >= 16
    /\ Fillings \subseteq [1..Room -> 0..(CharMod - 1)]
    /\ Lengths \subseteq {n \in Nat : 2 * n < CharMod /\ n + 3 <= Room}

VARIABLES
    kind,    \* the function called
    given,   \* the fields of the message
    result,  \* what the last call returned, with the memory it left
    pc       \* "given", "encoded", "decoded"

convertVars == <<kind, given, result, pc>>

Unset == -1

Names == {"ver", "nmethods", "methods", "method", "ulen", "uname", "plen", "passwd",
          "status", "cmd", "rep", "rsv", "atyp", "addr", "port", "frag"}

Places == (Names \X (0..(Room - 1))) \union ({"data"} \X (0..(2 * Room - 1)))

\* A caller's memory with the fields f, its buffer what data says.
Memory(f, data) ==
    [p \in Places |-> IF p[1] = "data" THEN data[p[2]]
                     ELSE IF p[1] \in DOMAIN f THEN f[p[1]][p[2]] ELSE Unset]

Data(m) == [k \in 0..(2 * Room - 1) |-> m[<<"data", k>>]]

Array(s) == [k \in 0..(Room - 1) |-> IF k < Len(s) THEN s[k + 1] ELSE Unset]

\* n bytes of a filling, from its element from on.
Bytes(n, fill, from) == [i \in 1..n |-> fill[from + i - 1]]

One(b) == Array(<<b>>)

Addresses(fill) ==
    {[atyp |-> One(S5_ATYPE_IP4), addr |-> Array(Bytes(4, fill, 1)), port |-> Array(Bytes(2, fill, 2))],
     [atyp |-> One(S5_ATYPE_IP6), addr |-> Array(Bytes(16, fill, 1)), port |-> Array(Bytes(2, fill, 2))],
     [atyp |-> One(2), addr |-> Array(Bytes(4, fill, 1)), port |-> Array(Bytes(2, fill, 2))]}
    \union {[atyp |-> One(S5_ATYPE_DOMAINNAME),
             addr |-> Array(<<n>> \o Bytes(IF n < 2 THEN 2 ELSE n, fill, 1)),
             port |-> Array(Bytes(2, fill, 2))] : n \in Lengths}

\* The fields of f and those of g.
With(f, g) == [name \in DOMAIN f \union DOMAIN g |->
                 IF name \in DOMAIN f THEN f[name] ELSE g[name]]

Messages(c, fill) ==
    CASE c = "mothed_c" ->
           {[ver |-> One(5), nmethods |-> One(n), methods |-> Array(Bytes(n, fill, 1))] : n \in Lengths}
      [] c = "mothed_r" -> {[ver |-> One(5), method |-> One(fill[1])]}
      [] c = "auth_pass_r" -> {[ver |-> One(5), status |-> One(fill[1])]}
      [] c = "auth_pass_c" ->
           {[ver |-> One(5), ulen |-> One(u), uname |-> Array(Bytes(u, fill, 1)),
             plen |-> One(p), passwd |-> Array(Bytes(p, fill, 2))] : u, p \in Lengths}
      [] c = "request" ->
           {With([ver |-> One(5), cmd |-> One(fill[1]), rsv |-> One(r)], a) :
               r \in {0, 1}, a \in Addresses(fill)}
      [] c = "replie" ->
           {With([ver |-> One(5), rep |-> One(fill[1]), rsv |-> One(r)], a) :
               r \in {0, 1}, a \in Addresses(fill)}
      [] c = "udp_header" ->
           {With([rsv |-> Array(<<r, q>>), frag |-> One(fill[1])], a) :
               r, q \in {0, 1}, a \in Addresses(fill)}
      [] c = "atyp_addr_port" -> Addresses(fill)

Kinds == {"mothed_c", "mothed_r", "auth_pass_c", "auth_pass_r", "request", "replie",
          "udp_header", "atyp_addr_port"}

Call(m, reverse) ==
    CASE kind = "mothed_c"       -> MothedC(m, reverse)
      [] kind = "mothed_r"       -> TwoChars(m, reverse, "method")
      [] kind = "auth_pass_c"    -> AuthPassC(m, reverse)
      [] kind = "auth_pass_r"    -> TwoChars(m, reverse, "status")
      [] kind = "request"        -> Request(m, reverse, "cmd")
      [] kind = "replie"         -> Request(m, reverse, "rep")
      [] kind = "udp_header"     -> UdpHeader(m, reverse)
      [] kind = "atyp_addr_port" -> AtypAddrPort(m, reverse, 0)

BlankData == [k \in 0..(2 * Room - 1) |-> Unset]

ConvertInit ==
    /\ kind \in Kinds
    /\ \E fill \in Fillings : \E f \in Messages(kind, fill) : given = Memory(f, BlankData)
    /\ result = Result(given, 0, 0)
    /\ pc = "given"

Encode ==
    /\ pc = "given"
    /\ result' = Call(given, TRUE)
    /\ pc' = "encoded"
    /\ UNCHANGED <<kind, given>>

Decode ==
    /\ pc = "encoded"
    /\ result' = Call(Memory([n \in {} |-> 0], Data(result.mem)), FALSE)
    /\ pc' = "decoded"
    /\ UNCHANGED <<kind, given>>

ConvertNext == Encode \/ Decode

ConvertSpec == ConvertInit /\ [][ConvertNext]_convertVars

(***************************************************************************)
(* Properties.                                                             *)
(***************************************************************************)
IsName == given[<<"atyp", 0>>] = S5_ATYPE_DOMAINNAME

\* n chars of a field of the message, from index i.
Part(name, i, n) == [k \in 1..n |-> given[<<name, i + k - 1>>]]

\* The bytes of an address: type, address, port.  Of a name, the two bytes
\* where the port belongs are the first of the name (socket5_convert.c:60).
AddressBytes ==
    Part("atyp", 0, 1) \o
    CASE given[<<"atyp", 0>>] = S5_ATYPE_IP4 -> Part("addr", 0, 4) \o Part("port", 0, 2)
      [] given[<<"atyp", 0>>] = S5_ATYPE_IP6 -> Part("addr", 0, 16) \o Part("port", 0, 2)
      [] IsName -> Part("addr", 0, 1 + given[<<"addr", 0>>]) \o Part("addr", 1, 2)

\* The bytes of the message, in the order of the protocol.
Message ==
    CASE kind = "mothed_c" ->
           Part("ver", 0, 1) \o Part("nmethods", 0, 1)
           \o Part("methods", 0, given[<<"nmethods", 0>>])
      [] kind = "mothed_r"    -> Part("ver", 0, 1) \o Part("method", 0, 1)
      [] kind = "auth_pass_r" -> Part("ver", 0, 1) \o Part("status", 0, 1)
      [] kind = "auth_pass_c" ->
           Part("ver", 0, 1) \o Part("ulen", 0, 1) \o Part("uname", 0, given[<<"ulen", 0>>])
           \o Part("plen", 0, 1) \o Part("passwd", 0, given[<<"plen", 0>>])
      [] kind = "request" ->
           Part("ver", 0, 1) \o Part("cmd", 0, 1) \o Part("rsv", 0, 1) \o AddressBytes
      [] kind = "replie" ->
           Part("ver", 0, 1) \o Part("rep", 0, 1) \o Part("rsv", 0, 1) \o AddressBytes
      [] kind = "udp_header" -> Part("rsv", 0, 2) \o Part("frag", 0, 1) \o AddressBytes
      [] kind = "atyp_addr_port" -> AddressBytes

\* The size returned is that of the bytes, where the payload would begin.
SizeIsExtent ==
    kind \in {"udp_header", "atyp_addr_port"} => result.header_size = Len(Message)

\* An accepted message is encoded to its bytes, one after the other, none left
\* out and none written past its end.
EncodesMessage ==
    pc = "encoded" /\ result.ret = 0 =>
        /\ SizeIsExtent
        /\ \A k \in 0..(2 * Room - 1) :
             result.mem[<<"data", k>>] = IF k < Len(Message) THEN Message[k + 1] ELSE Unset

\* Decoding gives back every field that was encoded, except the port of a
\* name, which is not touched in either direction, and passes over all bytes.
RoundTrip ==
    pc = "decoded" /\ result.ret = 0 =>
        /\ SizeIsExtent
        /\ \A p \in Names \X (0..(Room - 1)) :
             result.mem[p] = IF p[1] = "port" /\ IsName THEN Unset ELSE given[p]

\* A message with a reserved char set, or an address type unknown, is refused
\* in both directions before any byte of the address is copied.
Refused ==
    \/ kind \in {"request", "replie"} /\ given[<<"rsv", 0>>] # 0
    \/ kind = "udp_header" /\ (given[<<"rsv", 0>>] # 0 \/ given[<<"rsv", 1>>] # 0)
    \/ given[<<"atyp", 0>>] = 2

RefusedKeepsAddress ==
    /\ pc # "given" => (result.ret = -1 <=> Refused)
    /\ Refused /\ pc = "encoded" => \A k \in 4..(2 * Room - 1) : result.mem[<<"data", k>>] = Unset
    /\ Refused /\ pc = "decoded" =>
          \A p \in {"addr", "port"} \X (0..(Room - 1)) : result.mem[p] = Unset
=============================================================================
