----------------------------- MODULE S5Convert ------------------------------
(***************************************************************************)
(* socket5_convert.c: SOCKS5 messages between the fields of a caller and   *)
(* the bytes of a buffer.  One function serves both directions: reverse is *)
(* FALSE to decode, TRUE to encode.  A caller's memory gives a char for    *)
(* each place <<array, index>>, the arrays being the buffer, data, and the *)
(* message's fields; the functions copy between them and return a status   *)
(* and the size of the address.                                            *)
(***************************************************************************)
EXTENDS Integers

CONSTANTS
    CharMod,   \* a char holds one of CharMod byte values, signed
    SizeMod    \* size_t counts modulo SizeMod

ASSUME ConvertAssumption ==
    /\ CharMod \in Nat /\ CharMod >= 8
    /\ SizeMod \in Nat /\ SizeMod > CharMod

S5_ATYPE_IP4        == 1
S5_ATYPE_DOMAINNAME == 3
S5_ATYPE_IP6        == 4

\* (size_t)c for a signed char c with the bits of the byte b.
AsSize(b) == IF 2 * b < CharMod THEN b ELSE (SizeMod + b) - CharMod

\* Variant: the count is decremented before it is tested.
ConvertNCharPreDecrement(m, reverse, name, i, off, n) ==
    [p \in DOMAIN m |->
        IF reverse /\ p[1] = "data" /\ p[2] \in (off + 1)..(off + n - 1)
        THEN m[<<name, i + (p[2] - off)>>]
        ELSE IF ~reverse /\ p[1] = name /\ p[2] \in (i + 1)..(i + n - 1)
        THEN m[<<"data", off + (p[2] - i)>>]
        ELSE m[p]]

\* convert_n_char: n chars between the array name, from index i, and the
\* buffer, from offset off.
ConvertNChar(m, reverse, name, i, off, n) ==
    [p \in DOMAIN m |->
        IF reverse /\ p[1] = "data" /\ p[2] \in off..(off + n - 1)
        THEN m[<<name, i + (p[2] - off)>>]
        ELSE IF ~reverse /\ p[1] = name /\ p[2] \in i..(i + n - 1)
        THEN m[<<"data", off + (p[2] - i)>>]
        ELSE m[p]]

ConvertChar(m, reverse, name, off) == ConvertNChar(m, reverse, name, 0, off, 1)

\* A single char of a field, as the count it stands for.
Count(m, name) == AsSize(m[<<name, 0>>])

\* What a function returns, with the memory it leaves.
Result(m, ret, size) == [mem |-> m, ret |-> ret, header_size |-> size]

MothedC(m, reverse) ==
    LET m1 == ConvertChar(ConvertChar(m, reverse, "ver", 0), reverse, "nmethods", 1)
    IN  Result(ConvertNChar(m1, reverse, "methods", 0, 2, Count(m1, "nmethods")), 0, 0)

\* Variant: the password follows the name at once, on the byte of its length.
AuthPassCNoLength(m, reverse) ==
    LET m1 == ConvertChar(ConvertChar(m, reverse, "ver", 0), reverse, "ulen", 1)
        u  == Count(m1, "ulen")
        m2 == ConvertChar(ConvertNChar(m1, reverse, "uname", 0, 2, u), reverse, "plen", 2 + u)
    IN  Result(ConvertNChar(m2, reverse, "passwd", 0, 2 + u, Count(m2, "plen")), 0, 0)

AuthPassC(m, reverse) ==
    LET m1 == ConvertChar(ConvertChar(m, reverse, "ver", 0), reverse, "ulen", 1)
        u  == Count(m1, "ulen")
        m2 == ConvertChar(ConvertNChar(m1, reverse, "uname", 0, 2, u), reverse, "plen", 2 + u)
    IN  Result(ConvertNChar(m2, reverse, "passwd", 0, 2 + u + 1, Count(m2, "plen")), 0, 0)

\* convert_s5_mothed_r and convert_s5_auth_pass_r: two chars.
TwoChars(m, reverse, name) ==
    Result(ConvertChar(ConvertChar(m, reverse, "ver", 0), reverse, name, 1), 0, 0)

\* *header_size for an address type and, for a name, its length.
HeaderSize(atyp, len) ==
    CASE atyp = S5_ATYPE_IP4        -> 7
      [] atyp = S5_ATYPE_DOMAINNAME -> (4 + AsSize(len)) % SizeMod
      [] atyp = S5_ATYPE_IP6        -> 19

\* convert_s5_atyp_addr_port, the buffer starting at offset off.  A name lies
\* in addr behind its length char; what follows it in the buffer, where the
\* port is, is copied to or from the start of the name, and port not touched.
AtypAddrPort(m, reverse, off) ==
    LET m1   == ConvertChar(m, reverse, "atyp", off)
        atyp == m1[<<"atyp", 0>>]
        Fixed(n) == ConvertNChar(ConvertNChar(m1, reverse, "addr", 0, off + 1, n),
                                 reverse, "port", 0, off + 1 + n, 2)
        m2   == ConvertChar(m1, reverse, "addr", off + 1)
        len  == Count(m2, "addr")
        Name == ConvertNChar(ConvertNChar(m2, reverse, "addr", 1, off + 2, len),
                             reverse, "addr", 1, off + 2 + len, 2)
        mem  == CASE atyp = S5_ATYPE_IP4        -> Fixed(4)
                  [] atyp = S5_ATYPE_DOMAINNAME -> Name
                  [] atyp = S5_ATYPE_IP6        -> Fixed(16)
    IN  IF atyp \in {S5_ATYPE_IP4, S5_ATYPE_DOMAINNAME, S5_ATYPE_IP6}
        THEN Result(mem, 0, HeaderSize(atyp, mem[<<"addr", 0>>]))
        ELSE Result(m1, -1, 0)

\* Variant: the reserved char is not looked at.
RequestAnyReserved(m, reverse, name) ==
    LET m1 == ConvertChar(ConvertChar(ConvertChar(m, reverse, "ver", 0), reverse, name, 1),
                          reverse, "rsv", 2)
        r  == AtypAddrPort(m1, reverse, 3)
    IN  Result(r.mem, r.ret, 0)

\* convert_s5_request and convert_s5_replie, whose second char is a command or
\* a reply code; no header size is asked for.
Request(m, reverse, name) ==
    LET m1 == ConvertChar(ConvertChar(ConvertChar(m, reverse, "ver", 0), reverse, name, 1),
                          reverse, "rsv", 2)
        r  == AtypAddrPort(m1, reverse, 3)
    IN  IF m1[<<"rsv", 0>>] # 0 THEN Result(m1, -1, 0) ELSE Result(r.mem, r.ret, 0)

UdpHeader(m, reverse) ==
    LET m1 == ConvertNChar(m, reverse, "rsv", 0, 0, 2)
        r  == AtypAddrPort(ConvertChar(m1, reverse, "frag", 2), reverse, 3)
    IN  IF \E i \in {0, 1} : m1[<<"rsv", i>>] # 0 THEN Result(m1, -1, 0)
        ELSE IF r.ret # 0 THEN r
        ELSE [r EXCEPT !.header_size = (@ + 3) % SizeMod]
=============================================================================
