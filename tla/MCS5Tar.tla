------------------------------ MODULE MCS5Tar -------------------------------
(* S5Tar on small instances.  A char is 3 bits wide (-4..3), a size_t 6.   *)
EXTENDS S5Tar, TLC

MCPayloads == {MethodReply}

\* One method, then an IPv4 request.
IP4Client == <<5, 1, 0>> \o <<5, 1, 0, 1, 7, 0, 0, 1, 0, 6>>

\* Two methods, then a domain request with a name of two bytes.
DomainClient == <<5, 2, 0, 1>> \o <<5, 1, 0, 3, 2, 6, 6, 0, 6>>

\* Three methods, then an IPv6 request.
IP6Client == <<5, 3, 0, 1, 2>> \o <<5, 1, 0, 4>> \o [i \in 1..16 |-> 1] \o <<0, 6>>

\* One method, then a request of an address type the server does not know.
UnknownClient == <<5, 1, 0>> \o <<5, 1, 0, 2, 1, 0, 6>>

\* No method at all, then an IPv4 request.
NoMethodClient == <<5, 0>> \o <<5, 1, 0, 1, 7, 0, 0, 1, 0, 6>>

AddressClients == {IP4Client, IP6Client, UnknownClient, NoMethodClient}
DomainClients  == {DomainClient, UnknownClient}
OneClient      == {DomainClient}

Symmetry == Permutations(Fds \ {ListenFd})
=============================================================================
