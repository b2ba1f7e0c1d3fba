------------------------------- MODULE MCCodec -------------------------------
(* Codec for TLC.                                                          *)
EXTENDS Codec

MCTimeouts == {-1500, -1, 0, 1, 999, 1000, 1001, 2500, 60000}

\* Structs of one, two and three bytes, with a zero byte among them.
MCStructs == UNION {[1 .. n -> {0, 7}] : n \in 1 .. 3}

\* Every string of up to seven characters.
MCStrings == BoundedSeq({"b", "|"}, 7)

\* One to three tokens of up to two characters.
MCTokenLists == UNION {[1 .. n -> {<<>>, <<"b">>, <<"b", "b">>}] : n \in 1 .. 3}

\* Around the limits of a byte, of uint16_t and of int, which is scaled down.
MCPorts == {AnyPort, NoPort, BadPort, 0, 1, 80, 255, 256, 65535, 65536, 70000,
            IntMax, IntMax + 1}
MCHosts == {"*", "bc", "1.2.3.4", "0.0.0.0", "255.255.255.255", "name"}

\* Every protocol with every host and port, and paths around the length of
\* sun_path.
MCAddresses ==
    [proto : {"udp", "tcp", "http"}, host : MCHosts, port : MCPorts]
    \cup [proto : {"unix"}, path : BoundedSeq({"a", "-"}, 4)]

\* Datagrams shorter than, as long as and longer than the buffers.
MCDatagrams == BoundedSeq({0, 7}, 5)

SolOptions == {socketOptsSOL[k].val : k \in 1 .. Len(socketOptsSOL)}
IpNames == {IpOptions[k].val : k \in 1 .. Len(IpOptions)}

\* Values the kernel gives by default (Linux), with flags set or not, an error
\* pending or not, and buffer sizes around a byte.
Values(flag, error, size) ==
    [o \in SolOptions \cup IpNames |->
        CASE o = "SO_TYPE" -> SOCK_DGRAM
          [] o = "SO_ERROR" -> error
          [] o \in {"SO_RCVBUF", "SO_SNDBUF"} -> size
          [] o = "IP_TTL" -> 64
          [] o \in {"SO_ACCEPTCONN", "SO_DONTROUTE", "SO_OOBINLINE"} -> 0
          [] o \in {"SO_RCVLOWAT", "SO_SNDLOWAT", "IP_MULTICAST_TTL"} -> 1
          [] OTHER -> flag]

\* An inet socket, a Unix socket and a closed descriptor.
MCSockets ==
    LET V == {Values(f, e, n) : f \in 0 .. 1, e \in {0, 111}, n \in {255, 256, 212992}}
    IN  {[addr |-> filter([proto |-> "udp", host |-> "*", port |-> 80]), opts |-> v] : v \in V}
        \cup {[addr |-> filter([proto |-> "unix", path |-> <<"a">>]),
               opts |-> [o \in SolOptions |-> v[o]]] : v \in V}
        \cup {[addr |-> [family |-> "closed"], opts |-> [o \in {} |-> 0]]}
=============================================================================
