------------------------------ MODULE SocketInfo ------------------------------
(***************************************************************************)
(* SocketInfo (info.hpp) and the function info() of examples/simple.cpp:   *)
(* what they print of a socket's options.                                  *)
(*                                                                         *)
(* A socket is a function from the options ::getsockopt supports for it to *)
(* their values: a Unix socket has no IP options, a closed descriptor has  *)
(* none at all.  Every result goes into one u_char val, which nobody       *)
(* resets or initialises, and no return value is looked at.                *)
(***************************************************************************)
EXTENDS Integers, Sequences, FiniteSetsExt

SOCK_STREAM == 1
SOCK_DGRAM == 2

(* What the members socketTypes and socketOptsSOL list, in this order.     *)
socketTypes == 1 .. 3
Opt(type, val) == [type |-> type, val |-> val]
socketOptsSOL ==
    <<Opt("Type", "SO_TYPE"), Opt("Bool", "SO_ACCEPTCONN"), Opt("Bool", "SO_BROADCAST"),
      Opt("Bool", "SO_DONTROUTE"), Opt("Bool", "SO_ERROR"), Opt("Bool", "SO_OOBINLINE"),
      Opt("Bool", "SO_REUSEADDR"), Opt("Bool", "SO_REUSEPORT"), Opt("Int", "SO_RCVBUF"),
      Opt("Int", "SO_RCVLOWAT"), Opt("Int", "SO_SNDBUF"), Opt("Int", "SO_SNDLOWAT")>>

(* The options info_ip() reads into val.                                   *)
IpOptions == <<Opt("Bool", "IP_MULTICAST_LOOP"), Opt("Int", "IP_MULTICAST_TTL"),
               Opt("Int", "IP_TTL")>>

(* The options info() of simple.cpp reads.                                 *)
SimpleOptions == <<Opt("Bool", "IP_MULTICAST_LOOP"), Opt("Bool", "SO_ACCEPTCONN"),
                   Opt("Bool", "SO_REUSEADDR"), Opt("Bool", "SO_REUSEPORT")>>

\* Mutant: an option is printed before it is read.
MutOneBehind(sock, opts, g, k) ==
    LET read == {j \in 1 .. k - 1 : opts[j].val \in DOMAIN sock}
    IN  IF read = {} THEN g ELSE sock[opts[Max(read)].val] % 256

(* val when option k is printed: the low byte of the last option that      *)
(* could be read, else what the stack held, g.                             *)
val(sock, opts, g, k) ==
    LET read == {j \in 1 .. k : opts[j].val \in DOMAIN sock}
    IN  IF read = {} THEN g ELSE sock[opts[Max(read)].val] % 256

Shown(type, v) ==
    CASE type = "Int"  -> v
      [] type = "Bool" -> v # 0
      [] type = "Type" -> IF v \in socketTypes THEN v ELSE 0

(* The lines printed for the options opts.                                 *)
Lines(sock, opts, g) ==
    [k \in 1 .. Len(opts) |-> Shown(opts[k].type, val(sock, opts, g, k))]

info_so(sock, g) == Lines(sock, socketOptsSOL, g)
info_ip(sock, g) == Lines(sock, IpOptions, g)
info_simple(sock, g) == Lines(sock, SimpleOptions, g)

(* info(s, st): type is an int of its own, uninitialised (t) if it cannot  *)
(* be read, and decides what is printed; st is not used.  Reading SO_ERROR *)
(* also clears it (external), so what printing leaves of the socket is     *)
(* part of the result.                                                     *)
info(sock, g, t) ==
    LET type == IF "SO_TYPE" \in DOMAIN sock THEN sock["SO_TYPE"] ELSE t
        so   == type \in {SOCK_DGRAM, SOCK_STREAM}
    IN  [so   |-> IF so THEN info_so(sock, g) ELSE <<>>,
         ip   |-> IF type = SOCK_DGRAM THEN info_ip(sock, g) ELSE <<>>,
         left |-> [o \in DOMAIN sock |->
                     IF o = "SO_ERROR" /\ so THEN 0 ELSE sock[o]]]
=============================================================================
