------------------------------ MODULE Primitives ------------------------------
(***************************************************************************)
(* The value-level code of marko that every component rests on: the guard  *)
(* on system-call results, the millisecond-to-timeval conversion, and what *)
(* recv(), recvfrom() and sendto() make of the kernel's answer.            *)
(*                                                                         *)
(* A message_t (std::vector<uint8_t>) is a sequence of bytes; the empty    *)
(* sequence is what the library returns for "nothing received".            *)
(***************************************************************************)
EXTENDS Integers, Sequences

SOCKET_ERR == -1
SOCKET_TIMEOUT == -1

(* Socket::guard(err, msg): closes the socket and throws iff this holds.   *)
Throws(err) == err < 0

-----------------------------------------------------------------------------
(* time.hpp: C++ integer division and remainder truncate toward zero.      *)
TruncDiv(a, b) == IF a >= 0 THEN a \div b ELSE -((-a) \div b)
TruncMod(a, b) == a - b * TruncDiv(a, b)

\* Mutant: the remainder of the seconds is not taken off.
MutWholeMsec(timeout_msec) ==
    [tv_sec |-> TruncDiv(timeout_msec, 1000), tv_usec |-> timeout_msec]

get_time(timeout_msec) ==
    LET tv_sec == TruncDiv(timeout_msec, 1000)
    IN  [tv_sec  |-> tv_sec,
         tv_usec |-> TruncMod(timeout_msec - tv_sec * 1000, 1000)]

(* The kernel's test of SO_RCVTIMEO: EDOM unless this holds.               *)
Usec == {u \in Nat : u \div 1000 < 1000}
ValidTimeval(tv) == tv.tv_usec \in Usec

(* {0,0} means "no timeout": the receive blocks until a datagram arrives.  *)
NoTimeout == [tv_sec |-> 0, tv_usec |-> 0]

-----------------------------------------------------------------------------
(* The receive buffer message_t dst(msg_size) after the kernel copied the  *)
(* datagram d into it: a longer datagram is cut off, a shorter one leaves  *)
(* the zeros the vector was built with.  dst keeps size msg_size.          *)
Fill(msg_size, d) ==
    [i \in 1 .. msg_size |-> IF i <= Len(d) THEN d[i] ELSE 0]

(* What ::recvfrom returns for the datagram d (external).                  *)
Copied(msg_size, d) == IF Len(d) < msg_size THEN Len(d) ELSE msg_size

(* The tail shared by recv() and recvfrom() of both socket classes:        *)
(* an error, a timeout and an empty datagram all become the empty message. *)
Received(num, msg_size, d) ==
    IF num = SOCKET_TIMEOUT \/ num = 0 THEN <<>> ELSE Fill(msg_size, d)

(* The message recv()/recvfrom() returns for a datagram that has arrived.  *)
Delivered(msg_size, d) == Received(Copied(msg_size, d), msg_size, d)

(* sendto(): guard(msg.size() != num, ...) passes a bool (0 or 1) to       *)
(* guard's int parameter.                                                  *)
SendtoThrows(size, num) == Throws(IF size # num THEN 1 ELSE 0)

(* SocketUnix::recv() guards num before it looks for a timeout; the other  *)
(* three receive functions do not guard at all.                            *)
RecvThrows(kind, call, num) == kind = "Unix" /\ call = "recv" /\ Throws(num)
=============================================================================
