------------------------------- MODULE Examples -------------------------------
(***************************************************************************)
(* The programs of examples/: rr.cpp, ps.cpp, bc.cpp and simple.cpp.  Each *)
(* has a receiver, which binds a port and receives Loop datagrams, and a   *)
(* sender, which sends Loop of them; the rr sender waits for the reply to  *)
(* each.  None of them sets a timeout or handles a signal.  rr, ps and     *)
(* simple are started by a user, each side in a process of its own and as  *)
(* often as the user likes; bc has both sides as threads of one process    *)
(* (gtests/test_bc.cpp runs it with two receivers).                        *)
(*                                                                         *)
(* A datagram is [from, n]: the n-th message of the sender from.           *)
(***************************************************************************)
EXTENDS Integers, Sequences, FiniteSets

CONSTANTS Recv,      \* receivers
          Send,      \* senders
          Programs,  \* which programs: records like rr
          Loop,      \* the constant LOOP or MAX_LOOP
          Lossy      \* UDP may drop a datagram

(* How the programs differ: do they call get_host_ip() for the address the *)
(* sender uses, share the port, broadcast, answer, look at the result of   *)
(* ::sendto and ::recvfrom, run as threads of one process?                 *)
rr == [name |-> "rr", host |-> TRUE, reuse |-> FALSE, broadcast |-> FALSE,
       replies |-> TRUE, checked |-> FALSE, threads |-> FALSE]
ps == [rr EXCEPT !.name = "ps", !.replies = FALSE]
bc == [name |-> "bc", host |-> FALSE, reuse |-> TRUE, broadcast |-> TRUE,
       replies |-> FALSE, checked |-> FALSE, threads |-> TRUE]
simple == [name |-> "simple", host |-> FALSE, reuse |-> TRUE, broadcast |-> FALSE,
           replies |-> FALSE, checked |-> TRUE, threads |-> FALSE]

ASSUME ExampleAssumption ==
    /\ Recv \cap Send = {}
    /\ IsFiniteSet(Recv) /\ IsFiniteSet(Send)
    /\ Send # {}
    /\ Programs \subseteq {rr, ps, bc, simple}
    /\ Loop \in Nat \ {0}
    /\ Lossy \in BOOLEAN

VARIABLES
    prog,   \* the program that is run
    main,   \* where bc's main() is
    pc,     \* [Proc -> Location]
    host,   \* [Proc -> BOOLEAN]: HOST is an address, not the empty string
    fds,    \* [Proc -> Nat]: descriptors the process or thread has open
    i,      \* [Proc -> Nat]: the loop's i
    inbox,  \* [Proc -> Seq(datagram)]: the socket's receive queue
    seen,   \* [Proc -> Seq(datagram)], history: what it has received
    lost    \* history: has a datagram reached nobody, or been read by nobody?

vars == <<prog, main, pc, host, fds, i, inbox, seen, lost>>

Proc == Recv \cup Send
Location == {"off", "main", "made", "ready", "waiting", "done", "failed", "usage"}
Datagram == [from : Send, n : 1 .. Loop]

(* The type invariant: every variable has the form its comment gives.      *)
TypeOK ==
    /\ prog \in Programs
    /\ main \in {"start", "sleep", "join", "returned", "terminated"}
    /\ pc \in [Proc -> Location]
    /\ host \in [Proc -> BOOLEAN]
    /\ fds \in [Proc -> 0 .. 2]
    /\ i \in [Proc -> 0 .. Loop]
    /\ inbox \in [Proc -> Seq(Datagram)]
    /\ seen \in [Proc -> Seq(Datagram)]
    /\ lost \in BOOLEAN

Init ==
    /\ prog \in Programs
    /\ main = "start"
    /\ pc = [p \in Proc |-> "off"]
    /\ host = [p \in Proc |-> FALSE]
    /\ fds = [p \in Proc |-> 0]
    /\ i = [p \in Proc |-> 0]
    /\ inbox = [p \in Proc |-> <<>>]
    /\ seen = [p \in Proc |-> <<>>]
    /\ lost = FALSE

Goto(p, at) == pc' = [pc EXCEPT ![p] = at]

-----------------------------------------------------------------------------
(* Starting.                                                               *)

\* Mutant: the socket is closed on none of the ways out.
MutNeverCloses == {[host |-> TRUE, left |-> 1], [host |-> FALSE, left |-> 1],
                   [host |-> FALSE, left |-> 0]}

(* get_host_ip(), which fills HOST before main(): is there an address, and *)
(* how many descriptors stay open?  ::socket fails, ::getsockname fails    *)
(* and the socket is not closed, or both succeed and it is.                *)
get_host_ip == {[host |-> FALSE, left |-> 0], [host |-> FALSE, left |-> 1],
                [host |-> TRUE, left |-> 0]}

(* A user starts rr, ps or simple with the argument that names a side.     *)
Begin(p) ==
    /\ ~prog.threads
    /\ pc[p] = "off"
    /\ Goto(p, "main")
    /\ IF prog.host
       THEN \E h \in get_host_ip : /\ host' = [host EXCEPT ![p] = h.host]
                                   /\ fds' = [fds EXCEPT ![p] = h.left]
       ELSE UNCHANGED <<host, fds>>
    /\ UNCHANGED <<prog, main, i, inbox, seen, lost>>

(* Without it main() says how to use the program and returns.              *)
Usage(p) ==
    /\ ~prog.threads
    /\ pc[p] = "off"
    /\ Goto(p, "usage")
    /\ UNCHANGED <<prog, main, host, fds, i, inbox, seen, lost>>

(* bc has one sender.                                                      *)
Server == CHOOSE s \in Send : TRUE
Threads == Recv \cup {Server}

(* bc's main(): the receivers' threads, msleep(500), the sender's thread.  *)
(* The sleep waits for nobody, so the receivers may be anywhere.           *)
Spawn(now, then, S) ==
    /\ prog.threads
    /\ main = now
    /\ main' = then
    /\ pc' = [p \in Proc |-> IF p \in S THEN "main" ELSE pc[p]]
    /\ UNCHANGED <<prog, host, fds, i, inbox, seen, lost>>

SpawnReceivers == Spawn("start", "sleep", Recv)
SpawnSender == Spawn("sleep", "join", {Server})

(* ... and join().                                                         *)
Join ==
    /\ main = "join"
    /\ \A p \in Threads : pc[p] = "done"
    /\ main' = "returned"
    /\ UNCHANGED <<prog, pc, host, fds, i, inbox, seen, lost>>

(* An exception nobody catches, or exit(EXIT_FAILURE): the process is gone *)
(* with all its threads, descriptors and queues.                           *)
Die(p) ==
    LET gone == IF prog.threads THEN Threads ELSE {p}
    IN  /\ pc' = [q \in Proc |-> IF q \in gone THEN "failed" ELSE pc[q]]
        /\ fds' = [q \in Proc |-> IF q \in gone THEN 0 ELSE fds[q]]
        /\ inbox' = [q \in Proc |-> IF q \in gone THEN <<>> ELSE inbox[q]]
        /\ lost' = (lost \/ \E q \in gone : inbox[q] # <<>>)
        /\ main' = IF prog.threads THEN "terminated" ELSE main
        /\ UNCHANGED <<prog, host, i, seen>>

(* The socket is made.  A sender has nothing more to set up.               *)
Make(p) ==
    /\ pc[p] = "main"
    /\ Goto(p, IF p \in Send THEN "ready" ELSE "made")
    /\ fds' = [fds EXCEPT ![p] = @ + 1]
    /\ UNCHANGED <<prog, main, host, i, inbox, seen, lost>>

Bound == {r \in Recv : pc[r] = "ready"}

(* A receiver binds: the port is free, or everyone on it shares it.        *)
Bind(r) ==
    /\ pc[r] = "made"
    /\ Bound = {} \/ prog.reuse
    /\ Goto(r, "ready")
    /\ UNCHANGED <<prog, main, host, fds, i, inbox, seen, lost>>

(* ::socket, ::setsockopt or ::bind fails.                                 *)
SetupFails(p) ==
    /\ pc[p] \in {"main", "made"}
    /\ Die(p)

(* In simple.cpp ::recvfrom or ::sendto returns a negative value.          *)
IOFails(p) ==
    /\ prog.checked
    /\ pc[p] = "ready"
    /\ i[p] < Loop
    /\ Die(p)

-----------------------------------------------------------------------------
(* The loops.                                                              *)

(* Who may be given a datagram for the port (external): everyone, if it is *)
(* broadcast, otherwise one of those who share the port.                   *)
Takers(s) ==
    LET all == IF prog.broadcast THEN {Bound} ELSE {{r} : r \in Bound}
    IN  IF prog.host /\ ~host[s] THEN {{}}
        ELSE IF Bound = {} THEN {{}}
        ELSE all \cup (IF Lossy THEN UNION {SUBSET S : S \in all} ELSE {})

(* Does somebody a datagram is meant for not get it?                       *)
Missed(T) ==
    IF prog.broadcast THEN ~({r \in Recv : pc[r] # "done"} \subseteq T) ELSE T = {}

(* After the send: request() goes on to recv().                            *)
AfterSend(s) == IF prog.replies THEN "waiting" ELSE "ready"

(* One turn of a sender's loop: request(), publish(), cast() or ::sendto.  *)
(* With an empty HOST the address is AF_ERROR, ::sendto refuses it, and    *)
(* guard() says nothing.                                                   *)
SendOne(s) ==
    /\ pc[s] = "ready"
    /\ i[s] < Loop
    /\ \E T \in Takers(s) :
        /\ inbox' = [p \in Proc |->
              IF p \in T THEN Append(inbox[p], [from |-> s, n |-> i[s] + 1])
              ELSE inbox[p]]
        /\ lost' = (lost \/ Missed(T))
    /\ Goto(s, AfterSend(s))
    /\ i' = [i EXCEPT ![s] = @ + 1]
    /\ UNCHANGED <<prog, main, host, fds, seen>>

\* Mutant: request() empties its queue of late replies after the send, not
\* before it, and so may throw away the reply it then waits for.
MutFlushLate(s) ==
    /\ pc[s] = "waiting"
    /\ inbox[s] # <<>>
    /\ inbox' = [inbox EXCEPT ![s] = Tail(@)]
    /\ \/ /\ seen' = [seen EXCEPT ![s] = Append(@, Head(inbox[s]))]
          /\ Goto(s, "ready")
       \/ UNCHANGED <<seen, pc>>
    /\ UNCHANGED <<prog, main, host, fds, i, lost>>

(* The rr sender's recv() returns.                                         *)
Answered(s) ==
    /\ pc[s] = "waiting"
    /\ inbox[s] # <<>>
    /\ seen' = [seen EXCEPT ![s] = Append(@, Head(inbox[s]))]
    /\ inbox' = [inbox EXCEPT ![s] = Tail(@)]
    /\ Goto(s, "ready")
    /\ UNCHANGED <<prog, main, host, fds, i, lost>>

\* Mutant: once() sends the reply to the address of another request, so that
\* any client that waits may get it.
MutReplyTo(d) ==
    LET waiting == {t \in Send : pc[t] = "waiting"}
    IN  IF ~prog.replies \/ waiting = {} THEN {{}} ELSE {{s} : s \in waiting}

(* Whose queue the reply to d may join: that of d's sender, if it is there *)
(* and UDP does not drop it.  The other programs do not reply.             *)
ReplyTo(d) ==
    IF ~prog.replies THEN {{}}
    ELSE {{s \in {d.from} : pc[s] = "waiting"}} \cup (IF Lossy THEN {{}} ELSE {})

(* One turn of a receiver's loop: once(), recv() or ::recvfrom returns; in *)
(* rr the callback answers with the number it was sent.                    *)
ReceiveOne(r) ==
    /\ pc[r] = "ready"
    /\ i[r] < Loop
    /\ inbox[r] # <<>>
    /\ LET d == Head(inbox[r])
       IN  /\ seen' = [seen EXCEPT ![r] = Append(@, d)]
           /\ \E S \in ReplyTo(d) :
                /\ inbox' = [p \in Proc |->
                      CASE p = r -> Tail(inbox[r])
                        [] p \in S -> Append(inbox[p], d)
                        [] OTHER -> inbox[p]]
                /\ lost' = (lost \/ (prog.replies /\ S = {}))
    /\ i' = [i EXCEPT ![r] = @ + 1]
    /\ UNCHANGED <<prog, main, pc, host, fds>>

\* Mutant: a sender's loop may make one turn too few.
MutOneShort(p) == i[p] \in {Loop, IF p \in Send THEN Loop - 1 ELSE Loop} /\ pc[p] = "ready"

\* Mutant: the socket is closed a second time.
MutCloseAgain(p) == i[p] = Loop /\ pc[p] \in {"ready", "done"}

LoopEnds(p) == i[p] = Loop /\ pc[p] = "ready"

(* The loop is over and the socket closed, with what is left in its queue; *)
(* a process that ends has no descriptors.                                 *)
Finish(p) ==
    /\ LoopEnds(p)
    /\ Goto(p, "done")
    /\ fds' = [fds EXCEPT ![p] = IF prog.threads THEN @ - 1 ELSE 0]
    /\ inbox' = [inbox EXCEPT ![p] = <<>>]
    /\ lost' = (lost \/ inbox[p] # <<>>)
    /\ UNCHANGED <<prog, main, host, i, seen>>

-----------------------------------------------------------------------------
Next ==
    \/ \E p \in Proc : Begin(p)
    \/ \E p \in Proc : Usage(p)
    \/ SpawnReceivers
    \/ SpawnSender
    \/ Join
    \/ \E p \in Proc : Make(p)
    \/ \E r \in Recv : Bind(r)
    \/ \E p \in Proc : SetupFails(p)
    \/ \E p \in Proc : IOFails(p)
    \/ \E s \in Send : SendOne(s)
    \/ \E s \in Send : Answered(s)
    \/ \E r \in Recv : ReceiveOne(r)
    \/ \E p \in Proc : Finish(p)

(* Every thread that can go on does; nobody has to start a program.        *)
Fairness ==
    /\ WF_vars(SpawnReceivers) /\ WF_vars(SpawnSender) /\ WF_vars(Join)
    /\ \A p \in Proc : WF_vars(Make(p)) /\ WF_vars(Finish(p))
    /\ \A r \in Recv : WF_vars(Bind(r) \/ SetupFails(r)) /\ WF_vars(ReceiveOne(r))
    /\ \A s \in Send : WF_vars(SendOne(s)) /\ WF_vars(Answered(s))

Spec == Init /\ [][Next]_vars

FairSpec == Spec /\ Fairness

-----------------------------------------------------------------------------
(* Properties.                                                             *)

(* What a queue or a history holds of one sender is in the order sent.     *)
Increasing(q) ==
    \A j, k \in 1 .. Len(q) : j < k /\ q[j].from = q[k].from => q[j].n < q[k].n

(* What the programs print is right although nobody checks it: an rr       *)
(* client's k-th response is the answer to its k-th request, and whatever  *)
(* a receiver is given by one sender comes once and in order, with other   *)
(* senders and receivers on the same port and datagrams lost.              *)
ResponsesMatch ==
    /\ \A s \in Send : \A k \in 1 .. Len(seen[s]) : seen[s][k] = [from |-> s, n |-> k]
    /\ \A r \in Recv : Increasing(seen[r])

Blocked(p) ==
    \/ p \in Recv /\ pc[p] = "ready" /\ i[p] < Loop /\ inbox[p] = <<>>
    \/ pc[p] = "waiting" /\ inbox[p] = <<>>

(* A thread that main() will still start is not idle.                      *)
Idle(p) == /\ pc[p] \in {"off", "done", "failed", "usage"}
           /\ pc[p] = "off" /\ prog.threads => main = "join"

(* The programs wait without a timeout.  If nobody can go on any more and  *)
(* somebody waits, a datagram was lost (sent before the receiver was bound *)
(* or after it had left, or dropped, or refused for want of an address),   *)
(* or there are more receivers than senders to feed them.                  *)
HangMeansLoss ==
    (/\ \A p \in Proc : Blocked(p) \/ Idle(p)
     /\ \E p \in Proc : Blocked(p))
        => \/ lost
           \/ /\ ~prog.broadcast
              /\ \E r \in Recv : Blocked(r)
              /\ Cardinality({s \in Send : pc[s] = "done"})
                    < Cardinality({r \in Recv : pc[r] \in {"ready", "done", "failed"}})

(* Each process or thread has one descriptor open while it uses its socket *)
(* and none before and after, whichever way it ends; a process has one     *)
(* more only where get_host_ip() has found no address and returned without *)
(* closing.                                                                *)
DescriptorsReturned ==
    \A p \in Proc :
        LET own == IF pc[p] \in {"made", "ready", "waiting"} THEN 1 ELSE 0
        IN  \/ fds[p] = own
            \/ fds[p] = own + 1 /\ prog.host /\ ~host[p]
               /\ pc[p] \in {"main", "made", "ready", "waiting"}

(* A sender gets through its loop unless a datagram is lost: an rr client  *)
(* is not left waiting by a server that serves others in between.          *)
SendersFinish ==
    \A s \in Send : pc[s] = "ready" ~> pc[s] \in {"done", "failed"} \/ lost

(* bc's main() returns from its joins unless a datagram is lost or the     *)
(* process dies, whichever way the threads interleave.                     *)
MainReturns == main = "sleep" ~> main \in {"returned", "terminated"} \/ lost

-----------------------------------------------------------------------------
(* The inductive invariant.                                                *)

(* Where a process can be, and how far its loop then is.                   *)
Locations ==
    \A p \in Proc :
        /\ pc[p] = "waiting" => p \in Send /\ prog.replies
        /\ pc[p] \in {"off", "main", "made", "usage"} => i[p] = 0
        /\ pc[p] = "done" => i[p] = Loop
        /\ inbox[p] # <<>> => pc[p] = IF p \in Recv THEN "ready" ELSE "waiting"

(* How far bc's main() is, and with it its threads.                        *)
MainAt ==
    IF prog.threads
    THEN /\ main = "start" => \A p \in Proc : pc[p] = "off"
         /\ main = "sleep" => pc[Server] = "off"
         /\ main \in {"join", "returned"} => pc[Server] # "off"
         /\ main = "terminated" => \A p \in Threads : pc[p] = "failed"
         /\ main # "terminated" => \A p \in Proc : pc[p] # "failed"
         /\ \A p \in Proc : pc[p] # "usage"
         /\ \A s \in Send \ {Server} : pc[s] = "off"
    ELSE main = "start"

UpTo(q, sent) == \A k \in 1 .. Len(q) : q[k].n <= sent[q[k].from]
Before(q1, q2) ==
    \A j \in 1 .. Len(q1), k \in 1 .. Len(q2) :
        q1[j].from = q2[k].from => q1[j].n < q2[k].n

(* What a receiver has seen and what is still in its queue is, of each     *)
(* sender, one stream that ends at or before what was sent last.           *)
Streams ==
    \A r \in Recv :
        /\ Len(seen[r]) = i[r]
        /\ Increasing(inbox[r])
        /\ Before(seen[r], inbox[r])
        /\ UpTo(seen[r], i) /\ UpTo(inbox[r], i)

(* An rr client has one request outstanding, that is in one queue or       *)
(* answered, never both; a sender that waits for no answer gets none.      *)
Requests ==
    /\ \A s \in Send :
          /\ inbox[s] # <<>> => inbox[s] = <<[from |-> s, n |-> i[s]]>>
          /\ pc[s] = "waiting" => Len(seen[s]) + 1 = i[s]
          /\ pc[s] # "waiting" => Len(seen[s]) = IF prog.replies THEN i[s] ELSE 0
    /\ prog.replies =>
          \A r \in Recv : \A k \in 1 .. Len(inbox[r]) :
              LET s == inbox[r][k].from
              IN  /\ pc[s] = "waiting" /\ inbox[s] = <<>> /\ inbox[r][k].n = i[s]
                  /\ \A q \in Recv : \A j \in 1 .. Len(inbox[q]) :
                        inbox[q][j].from = s => q = r /\ j = k

Holds(q, s, n) == \E k \in 1 .. Len(q) : q[k] = [from |-> s, n |-> n]

(* As long as nothing is lost, all that was sent has reached a receiver,   *)
(* every receiver if it is broadcast, and every request outstanding is on  *)
(* its way there or back.                                                  *)
Reached ==
    ~lost =>
        /\ ~prog.broadcast =>
              \A s \in Send : \A n \in 1 .. i[s] : \E r \in Recv :
                  Holds(seen[r], s, n) \/ Holds(inbox[r], s, n)
        /\ prog.broadcast =>
              \A r \in Recv :
                  pc[r] \notin {"done", "failed"} => i[r] + Len(inbox[r]) = i[Server]
        /\ \A s \in Send : pc[s] = "waiting" =>
              inbox[s] # <<>> \/ \E r \in Recv : Holds(inbox[r], s, i[s])

IInv ==
    /\ TypeOK
    /\ DescriptorsReturned
    /\ ResponsesMatch
    /\ Locations
    /\ MainAt
    /\ Streams
    /\ Requests
    /\ Reached
=============================================================================
