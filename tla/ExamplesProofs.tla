---------------------------- MODULE ExamplesProofs ----------------------------
(***************************************************************************)
(* The invariants of the example programs, for any number of receivers and *)
(* senders and any number of turns.                                        *)
(*                                                                         *)
(* The argument: what a receiver has seen of a sender and what is still in *)
(* its queue form one stream, so that a turn of either loop keeps it in    *)
(* order; an rr client has one request outstanding, which is in one place, *)
(* so that the response it reads is the answer to it; and as long as       *)
(* nothing is lost all that was sent is somewhere, so that a receiver that *)
(* waits for ever has not been sent enough.                                *)
(***************************************************************************)
EXTENDS Examples, FiniteSetTheorems, SequenceTheorems, TLAPS

(* How the four programs differ, as far as the proofs need it. *)
LEMMA ProgramFacts ==
  ASSUME NEW p \in Programs
  PROVE  /\ p.threads \in BOOLEAN /\ p.broadcast \in BOOLEAN /\ p.replies \in BOOLEAN
         /\ p.host \in BOOLEAN /\ p.reuse \in BOOLEAN /\ p.checked \in BOOLEAN
         /\ p.threads = p.broadcast
         /\ p.threads => ~p.host /\ ~p.checked /\ ~p.replies
         /\ p.replies => ~p.checked
  <1>1. CASE p = rr
    BY <1>1 DEF rr
  <1>2. CASE p = ps
    <2>1. p = [name |-> "ps", host |-> TRUE, reuse |-> FALSE, broadcast |-> FALSE,
               replies |-> FALSE, checked |-> FALSE, threads |-> FALSE]
      BY <1>2 DEF ps, rr
    <2> QED
      BY <2>1
  <1>3. CASE p = bc
    BY <1>3 DEF bc
  <1>4. CASE p = simple
    BY <1>4 DEF simple
  <1> QED
    BY <1>1, <1>2, <1>3, <1>4, ExampleAssumption

LEMMA ServerSends == Server \in Send /\ Server \in Proc /\ Server \notin Recv
  BY ExampleAssumption DEF Server, Proc

LEMMA Disjoint ==
  /\ \A r \in Recv : r \in Proc /\ r \notin Send
  /\ \A s \in Send : s \in Proc /\ s \notin Recv
  BY ExampleAssumption DEF Proc

-----------------------------------------------------------------------------
(* Queues and histories. *)

LEMMA DatagramParts ==
  ASSUME NEW d \in Datagram
  PROVE  d.from \in Send /\ d.from \in Proc /\ d.n \in Nat \ {0} /\ d.n <= Loop
  <1>1. Loop \in Nat
    BY ExampleAssumption
  <1> QED
    BY <1>1, Disjoint DEF Datagram

LEMMA QueueParts ==
  ASSUME NEW q \in Seq(Datagram), NEW k \in 1 .. Len(q)
  PROVE  /\ q[k] \in Datagram
         /\ q[k].from \in Send /\ q[k].from \in Proc /\ q[k].n \in Nat
  <1>1. q[k] \in Datagram
    OBVIOUS
  <1> QED
    BY <1>1, DatagramParts

(* A sender's next message joins a queue that holds nothing later. *)
LEMMA StreamSent ==
  ASSUME NEW q \in Seq(Datagram), NEW old \in Seq(Datagram), NEW sent \in [Proc -> Nat],
         NEW d \in Datagram, d.n = sent[d.from] + 1,
         Increasing(q), Before(old, q), UpTo(old, sent), UpTo(q, sent)
  PROVE  Increasing(Append(q, d)) /\ Before(old, Append(q, d))
  <1>1. /\ Len(q) \in Nat /\ Len(Append(q, d)) = Len(q) + 1
        /\ \A k \in 1 .. Len(q) : Append(q, d)[k] = q[k]
        /\ Append(q, d)[Len(q) + 1] = d
    OBVIOUS
  <1>2. \A k \in 1 .. Len(q) : q[k].n \in Nat
    BY QueueParts
  <1>3. \A k \in 1 .. Len(old) : old[k].n \in Nat
    BY QueueParts
  <1>4. d.from \in Send /\ sent[d.from] \in Nat
    BY Disjoint DEF Datagram
  <1> DEFINE e == Append(q, d)
             m == Len(q)
  <1> HIDE DEF e, m
  <1>5. Increasing(e)
    <2> SUFFICES ASSUME NEW j \in 1 .. m + 1, NEW k \in 1 .. m + 1,
                        j < k, e[j].from = e[k].from
                 PROVE  e[j].n < e[k].n
      BY <1>1 DEF Increasing, e, m
    <2>1. j \in 1 .. m /\ e[j] = q[j]
      BY <1>1 DEF e, m
    <2>2. CASE k = m + 1
      <3>1. e[k] = d
        BY <1>1, <2>2 DEF e, m
      <3>2. q[j].n <= sent[d.from]
        BY <2>1, <3>1 DEF UpTo, m
      <3> QED
        BY <1>2, <1>4, <2>1, <3>1, <3>2 DEF m
    <2>3. CASE k # m + 1
      <3>1. k \in 1 .. m /\ e[k] = q[k]
        BY <1>1, <2>3 DEF e, m
      <3> QED
        BY <2>1, <3>1 DEF Increasing, m
    <2> QED
      BY <2>2, <2>3
  <1>6. Before(old, e)
    <2> SUFFICES ASSUME NEW j \in 1 .. Len(old), NEW k \in 1 .. m + 1,
                        old[j].from = e[k].from
                 PROVE  old[j].n < e[k].n
      BY <1>1 DEF Before, e, m
    <2>1. CASE k = m + 1
      <3>1. e[k] = d
        BY <1>1, <2>1 DEF e, m
      <3>2. old[j].n <= sent[d.from]
        BY <3>1 DEF UpTo
      <3> QED
        BY <1>3, <1>4, <3>1, <3>2
    <2>2. CASE k # m + 1
      <3>1. k \in 1 .. m /\ e[k] = q[k]
        BY <1>1, <2>2 DEF e, m
      <3> QED
        BY <3>1 DEF Before, m
    <2> QED
      BY <2>1, <2>2
  <1> QED
    BY <1>5, <1>6 DEF e

(* What was sent stays sent. *)
LEMMA UpToMore ==
  ASSUME NEW q \in Seq(Datagram), NEW sent \in [Proc -> Nat], NEW more \in [Proc -> Nat],
         \A p \in Proc : sent[p] <= more[p], UpTo(q, sent)
  PROVE  UpTo(q, more)
  <1> SUFFICES ASSUME NEW k \in 1 .. Len(q) PROVE q[k].n <= more[q[k].from]
    BY DEF UpTo
  <1>1. q[k].n \in Nat /\ q[k].from \in Proc
    BY QueueParts
  <1> QED
    BY <1>1 DEF UpTo

LEMMA UpToAppend ==
  ASSUME NEW q \in Seq(Datagram), NEW sent, NEW d \in Datagram,
         UpTo(q, sent), d.n <= sent[d.from]
  PROVE  UpTo(Append(q, d), sent)
  BY DEF UpTo

(* The first of a queue, and what is left of it. *)
LEMMA HeadTail ==
  ASSUME NEW S, NEW q \in Seq(S), q # <<>>
  PROVE  /\ Head(q) \in S /\ Tail(q) \in Seq(S)
         /\ Len(q) \in Nat \ {0} /\ Head(q) = q[1] /\ 1 \in 1 .. Len(q)
         /\ Len(Tail(q)) = Len(q) - 1
         /\ \A k \in 1 .. Len(Tail(q)) : k + 1 \in 1 .. Len(q) /\ Tail(q)[k] = q[k + 1]
  OBVIOUS

(* Reading takes the first of a stream's queue to the end of its history. *)
LEMMA StreamRead ==
  ASSUME NEW q \in Seq(Datagram), NEW old \in Seq(Datagram), NEW sent \in [Proc -> Nat],
         q # <<>>, Increasing(old), Increasing(q), Before(old, q),
         UpTo(old, sent), UpTo(q, sent)
  PROVE  /\ Increasing(Append(old, Head(q))) /\ Increasing(Tail(q))
         /\ Before(Append(old, Head(q)), Tail(q))
         /\ UpTo(Append(old, Head(q)), sent) /\ UpTo(Tail(q), sent)
  <1> DEFINE d == Head(q)
             t == Tail(q)
             e == Append(old, d)
             m == Len(old)
  <1>1. /\ d \in Datagram /\ d = q[1] /\ 1 \in 1 .. Len(q)
        /\ \A k \in 1 .. Len(t) : k + 1 \in 1 .. Len(q) /\ t[k] = q[k + 1]
        /\ Len(t) \in Nat
    BY HeadTail
  <1>2. m \in Nat /\ Len(e) = m + 1 /\ e[m + 1] = d /\ \A k \in 1 .. m : e[k] = old[k]
    BY <1>1
  <1>3. d.n <= sent[d.from]
    BY <1>1 DEF UpTo
  <1>4. UpTo(e, sent)
    BY <1>1, <1>3, UpToAppend
  <1> HIDE DEF d, t, e, m
  <1>5. UpTo(t, sent)
    BY <1>1 DEF UpTo
  <1>6. Increasing(t)
    <2> SUFFICES ASSUME NEW j \in 1 .. Len(t), NEW k \in 1 .. Len(t),
                        j < k, t[j].from = t[k].from
                 PROVE  t[j].n < t[k].n
      BY DEF Increasing
    <2>1. j + 1 \in 1 .. Len(q) /\ k + 1 \in 1 .. Len(q) /\ j + 1 < k + 1
      BY <1>1
    <2>2. t[j] = q[j + 1] /\ t[k] = q[k + 1]
      BY <1>1
    <2> QED
      BY <2>1, <2>2 DEF Increasing
  <1>7. Increasing(e)
    <2> SUFFICES ASSUME NEW j \in 1 .. m + 1, NEW k \in 1 .. m + 1,
                        j < k, e[j].from = e[k].from
                 PROVE  e[j].n < e[k].n
      BY <1>2 DEF Increasing
    <2>1. j \in 1 .. m /\ e[j] = old[j]
      BY <1>2
    <2>2. CASE k = m + 1
      <3>1. e[k] = q[1]
        BY <1>1, <1>2, <2>2
      <3> QED
        BY <1>1, <2>1, <3>1 DEF Before, m
    <2>3. CASE k # m + 1
      <3>1. k \in 1 .. m /\ e[k] = old[k]
        BY <1>2, <2>3
      <3> QED
        BY <2>1, <3>1 DEF Increasing, m
    <2> QED
      BY <2>2, <2>3
  <1>8. Before(e, t)
    <2> SUFFICES ASSUME NEW j \in 1 .. m + 1, NEW k \in 1 .. Len(t), e[j].from = t[k].from
                 PROVE  e[j].n < t[k].n
      BY <1>2 DEF Before
    <2>1. k + 1 \in 1 .. Len(q) /\ t[k] = q[k + 1] /\ 1 < k + 1
      BY <1>1
    <2>2. CASE j = m + 1
      <3>1. e[j] = q[1]
        BY <1>1, <1>2, <2>2
      <3> QED
        BY <1>1, <2>1, <3>1 DEF Increasing
    <2>3. CASE j # m + 1
      <3>1. j \in 1 .. m /\ e[j] = old[j]
        BY <1>2, <2>3
      <3> QED
        BY <2>1, <3>1 DEF Before, m
    <2> QED
      BY <2>2, <2>3
  <1> QED
    BY <1>4, <1>5, <1>6, <1>7, <1>8 DEF d, t, e

(* What a queue holds. *)
LEMMA HoldsAppend ==
  ASSUME NEW q \in Seq(Datagram), NEW d \in Datagram
  PROVE  /\ Holds(Append(q, d), d.from, d.n)
         /\ \A s, n : Holds(q, s, n) => Holds(Append(q, d), s, n)
  <1>1. Append(q, d)[Len(q) + 1] = d /\ Len(q) + 1 \in 1 .. Len(Append(q, d))
    OBVIOUS
  <1>2. d = [from |-> d.from, n |-> d.n]
    BY DEF Datagram
  <1>3. Holds(Append(q, d), d.from, d.n)
    BY <1>1, <1>2 DEF Holds
  <1>4. \A k \in 1 .. Len(q) : Append(q, d)[k] = q[k] /\ k \in 1 .. Len(Append(q, d))
    OBVIOUS
  <1> QED
    BY <1>3, <1>4 DEF Holds

LEMMA HoldsRead ==
  ASSUME NEW q \in Seq(Datagram), q # <<>>, NEW s, NEW n, Holds(q, s, n)
  PROVE  Head(q) = [from |-> s, n |-> n] \/ Holds(Tail(q), s, n)
  <1>1. PICK k \in 1 .. Len(q) : q[k] = [from |-> s, n |-> n]
    BY DEF Holds
  <1>2. CASE k = 1
    BY <1>1, <1>2, HeadTail
  <1>3. CASE k # 1
    <2>1. k - 1 \in 1 .. Len(Tail(q)) /\ (k - 1) + 1 = k
      BY <1>3, HeadTail
    <2>2. Tail(q)[k - 1] = q[k]
      BY <2>1, HeadTail
    <2> QED
      BY <1>1, <2>1, <2>2 DEF Holds
  <1> QED
    BY <1>2, <1>3

-----------------------------------------------------------------------------
(* The variables. *)
LEMMA Typed ==
  ASSUME TypeOK
  PROVE  /\ prog \in Programs /\ lost \in BOOLEAN
         /\ Loop \in Nat \ {0}
         /\ i \in [Proc -> Nat]
         /\ \A p \in Proc : /\ inbox[p] \in Seq(Datagram) /\ seen[p] \in Seq(Datagram)
                            /\ Len(inbox[p]) \in Nat /\ Len(seen[p]) \in Nat
                            /\ i[p] \in Nat /\ i[p] <= Loop
                            /\ pc[p] \in Location /\ fds[p] \in 0 .. 2
  <1>1. Loop \in Nat \ {0}
    BY ExampleAssumption
  <1>2. \A p \in Proc : i[p] \in 0 .. Loop
    BY DEF TypeOK
  <1>3. \A p \in Proc : i[p] \in Nat /\ i[p] <= Loop
    BY <1>1, <1>2
  <1>4. i \in [Proc -> Nat]
    BY <1>3 DEF TypeOK
  <1> QED
    BY <1>1, <1>3, <1>4, LenProperties DEF TypeOK

LEMMA InitIInv == Init => IInv
  <1> SUFFICES ASSUME Init PROVE IInv
    OBVIOUS
  <1>1. TypeOK
    <2>1. 0 \in 0 .. Loop /\ 0 \in 0 .. 2 /\ <<>> \in Seq(Datagram)
      BY ExampleAssumption
    <2> QED
      BY <2>1 DEF Init, TypeOK, Location
  <1>2. DescriptorsReturned
    BY DEF Init, DescriptorsReturned
  <1>3. \A p \in Proc : seen[p] = <<>> /\ inbox[p] = <<>> /\ i[p] = 0 /\ pc[p] = "off"
    BY DEF Init
  <1>4. ResponsesMatch
    BY <1>3, Disjoint DEF ResponsesMatch, Increasing
  <1>5. Locations
    BY <1>3 DEF Locations
  <1>6. MainAt
    BY <1>3, ServerSends, Disjoint DEF MainAt, Init
  <1>7. Streams
    BY <1>3, Disjoint DEF Streams, Increasing, Before, UpTo
  <1>8. Requests
    BY <1>3, Disjoint DEF Requests
  <1>9. Reached
    BY <1>3, Disjoint, ServerSends DEF Reached
  <1> QED
    BY <1>1, <1>2, <1>4, <1>5, <1>6, <1>7, <1>8, <1>9 DEF IInv

(* A step that leaves the datagrams where they are, and everyone who waits *)
(* or has ended, leaves what is said about them.                             *)
LEMMA DatagramsStay ==
  ASSUME IInv, UNCHANGED <<prog, i, inbox, seen, lost>>,
         \A p \in Proc : /\ pc'[p] = "waiting" <=> pc[p] = "waiting"
                         /\ pc'[p] = "done" <=> pc[p] = "done"
                         /\ pc'[p] = "failed" <=> pc[p] = "failed"
  PROVE  ResponsesMatch' /\ Streams' /\ Requests' /\ Reached'
  <1>1. ResponsesMatch'
    BY DEF IInv, ResponsesMatch, Increasing
  <1>2. Streams'
    BY DEF IInv, Streams, Increasing, Before, UpTo
  <1>3. Requests'
    <2>1. \A r \in Recv : \A k \in 1 .. Len(inbox[r]) : inbox[r][k].from \in Proc
      BY QueueParts, Typed, Disjoint DEF IInv
    <2> QED
      BY <2>1, Disjoint DEF IInv, Requests
  <1>4. Reached'
    BY Disjoint DEF IInv, Reached, Holds
  <1> QED
    BY <1>1, <1>2, <1>3, <1>4

LEMMA StutterPreserves ==
  ASSUME IInv, UNCHANGED vars PROVE IInv'
  <1> USE DEF vars
  <1>1. ResponsesMatch' /\ Streams' /\ Requests' /\ Reached'
    BY DatagramsStay
  <1>2. TypeOK' /\ DescriptorsReturned' /\ Locations' /\ MainAt'
    BY DEF IInv, TypeOK, DescriptorsReturned, Locations, MainAt
  <1> QED
    BY <1>1, <1>2 DEF IInv

-----------------------------------------------------------------------------
(* Starting and setting up. *)
LEMMA BeginPreserves ==
  ASSUME IInv, NEW p \in Proc, Begin(p) PROVE IInv'
  <1> USE DEF Goto
  <1>0. TypeOK /\ pc' = [pc EXCEPT ![p] = "main"] /\ pc[p] = "off"
    BY DEF IInv, Begin
  <1>1. ResponsesMatch' /\ Streams' /\ Requests' /\ Reached'
    BY <1>0, DatagramsStay DEF Begin, TypeOK
  <1>2. TypeOK'
    <2>1. \A h \in get_host_ip : h.host \in BOOLEAN /\ h.left \in 0 .. 2
      <3> SUFFICES ASSUME NEW h \in get_host_ip PROVE h.host \in BOOLEAN /\ h.left \in 0 .. 2
        OBVIOUS
      <3>1. h.host \in BOOLEAN
        <4>1. CASE h = [host |-> TRUE, left |-> 0]
          BY <4>1
        <4>2. CASE h = [host |-> FALSE, left |-> 0]
          BY <4>2
        <4>3. CASE h = [host |-> FALSE, left |-> 1]
          BY <4>3
        <4> QED
          BY <4>1, <4>2, <4>3 DEF get_host_ip
      <3>2. h.left = 0 \/ h.left = 1
        BY DEF get_host_ip
      <3> QED
        BY <3>1, <3>2
    <2>2. host' \in [Proc -> BOOLEAN] /\ fds' \in [Proc -> 0 .. 2]
      BY <1>0, <2>1 DEF Begin, TypeOK
    <2> QED
      BY <1>0, <2>2 DEF Begin, TypeOK, Location
  <1>3. DescriptorsReturned'
    <2>1. fds[p] = 0
      BY <1>0 DEF IInv, DescriptorsReturned
    <2>2. CASE prog.host
      <3>1. PICK h \in get_host_ip : /\ host' = [host EXCEPT ![p] = h.host]
                                     /\ fds' = [fds EXCEPT ![p] = h.left]
        BY <2>2 DEF Begin
      <3>2. h.left = 0 \/ (h.left = 1 /\ h.host = FALSE)
        BY DEF get_host_ip
      <3>3. prog' = prog
        BY DEF Begin
      <3> QED
        BY <1>0, <2>2, <3>1, <3>2, <3>3 DEF IInv, DescriptorsReturned, TypeOK
    <2>3. CASE ~prog.host
      BY <1>0, <2>1, <2>3 DEF IInv, Begin, DescriptorsReturned, TypeOK
    <2> QED
      BY <2>2, <2>3
  <1>4. Locations'
    BY <1>0 DEF IInv, Begin, Locations, TypeOK
  <1>5. MainAt'
    BY <1>0 DEF IInv, Begin, MainAt
  <1> QED
    BY <1>1, <1>2, <1>3, <1>4, <1>5 DEF IInv

LEMMA UsagePreserves ==
  ASSUME IInv, NEW p \in Proc, Usage(p) PROVE IInv'
  <1> USE DEF Goto
  <1>0. TypeOK /\ pc' = [pc EXCEPT ![p] = "usage"] /\ pc[p] = "off"
    BY DEF IInv, Usage
  <1>1. ResponsesMatch' /\ Streams' /\ Requests' /\ Reached'
    BY <1>0, DatagramsStay DEF Usage, TypeOK
  <1>2. TypeOK'
    BY <1>0 DEF Usage, TypeOK, Location
  <1>3. DescriptorsReturned'
    BY <1>0 DEF IInv, Usage, DescriptorsReturned, TypeOK
  <1>4. Locations'
    BY <1>0 DEF IInv, Usage, Locations, TypeOK
  <1>5. MainAt'
    BY <1>0 DEF IInv, Usage, MainAt
  <1> QED
    BY <1>1, <1>2, <1>3, <1>4, <1>5 DEF IInv

(* main() of bc starts threads that were not there before. *)
LEMMA SpawnPreserves ==
  ASSUME IInv, NEW S \in SUBSET Threads, NEW now, NEW then \in {"sleep", "join"},
         Spawn(now, then, S), \A p \in S : pc[p] = "off", MainAt'
  PROVE  IInv'
  <1>0. /\ TypeOK /\ Threads \subseteq Proc
        /\ pc' = [p \in Proc |-> IF p \in S THEN "main" ELSE pc[p]]
    BY ServerSends DEF IInv, Spawn, Threads, Proc
  <1>1. ResponsesMatch' /\ Streams' /\ Requests' /\ Reached'
    BY <1>0, DatagramsStay DEF Spawn
  <1>2. TypeOK'
    BY <1>0 DEF Spawn, TypeOK, Location
  <1>3. DescriptorsReturned'
    BY <1>0 DEF IInv, Spawn, DescriptorsReturned, TypeOK
  <1>4. Locations'
    BY <1>0 DEF IInv, Spawn, Locations, TypeOK
  <1> QED
    BY <1>1, <1>2, <1>3, <1>4 DEF IInv

LEMMA SpawnReceiversPreserves ==
  ASSUME IInv, SpawnReceivers PROVE IInv'
  <1>1. Spawn("start", "sleep", Recv) /\ prog.threads /\ main = "start" /\ main' = "sleep"
    BY DEF SpawnReceivers, Spawn
  <1>2. \A p \in Proc : pc[p] = "off"
    BY <1>1 DEF IInv, MainAt
  <1>3. MainAt'
    BY <1>1, <1>2, ServerSends, Disjoint DEF MainAt, Spawn, Threads
  <1>4. Recv \in SUBSET Threads /\ \A p \in Recv : pc[p] = "off"
    BY <1>2, Disjoint DEF Threads
  <1> QED
    BY <1>1, <1>3, <1>4, SpawnPreserves

LEMMA SpawnSenderPreserves ==
  ASSUME IInv, SpawnSender PROVE IInv'
  <1>1. Spawn("sleep", "join", {Server}) /\ prog.threads /\ main = "sleep" /\ main' = "join"
    BY DEF SpawnSender, Spawn
  <1>2. pc[Server] = "off"
    BY <1>1 DEF IInv, MainAt
  <1>3. MainAt'
    BY <1>1, <1>2, ServerSends, Disjoint DEF IInv, MainAt, Spawn, Threads
  <1>4. {Server} \in SUBSET Threads /\ \A p \in {Server} : pc[p] = "off"
    BY <1>2 DEF Threads
  <1> QED
    BY <1>1, <1>3, <1>4, SpawnPreserves

LEMMA JoinPreserves ==
  ASSUME IInv, Join PROVE IInv'
  <1>1. ResponsesMatch' /\ Streams' /\ Requests' /\ Reached'
    BY DatagramsStay DEF Join
  <1>2. TypeOK' /\ DescriptorsReturned' /\ Locations'
    BY DEF IInv, Join, TypeOK, DescriptorsReturned, Locations
  <1>3. MainAt'
    BY DEF IInv, Join, MainAt
  <1> QED
    BY <1>1, <1>2, <1>3 DEF IInv

(* A thread that has begun goes on: main() cannot be where it has not. *)
LEMMA MainStays ==
  ASSUME IInv, NEW p \in Proc, pc[p] \notin {"off", "failed", "usage"},
         NEW at \in Location \ {"off", "failed", "usage"},
         pc' = [pc EXCEPT ![p] = at], UNCHANGED <<prog, main>>
  PROVE  MainAt'
  <1>1. CASE prog.threads
    <2>1. main # "start" /\ main # "terminated" /\ (p \in Send => p = Server)
      BY <1>1, Disjoint DEF IInv, MainAt, Threads, Proc
    <2>2. main = "sleep" => p # Server
      BY <1>1 DEF IInv, MainAt
    <2> QED
      BY <1>1, <2>1, <2>2, ServerSends, Disjoint DEF IInv, MainAt, TypeOK
  <1>2. CASE ~prog.threads
    BY <1>2 DEF IInv, MainAt
  <1> QED
    BY <1>1, <1>2

LEMMA MakePreserves ==
  ASSUME IInv, NEW p \in Proc, Make(p) PROVE IInv'
  <1> DEFINE at == IF p \in Send THEN "ready" ELSE "made"
  <1>0. /\ TypeOK /\ pc' = [pc EXCEPT ![p] = at] /\ pc[p] = "main"
        /\ at \in {"ready", "made"} /\ at \in Location
        /\ fds' = [fds EXCEPT ![p] = @ + 1] /\ fds[p] \in 0 .. 1
    BY DEF IInv, Make, Goto, Location, DescriptorsReturned
  <1>1. ResponsesMatch' /\ Streams' /\ Requests' /\ Reached'
    BY <1>0, DatagramsStay DEF Make, TypeOK
  <1>2. TypeOK'
    <2>1. fds[p] + 1 \in 0 .. 2
      BY <1>0
    <2> QED
      BY <1>0, <2>1 DEF Make, TypeOK
  <1>3. DescriptorsReturned'
    BY <1>0 DEF IInv, Make, DescriptorsReturned, TypeOK
  <1>4. Locations'
    <2>1. i[p] = 0 /\ inbox[p] = <<>>
      BY <1>0 DEF IInv, Locations
    <2> QED
      BY <1>0, <2>1 DEF IInv, Make, Locations, TypeOK
  <1>5. MainAt'
    BY <1>0, MainStays DEF Make
  <1> QED
    BY <1>1, <1>2, <1>3, <1>4, <1>5 DEF IInv

LEMMA BindPreserves ==
  ASSUME IInv, NEW r \in Recv, Bind(r) PROVE IInv'
  <1>0. TypeOK /\ r \in Proc /\ pc' = [pc EXCEPT ![r] = "ready"] /\ pc[r] = "made"
    BY Disjoint DEF IInv, Bind, Goto
  <1>1. ResponsesMatch' /\ Streams' /\ Requests' /\ Reached'
    BY <1>0, DatagramsStay DEF Bind, TypeOK
  <1>2. TypeOK'
    BY <1>0 DEF Bind, TypeOK, Location
  <1>3. DescriptorsReturned'
    BY <1>0 DEF IInv, Bind, DescriptorsReturned, TypeOK
  <1>4. Locations'
    BY <1>0 DEF IInv, Bind, Locations, TypeOK
  <1>5. MainAt'
    BY <1>0, MainStays DEF Bind, Location
  <1> QED
    BY <1>1, <1>2, <1>3, <1>4, <1>5 DEF IInv

(* A process or all threads of bc die: nobody who waits is among them, and *)
(* what was in their queues is lost.                                       *)
LEMMA DiePreserves ==
  ASSUME IInv, NEW p \in Proc, Die(p),
         pc[p] \in {"main", "made"} \/ (pc[p] = "ready" /\ prog.checked)
  PROVE  IInv'
  <1> DEFINE gone == IF prog.threads THEN Threads ELSE {p}
  <1>0. /\ TypeOK /\ gone \subseteq Proc /\ prog' = prog /\ i' = i /\ seen' = seen
        /\ \A q \in Proc : /\ q \in gone => pc'[q] = "failed" /\ fds'[q] = 0 /\ inbox'[q] = <<>>
                           /\ q \notin gone => /\ pc'[q] = pc[q] /\ fds'[q] = fds[q]
                                               /\ inbox'[q] = inbox[q]
        /\ lost' = (lost \/ \E q \in gone : inbox[q] # <<>>)
    BY ServerSends, Disjoint DEF IInv, Die, Threads, Proc
  <1>1. \A q \in gone : pc[q] # "waiting"
    <2>1. prog.threads => ~prog.replies
      BY <1>0, Typed, ProgramFacts
    <2> QED
      BY <1>0, <2>1 DEF IInv, Locations
  <1>2. \A q \in Proc : pc'[q] = "waiting" <=> pc[q] = "waiting"
    BY <1>0, <1>1
  <1>3. prog.replies => inbox' = inbox
    <2> SUFFICES ASSUME prog.replies PROVE inbox' = inbox
      OBVIOUS
    <2>1. ~prog.threads /\ ~prog.checked
      BY <1>0, Typed, ProgramFacts
    <2>2. gone = {p} /\ inbox[p] = <<>>
      BY <2>1 DEF IInv, Locations
    <2>3. inbox' = [q \in Proc |-> IF q \in gone THEN <<>> ELSE inbox[q]]
      BY DEF Die
    <2>4. inbox' = [q \in Proc |-> inbox[q]]
      BY <2>2, <2>3
    <2> QED
      BY <1>0, <2>4 DEF TypeOK
  <1>4. TypeOK'
    <2>1. pc' \in [Proc -> Location] /\ fds' \in [Proc -> 0 .. 2]
      BY <1>0 DEF Die, TypeOK, Location
    <2>2. inbox' \in [Proc -> Seq(Datagram)]
      BY <1>0 DEF Die, TypeOK
    <2>3. lost' \in BOOLEAN
      BY <1>0
    <2>4. main' \in {"start", "sleep", "join", "returned", "terminated"}
      BY <1>0 DEF Die, TypeOK
    <2> QED
      BY <1>0, <2>1, <2>2, <2>3, <2>4 DEF Die, TypeOK
  <1>5. MainAt'
    <2>1. CASE prog.threads
      <3>1. gone = Threads /\ main' = "terminated"
        BY <2>1 DEF Die
      <3> HIDE DEF gone
      <3>2. \A q \in Proc : pc'[q] # "usage"
        BY <1>0, <2>1 DEF IInv, MainAt
      <3>3. \A s \in Send \ {Server} : pc'[s] = "off"
        BY <1>0, <2>1, <3>1, Disjoint DEF IInv, MainAt, Threads
      <3>4. \A q \in Threads : pc'[q] = "failed"
        BY <1>0, <3>1
      <3> QED
        BY <1>0, <2>1, <3>1, <3>2, <3>3, <3>4 DEF MainAt
    <2>2. CASE ~prog.threads
      BY <1>0, <2>2 DEF IInv, Die, MainAt
    <2> QED
      BY <2>1, <2>2
  <1>6. \A q \in Proc : inbox'[q] = inbox[q] \/ inbox'[q] = <<>>
    BY <1>0
  <1>7. host' = host
    BY DEF Die
  <1> HIDE DEF gone
  <1>8. DescriptorsReturned'
    BY <1>0, <1>7 DEF IInv, DescriptorsReturned
  <1>9. Locations'
    BY <1>0, <1>2 DEF IInv, Locations
  <1>10. ResponsesMatch'
    BY <1>0 DEF IInv, ResponsesMatch, Increasing
  <1>11. Streams'
    BY <1>0, <1>6, Disjoint DEF IInv, Streams, Increasing, Before, UpTo
  <1>12. Requests'
    <2>1. ASSUME NEW s \in Send
          PROVE  /\ inbox'[s] # <<>> => inbox'[s] = <<[from |-> s, n |-> i[s]]>>
                 /\ pc'[s] = "waiting" => Len(seen[s]) + 1 = i[s]
                 /\ pc'[s] # "waiting" => Len(seen[s]) = IF prog.replies THEN i[s] ELSE 0
      BY <1>2, <1>6, Disjoint DEF IInv, Requests
    <2>2. \A r \in Recv : \A k \in 1 .. Len(inbox[r]) : inbox[r][k].from \in Proc
      BY QueueParts, Typed, Disjoint DEF IInv
    <2> QED
      BY <1>0, <1>2, <1>3, <2>1, <2>2, Disjoint DEF IInv, Requests
  <1>13. Reached'
    <2> SUFFICES ASSUME ~lost' PROVE Reached'
      BY DEF Reached
    <2>1. ~lost /\ \A q \in gone : inbox[q] = <<>>
      BY <1>0
    <2>2. \A q \in Proc : inbox'[q] = inbox[q]
      BY <1>0, <2>1
    <2>3. \A q \in Proc : pc'[q] # "failed" => pc'[q] = pc[q]
      BY <1>0
    <2> QED
      BY <1>0, <1>2, <2>1, <2>2, <2>3, Disjoint, ServerSends DEF IInv, Reached, Holds
  <1> QED
    BY <1>4, <1>5, <1>8, <1>9, <1>10, <1>11, <1>12, <1>13 DEF IInv

(* A loop ends: what is left in the queue is lost. *)
LEMMA FinishPreserves ==
  ASSUME IInv, NEW p \in Proc, Finish(p) PROVE IInv'
  <1>0. /\ TypeOK /\ prog' = prog /\ main' = main /\ host' = host /\ i' = i /\ seen' = seen
        /\ pc[p] = "ready" /\ i[p] = Loop
        /\ pc' = [pc EXCEPT ![p] = "done"]
        /\ inbox' = [inbox EXCEPT ![p] = <<>>]
        /\ lost' = (lost \/ inbox[p] # <<>>)
    BY DEF IInv, Finish, LoopEnds, Goto
  <1>1. fds' = [fds EXCEPT ![p] = 0]
    <2>1. CASE prog.threads
      <3>1. ~prog.host
        BY <1>0, <2>1, Typed, ProgramFacts
      <3>2. fds[p] = 1
        BY <1>0, <3>1 DEF IInv, DescriptorsReturned
      <3> QED
        BY <2>1, <3>2 DEF Finish
    <2>2. CASE ~prog.threads
      BY <2>2 DEF Finish
    <2> QED
      BY <2>1, <2>2
  <1>2. \A q \in Proc : /\ q # p => pc'[q] = pc[q] /\ inbox'[q] = inbox[q] /\ fds'[q] = fds[q]
                        /\ pc'[p] = "done" /\ inbox'[p] = <<>> /\ fds'[p] = 0
                        /\ pc'[q] = "waiting" <=> pc[q] = "waiting"
                        /\ inbox'[q] = inbox[q] \/ inbox'[q] = <<>>
    BY <1>0, <1>1 DEF TypeOK
  <1>3. TypeOK'
    <2>1. <<>> \in Seq(Datagram) /\ lost' \in BOOLEAN
      BY <1>0
    <2> QED
      BY <1>0, <1>1, <2>1 DEF TypeOK, Location
  <1>4. DescriptorsReturned'
    BY <1>0, <1>2 DEF IInv, DescriptorsReturned
  <1>5. Locations'
    BY <1>0, <1>2 DEF IInv, Locations
  <1>6. MainAt'
    BY <1>0, MainStays DEF Location
  <1>7. ResponsesMatch'
    BY <1>0 DEF IInv, ResponsesMatch, Increasing
  <1>8. Streams'
    BY <1>0, <1>2, Disjoint DEF IInv, Streams, Increasing, Before, UpTo
  <1>9. Requests'
    <2>1. ASSUME NEW s \in Send
          PROVE  /\ inbox'[s] # <<>> => inbox'[s] = <<[from |-> s, n |-> i[s]]>>
                 /\ pc'[s] = "waiting" => Len(seen[s]) + 1 = i[s]
                 /\ pc'[s] # "waiting" => Len(seen[s]) = IF prog.replies THEN i[s] ELSE 0
      BY <1>2, Disjoint DEF IInv, Requests
    <2>2. ASSUME prog.replies, NEW r \in Recv, NEW k \in 1 .. Len(inbox'[r])
          PROVE  LET s == inbox'[r][k].from
                 IN  /\ pc'[s] = "waiting" /\ inbox'[s] = <<>> /\ inbox'[r][k].n = i[s]
                     /\ \A q \in Recv : \A j \in 1 .. Len(inbox'[q]) :
                           inbox'[q][j].from = s => q = r /\ j = k
      <3>1. inbox'[r] = inbox[r]
        BY <1>2, <2>2, Disjoint
      <3>2. inbox[r][k].from \in Proc
        BY <2>2, <3>1, <1>0, QueueParts, Typed, Disjoint
      <3>3. \A q \in Recv : \A j \in 1 .. Len(inbox'[q]) : inbox'[q] = inbox[q]
        BY <1>2, Disjoint
      <3> QED
        BY <1>2, <2>2, <3>1, <3>2, <3>3 DEF IInv, Requests
    <2> QED
      BY <1>0, <2>1, <2>2 DEF Requests
  <1>10. Reached'
    <2> SUFFICES ASSUME ~lost' PROVE Reached'
      BY DEF Reached
    <2>1. ~lost /\ inbox[p] = <<>>
      BY <1>0
    <2>2. \A q \in Proc : inbox'[q] = inbox[q]
      BY <1>2, <2>1
    <2>3. \A q \in Proc : pc'[q] # "done" => pc'[q] = pc[q]
      BY <1>2
    <2> QED
      BY <1>0, <1>2, <2>1, <2>2, <2>3, Disjoint, ServerSends DEF IInv, Reached, Holds
  <1> QED
    BY <1>3, <1>4, <1>5, <1>6, <1>7, <1>8, <1>9, <1>10 DEF IInv

(* An rr client reads the answer to its last request, the one thing there  *)
(* can be in its queue.                                                    *)
LEMMA AnsweredPreserves ==
  ASSUME IInv, NEW s \in Send, Answered(s) PROVE IInv'
  <1> DEFINE d == [from |-> s, n |-> i[s]]
  <1>0. /\ TypeOK /\ prog' = prog /\ main' = main /\ host' = host /\ fds' = fds /\ i' = i
        /\ lost' = lost /\ s \in Proc /\ s \notin Recv
        /\ pc[s] = "waiting" /\ inbox[s] # <<>>
        /\ pc' = [pc EXCEPT ![s] = "ready"]
    BY Disjoint DEF IInv, Answered, Goto
  <1>1. inbox[s] = <<d>> /\ prog.replies /\ Len(seen[s]) + 1 = i[s]
    BY <1>0 DEF IInv, Requests, Locations
  <1>2. seen' = [seen EXCEPT ![s] = Append(@, d)] /\ inbox' = [inbox EXCEPT ![s] = <<>>]
    BY <1>1 DEF Answered
  <1>3. d \in Datagram
    <2>1. inbox[s] \in Seq(Datagram)
      BY <1>0, Typed
    <2>2. 1 \in 1 .. Len(<<d>>) /\ <<d>>[1] = d
      OBVIOUS
    <2> QED
      BY <1>1, <2>1, <2>2, QueueParts
  <1>4. \A q \in Proc : /\ q # s => /\ pc'[q] = pc[q] /\ inbox'[q] = inbox[q]
                                    /\ seen'[q] = seen[q]
                        /\ pc'[s] = "ready" /\ inbox'[s] = <<>>
                        /\ seen'[s] = Append(seen[s], d)
    BY <1>0, <1>2 DEF TypeOK
  <1>5. /\ Len(seen[s]) \in Nat /\ Len(seen'[s]) = i[s] /\ seen'[s][i[s]] = d
        /\ \A k \in 1 .. Len(seen[s]) : seen'[s][k] = seen[s][k]
    BY <1>0, <1>1, <1>3, <1>4, Typed
  <1>6. TypeOK'
    <2>1. <<>> \in Seq(Datagram) /\ Append(seen[s], d) \in Seq(Datagram)
      BY <1>0, <1>3, Typed
    <2> QED
      BY <1>0, <1>2, <2>1 DEF TypeOK, Location
  <1>7. DescriptorsReturned'
    BY <1>0, <1>4 DEF IInv, DescriptorsReturned
  <1>8. Locations'
    BY <1>0, <1>4 DEF IInv, Locations
  <1>9. MainAt'
    BY <1>0, MainStays DEF Location
  <1>10. ResponsesMatch'
    <2>1. ASSUME NEW t \in Send, NEW k \in 1 .. Len(seen'[t])
          PROVE  seen'[t][k] = [from |-> t, n |-> k]
      <3>1. CASE t # s
        BY <1>4, <2>1, <3>1, Disjoint DEF IInv, ResponsesMatch
      <3>2. CASE t = s /\ k # i[s]
        <4>1. k \in 1 .. Len(seen[s])
          BY <1>1, <1>5, <2>1, <3>2
        <4> QED
          BY <1>5, <3>2, <4>1 DEF IInv, ResponsesMatch
      <3>3. CASE t = s /\ k = i[s]
        BY <1>5, <3>3
      <3> QED
        BY <3>1, <3>2, <3>3
    <2>2. \A r \in Recv : Increasing(seen'[r])
      BY <1>0, <1>4, Disjoint DEF IInv, ResponsesMatch
    <2> QED
      BY <2>1, <2>2 DEF ResponsesMatch, Increasing
  <1>11. Streams'
    <2>1. \A r \in Recv : seen'[r] = seen[r] /\ inbox'[r] = inbox[r]
      BY <1>0, <1>4, Disjoint
    <2> QED
      BY <1>0, <2>1 DEF IInv, Streams, Increasing, Before, UpTo
  <1>12. Requests'
    <2>1. ASSUME NEW t \in Send
          PROVE  /\ inbox'[t] # <<>> => inbox'[t] = <<[from |-> t, n |-> i[t]]>>
                 /\ pc'[t] = "waiting" => Len(seen'[t]) + 1 = i[t]
                 /\ pc'[t] # "waiting" => Len(seen'[t]) = IF prog.replies THEN i[t] ELSE 0
      <3>1. CASE t = s
        BY <1>1, <1>4, <1>5, <3>1, Disjoint
      <3>2. CASE t # s
        BY <1>4, <3>2, Disjoint DEF IInv, Requests
      <3> QED
        BY <3>1, <3>2
    <2>2. ASSUME NEW r \in Recv, NEW k \in 1 .. Len(inbox'[r])
          PROVE  LET t == inbox'[r][k].from
                 IN  /\ pc'[t] = "waiting" /\ inbox'[t] = <<>> /\ inbox'[r][k].n = i[t]
                     /\ \A q \in Recv : \A j \in 1 .. Len(inbox'[q]) :
                           inbox'[q][j].from = t => q = r /\ j = k
      <3>1. \A q \in Recv : inbox'[q] = inbox[q]
        BY <1>0, <1>4, Disjoint
      <3>2. inbox[r][k].from \in Proc
        BY <2>2, <3>1, <1>0, QueueParts, Typed, Disjoint
      <3>3. inbox[r][k].from # s
        BY <1>0, <1>1, <2>2, <3>1 DEF IInv, Requests
      <3> QED
        BY <1>1, <1>4, <2>2, <3>1, <3>2, <3>3 DEF IInv, Requests
    <2> QED
      BY <1>0, <2>1, <2>2 DEF Requests
  <1>13. Reached'
    <2>1. \A r \in Recv : /\ seen'[r] = seen[r] /\ inbox'[r] = inbox[r] /\ pc'[r] = pc[r]
      BY <1>0, <1>4, Disjoint
    <2>2. \A t \in Send : pc'[t] = "waiting" => pc[t] = "waiting" /\ inbox'[t] = inbox[t]
      BY <1>4, Disjoint
    <2> QED
      BY <1>0, <2>1, <2>2 DEF IInv, Reached, Holds
  <1> QED
    BY <1>6, <1>7, <1>8, <1>9, <1>10, <1>11, <1>12, <1>13 DEF IInv

-----------------------------------------------------------------------------
(* The loops. *)

(* A datagram is given to receivers that are bound, to one of them if it   *)
(* is not broadcast.                                                       *)
LEMMA TakersBound ==
  ASSUME NEW s, NEW T \in Takers(s)
  PROVE  /\ \A r \in T : r \in Recv /\ pc[r] = "ready"
         /\ ~prog.broadcast => \A q, r \in T : q = r
  <1> DEFINE all == IF prog.broadcast THEN {Bound} ELSE {{r} : r \in Bound}
  <1>1. \A S \in all : S \subseteq Bound /\ (~prog.broadcast => \A q, r \in S : q = r)
    OBVIOUS
  <1>2. T = {} \/ \E S \in all : T \subseteq S
    BY DEF Takers
  <1> HIDE DEF all
  <1> QED
    BY <1>1, <1>2 DEF Bound

LEMMA AppendParts ==
  ASSUME NEW S, NEW q \in Seq(S), NEW d \in S
  PROVE  /\ Append(q, d) \in Seq(S) /\ Len(Append(q, d)) = Len(q) + 1
         /\ Append(q, d)[Len(q) + 1] = d
         /\ \A k \in 1 .. Len(q) : Append(q, d)[k] = q[k]
  OBVIOUS

LEMMA SendOnePreserves ==
  ASSUME IInv, NEW s \in Send, SendOne(s) PROVE IInv'
  <1> PICK d : d = [from |-> s, n |-> i[s] + 1]
    OBVIOUS
  <1> DEFINE at == IF prog.replies THEN "waiting" ELSE "ready"
  <1>0. /\ TypeOK /\ prog' = prog /\ main' = main /\ host' = host /\ fds' = fds /\ seen' = seen
        /\ pc[s] = "ready" /\ i[s] < Loop /\ s \in Proc /\ s \notin Recv
        /\ i' = [i EXCEPT ![s] = @ + 1] /\ pc' = [pc EXCEPT ![s] = at]
    BY Disjoint DEF IInv, SendOne, Goto, AfterSend
  <1>1. PICK T \in Takers(s) :
          /\ inbox' = [p \in Proc |-> IF p \in T THEN Append(inbox[p], d) ELSE inbox[p]]
          /\ lost' = (lost \/ Missed(T))
    BY DEF SendOne
  <1>2. /\ d \in Datagram /\ d.from = s /\ d.n = i[s] + 1
        /\ inbox' \in [Proc -> Seq(Datagram)]
        /\ \A p \in Proc \ T : inbox'[p] = inbox[p]
        /\ \A r \in T : /\ r \in Recv /\ r \in Proc /\ inbox'[r] = Append(inbox[r], d)
                        /\ Len(inbox'[r]) = Len(inbox[r]) + 1
                        /\ inbox'[r][Len(inbox[r]) + 1] = d
                        /\ \A k \in 1 .. Len(inbox[r]) : inbox'[r][k] = inbox[r][k]
    <2>1. d.from = s /\ d.n = i[s] + 1
      OBVIOUS
    <2>2. i[s] + 1 \in 1 .. Loop
      BY <1>0, Typed
    <2>3. d \in Datagram
      BY <2>2 DEF Datagram
    <2>4. \A p \in Proc : inbox[p] \in Seq(Datagram) /\ Len(inbox[p]) \in Nat
      BY <1>0, Typed
    <2>5. \A p \in Proc : Append(inbox[p], d) \in Seq(Datagram)
      BY <2>3, <2>4, AppendParts
    <2>6. inbox' \in [Proc -> Seq(Datagram)] /\ \A p \in Proc \ T : inbox'[p] = inbox[p]
      BY <1>1, <2>4, <2>5
    <2>7. \A r \in T : r \in Recv /\ r \in Proc /\ inbox'[r] = Append(inbox[r], d)
      BY <1>1, TakersBound, Disjoint
    <2>8. ASSUME NEW r \in T
          PROVE  /\ Len(inbox'[r]) = Len(inbox[r]) + 1
                 /\ inbox'[r][Len(inbox[r]) + 1] = d
                 /\ \A k \in 1 .. Len(inbox[r]) : inbox'[r][k] = inbox[r][k]
      BY <2>3, <2>4, <2>7, AppendParts
    <2> QED
      BY <2>1, <2>3, <2>6, <2>7, <2>8
  <1>3. /\ \A r \in T : r \in Recv /\ pc[r] = "ready"
        /\ ~prog.broadcast => \A q, r \in T : q = r
    BY <1>1, TakersBound
  <1>4. /\ \A p \in Proc : p # s => pc'[p] = pc[p] /\ i'[p] = i[p]
        /\ pc'[s] = at /\ i'[s] = i[s] + 1 /\ inbox'[s] = inbox[s] /\ inbox[s] = <<>>
    <2>1. inbox[s] = <<>>
      BY <1>0 DEF IInv, Locations
    <2>2. s \notin T
      BY <1>0, <1>3
    <2> QED
      BY <1>0, <1>2, <2>1, <2>2 DEF TypeOK
  <1>5. i' \in [Proc -> Nat] /\ \A p \in Proc : i[p] <= i'[p]
    BY <1>0, <1>4, Typed
  <1>6. TypeOK'
    <2>1. i[s] + 1 \in 0 .. Loop
      BY <1>0, Typed
    <2>2. Missed(T) \in BOOLEAN
      BY DEF Missed
    <2>3. lost' \in BOOLEAN
      BY <1>0, <1>1, <2>2
    <2> QED
      BY <1>0, <1>2, <2>1, <2>3 DEF TypeOK, Location
  <1>7. DescriptorsReturned'
    BY <1>0, <1>4 DEF IInv, DescriptorsReturned
  <1>8. Locations'
    <2>1. ASSUME NEW p \in Proc, inbox'[p] # <<>>
          PROVE  pc'[p] = IF p \in Recv THEN "ready" ELSE "waiting"
      <3>1. CASE p \in T
        BY <1>0, <1>3, <1>4, <3>1
      <3>2. CASE p \notin T
        BY <1>2, <1>4, <2>1, <3>2 DEF IInv, Locations
      <3> QED
        BY <3>1, <3>2
    <2> QED
      BY <1>0, <1>4, <2>1 DEF IInv, Locations
  <1>9. MainAt'
    <2>1. at \in Location \ {"off", "failed", "usage"}
      BY DEF Location
    <2> QED
      BY <1>0, <2>1, MainStays
  <1>10. ResponsesMatch'
    BY <1>0 DEF IInv, ResponsesMatch, Increasing
  <1>11. Streams'
    <2>0. i \in [Proc -> Nat]
      BY <1>0, Typed
    <2>1. ASSUME NEW r \in Recv
          PROVE  /\ Len(seen'[r]) = i'[r]
                 /\ Increasing(inbox'[r]) /\ Before(seen'[r], inbox'[r])
                 /\ UpTo(seen'[r], i') /\ UpTo(inbox'[r], i')
      <3>1. r \in Proc /\ r # s /\ inbox[r] \in Seq(Datagram) /\ seen[r] \in Seq(Datagram)
        BY <1>0, Typed, Disjoint
      <3>2. /\ Len(seen[r]) = i[r] /\ Increasing(inbox[r]) /\ Before(seen[r], inbox[r])
            /\ UpTo(seen[r], i) /\ UpTo(inbox[r], i)
        BY DEF IInv, Streams
      <3>3. UpTo(seen[r], i') /\ UpTo(inbox[r], i')
        BY <1>5, <2>0, <3>1, <3>2, UpToMore
      <3>4. CASE r \in T
        <4>1. Increasing(Append(inbox[r], d)) /\ Before(seen[r], Append(inbox[r], d))
          BY <1>2, <2>0, <3>1, <3>2, StreamSent
        <4>2. d.n <= i'[d.from]
          BY <1>0, <1>2, <1>4, Typed
        <4>3. UpTo(Append(inbox[r], d), i')
          BY <1>2, <3>1, <3>3, <4>2, UpToAppend
        <4> QED
          BY <1>0, <1>2, <1>4, <3>1, <3>2, <3>3, <3>4, <4>1, <4>3
      <3>5. CASE r \notin T
        BY <1>0, <1>2, <1>4, <3>1, <3>2, <3>3, <3>5
      <3> QED
        BY <3>4, <3>5
    <2> QED
      BY <2>1 DEF Streams, Increasing, Before, UpTo
  <1>12. Requests'
    <2>1. ASSUME NEW t \in Send
          PROVE  /\ inbox'[t] # <<>> => inbox'[t] = <<[from |-> t, n |-> i'[t]]>>
                 /\ pc'[t] = "waiting" => Len(seen[t]) + 1 = i'[t]
                 /\ pc'[t] # "waiting" => Len(seen[t]) = IF prog.replies THEN i'[t] ELSE 0
      <3>1. CASE t = s
        BY <1>0, <1>4, <3>1, Typed DEF IInv, Requests
      <3>2. CASE t # s
        <4>1. t \in Proc /\ t \notin T
          BY <1>3, Disjoint
        <4>2. inbox'[t] = inbox[t] /\ pc'[t] = pc[t] /\ i'[t] = i[t]
          BY <1>2, <1>4, <3>2, <4>1
        <4> QED
          BY <4>2 DEF IInv, Requests
      <3> QED
        BY <3>1, <3>2
    <2>2. ASSUME prog.replies
          PROVE  \A r \in Recv : \A k \in 1 .. Len(inbox'[r]) :
                   \/ /\ r \notin T \/ k # Len(inbox[r]) + 1
                      /\ k \in 1 .. Len(inbox[r]) /\ inbox'[r][k] = inbox[r][k]
                      /\ inbox[r][k].from # s /\ inbox[r][k].from \in Proc \ T
                      /\ pc[inbox[r][k].from] = "waiting"
                   \/ r \in T /\ k = Len(inbox[r]) + 1 /\ inbox'[r][k] = d
      <3> SUFFICES ASSUME NEW r \in Recv, NEW k \in 1 .. Len(inbox'[r]),
                          ~(r \in T /\ k = Len(inbox[r]) + 1)
                   PROVE  /\ k \in 1 .. Len(inbox[r]) /\ inbox'[r][k] = inbox[r][k]
                          /\ inbox[r][k].from # s /\ inbox[r][k].from \in Proc \ T
                          /\ pc[inbox[r][k].from] = "waiting"
        BY <1>2
      <3>1. r \in Proc /\ inbox[r] \in Seq(Datagram) /\ Len(inbox[r]) \in Nat
        BY <1>0, Typed, Disjoint
      <3>2. k \in 1 .. Len(inbox[r]) /\ inbox'[r][k] = inbox[r][k]
        BY <1>2, <3>1
      <3>3. inbox[r][k].from \in Send /\ inbox[r][k].from \in Proc
        BY <3>1, <3>2, QueueParts
      <3>4. pc[inbox[r][k].from] = "waiting"
        BY <2>2, <3>2 DEF IInv, Requests
      <3> QED
        BY <1>0, <1>3, <3>2, <3>3, <3>4, Disjoint
    <2>3. ASSUME prog.replies, NEW r \in Recv, NEW k \in 1 .. Len(inbox'[r])
          PROVE  LET t == inbox'[r][k].from
                 IN  /\ pc'[t] = "waiting" /\ inbox'[t] = <<>> /\ inbox'[r][k].n = i'[t]
                     /\ \A q \in Recv : \A j \in 1 .. Len(inbox'[q]) :
                           inbox'[q][j].from = t => q = r /\ j = k
      <3>1. CASE inbox'[r][k].from # s
        <4>1. k \in 1 .. Len(inbox[r]) /\ inbox'[r][k] = inbox[r][k]
          BY <1>2, <2>2, <2>3, <3>1
        <4> DEFINE t == inbox[r][k].from
        <4>2. t \in Proc \ T /\ t # s
          BY <1>2, <2>2, <2>3, <3>1, <4>1
        <4>3. /\ pc[t] = "waiting" /\ inbox[t] = <<>> /\ inbox[r][k].n = i[t]
              /\ \A q \in Recv : \A j \in 1 .. Len(inbox[q]) :
                    inbox[q][j].from = t => q = r /\ j = k
          BY <2>3, <4>1 DEF IInv, Requests
        <4>4. \A q \in Recv : \A j \in 1 .. Len(inbox'[q]) :
                 inbox'[q][j].from = t =>
                    j \in 1 .. Len(inbox[q]) /\ inbox[q][j].from = t
          BY <1>2, <2>2, <2>3, <4>2
        <4>5. pc'[t] = "waiting" /\ inbox'[t] = <<>> /\ inbox'[r][k].n = i'[t]
          BY <1>2, <1>4, <4>1, <4>2, <4>3
        <4>6. inbox'[r][k].from = t
          BY <4>1
        <4> HIDE DEF t
        <4>7. \A q \in Recv : \A j \in 1 .. Len(inbox'[q]) :
                 inbox'[q][j].from = t => q = r /\ j = k
          BY <4>3, <4>4
        <4> QED
          BY <4>5, <4>6, <4>7
      <3>2. CASE inbox'[r][k].from = s
        <4>1. r \in T /\ k = Len(inbox[r]) + 1 /\ inbox'[r][k] = d
          BY <2>2, <2>3, <3>2
        <4>2. \A q \in Recv : \A j \in 1 .. Len(inbox'[q]) :
                 inbox'[q][j].from = s => q \in T /\ j = Len(inbox[q]) + 1
          BY <2>2, <2>3
        <4>3. ~prog.broadcast
          BY <1>0, <2>3, Typed, ProgramFacts
        <4>4. \A q \in T : q = r
          BY <1>3, <4>1, <4>3
        <4> QED
          BY <1>2, <1>4, <2>3, <3>2, <4>1, <4>2, <4>4
      <3> QED
        BY <3>1, <3>2
    <2> QED
      BY <1>0, <2>1, <2>3 DEF Requests
  <1>13. Reached'
    <2> SUFFICES ASSUME ~lost' PROVE Reached'
      BY DEF Reached
    <2>1. ~lost /\ ~Missed(T)
      BY <1>1
    <2>2. \A r \in Recv : \A t, n : Holds(inbox[r], t, n) => Holds(inbox'[r], t, n)
      <3> SUFFICES ASSUME NEW r \in Recv, NEW t, NEW n, Holds(inbox[r], t, n)
                   PROVE  Holds(inbox'[r], t, n)
        OBVIOUS
      <3>1. r \in Proc /\ inbox[r] \in Seq(Datagram)
        BY <1>0, Typed, Disjoint
      <3>2. CASE r \in T
        BY <1>2, <3>1, <3>2, HoldsAppend
      <3>3. CASE r \notin T
        BY <1>2, <3>1, <3>3
      <3> QED
        BY <3>2, <3>3
    <2>3. \A r \in T : Holds(inbox'[r], s, i[s] + 1)
      <3> SUFFICES ASSUME NEW r \in T PROVE Holds(inbox'[r], s, i[s] + 1)
        OBVIOUS
      <3>1. inbox[r] \in Seq(Datagram) /\ inbox'[r] = Append(inbox[r], d)
        BY <1>0, <1>2, Typed
      <3> QED
        BY <1>2, <3>1, HoldsAppend
    <2>4. ~prog.broadcast => \E r \in T : r \in Recv /\ Holds(inbox'[r], s, i[s] + 1)
      BY <1>2, <2>1, <2>3 DEF Missed
    <2>5. ASSUME ~prog.broadcast, NEW t \in Send, NEW n \in 1 .. i'[t]
          PROVE  \E r \in Recv : Holds(seen[r], t, n) \/ Holds(inbox'[r], t, n)
      <3>1. CASE t = s /\ n = i[s] + 1
        BY <2>4, <2>5, <3>1
      <3>2. CASE ~(t = s /\ n = i[s] + 1)
        <4>1. n \in 1 .. i[t]
          BY <1>0, <1>4, <2>5, <3>2, Typed, Disjoint
        <4>2. \E r \in Recv : Holds(seen[r], t, n) \/ Holds(inbox[r], t, n)
          BY <2>1, <2>5, <4>1 DEF IInv, Reached
        <4> QED
          BY <2>2, <4>2
      <3> QED
        BY <3>1, <3>2
    <2>6. ASSUME prog.broadcast, NEW r \in Recv, pc'[r] \notin {"done", "failed"}
          PROVE  i'[r] + Len(inbox'[r]) = i'[Server]
      <3>1. prog.threads
        BY <1>0, <2>6, Typed, ProgramFacts
      <3>2. s = Server
        BY <1>0, <3>1 DEF IInv, MainAt
      <3>3. r \in Proc /\ r # s /\ pc[r] \notin {"done", "failed"} /\ i'[r] = i[r]
        BY <1>0, <1>4, <2>6, Disjoint
      <3>4. r \in T
        BY <2>1, <2>6, <3>3 DEF Missed
      <3>5. i[r] + Len(inbox[r]) = i[s]
        BY <2>1, <2>6, <3>2, <3>3 DEF IInv, Reached
      <3>6. Len(inbox'[r]) = Len(inbox[r]) + 1 /\ Len(inbox[r]) \in Nat /\ i[r] \in Nat
        BY <1>0, <1>2, <3>3, <3>4, Typed
      <3> QED
        BY <1>0, <1>4, <3>2, <3>3, <3>5, <3>6, Typed
    <2>7. ASSUME NEW t \in Send, pc'[t] = "waiting"
          PROVE  inbox'[t] # <<>> \/ \E r \in Recv : Holds(inbox'[r], t, i'[t])
      <3>1. CASE t = s
        <4>1. prog.replies
          BY <1>4, <2>7, <3>1
        <4>2. ~prog.broadcast
          BY <1>0, <4>1, Typed, ProgramFacts
        <4> QED
          BY <1>4, <2>4, <3>1, <4>2
      <3>2. CASE t # s
        <4>1. t \in Proc \ T
          BY <1>3, Disjoint
        <4>2. pc[t] = "waiting" /\ inbox'[t] = inbox[t] /\ i'[t] = i[t]
          BY <1>2, <1>4, <2>7, <3>2, <4>1
        <4> QED
          BY <2>1, <2>2, <4>2 DEF IInv, Reached
      <3> QED
        BY <3>1, <3>2
    <2> QED
      BY <1>0, <2>5, <2>6, <2>7 DEF Reached, Holds
  <1> QED
    BY <1>6, <1>7, <1>8, <1>9, <1>10, <1>11, <1>12, <1>13 DEF IInv

(* A turn of a receiver's loop; in rr the reply goes to the client whose   *)
(* only request this was.                                                  *)
LEMMA ReceiveOnePreserves ==
  ASSUME IInv, NEW r \in Recv, ReceiveOne(r) PROVE IInv'
  <1> PICK d, tail : d = Head(inbox[r]) /\ tail = Tail(inbox[r])
    OBVIOUS
  <1>0. /\ TypeOK /\ prog' = prog /\ main' = main /\ host' = host /\ fds' = fds /\ pc' = pc
        /\ pc[r] = "ready" /\ i[r] < Loop /\ inbox[r] # <<>> /\ r \in Proc /\ r \notin Send
        /\ i' = [i EXCEPT ![r] = @ + 1] /\ seen' = [seen EXCEPT ![r] = Append(@, d)]
    BY Disjoint DEF IInv, ReceiveOne
  <1>1. PICK S \in ReplyTo(d) :
          /\ inbox' = [p \in Proc |-> CASE p = r -> tail
                                        [] p \in S -> Append(inbox[p], d)
                                        [] OTHER -> inbox[p]]
          /\ lost' = (lost \/ (prog.replies /\ S = {}))
    BY DEF ReceiveOne
  <1>2. /\ \A p \in Proc : inbox[p] \in Seq(Datagram) /\ Len(inbox[p]) \in Nat
        /\ i \in [Proc -> Nat] /\ seen[r] \in Seq(Datagram) /\ Len(seen[r]) \in Nat
    BY <1>0, Typed
  <1>3. /\ d \in Datagram /\ d = inbox[r][1] /\ 1 \in 1 .. Len(inbox[r])
        /\ tail \in Seq(Datagram) /\ Len(tail) = Len(inbox[r]) - 1
        /\ \A k \in 1 .. Len(tail) : k + 1 \in 1 .. Len(inbox[r]) /\ tail[k] = inbox[r][k + 1]
    BY <1>0, <1>2, HeadTail
  <1>4. d.from \in Send /\ d.from \in Proc /\ d.from # r
    BY <1>0, <1>3, DatagramParts
  <1>5. S = {} \/ (prog.replies /\ S = {d.from})
    BY <1>1 DEF ReplyTo
  <1>6. prog.replies =>
          /\ pc[d.from] = "waiting" /\ inbox[d.from] = <<>> /\ d.n = i[d.from]
          /\ d = [from |-> d.from, n |-> i[d.from]]
          /\ \A q \in Recv : \A j \in 1 .. Len(inbox[q]) :
                inbox[q][j].from = d.from => q = r /\ j = 1
    <2>1. d = [from |-> d.from, n |-> d.n]
      BY <1>3 DEF Datagram
    <2> QED
      BY <1>3, <2>1 DEF IInv, Requests
  <1>7. /\ inbox'[r] = tail
        /\ \A p \in Proc : p # r /\ p \notin S => inbox'[p] = inbox[p]
        /\ \A q \in Recv : q # r => inbox'[q] = inbox[q]
        /\ \A p \in S : inbox'[p] = <<d>> /\ p = d.from /\ p \in Proc
    <2>1. \A p \in Proc : p # r /\ p \notin S => inbox'[p] = inbox[p]
      BY <1>1
    <2>2. inbox'[r] = tail
      <3>1. r \in Proc /\ r \notin S
        BY <1>4, <1>5, Disjoint
      <3> QED
        BY <1>1, <3>1
    <2>3. \A q \in Recv : q \in Proc /\ q \notin S
      BY <1>4, <1>5, Disjoint
    <2>4. ASSUME NEW p \in S PROVE inbox'[p] = <<d>> /\ p = d.from /\ p \in Proc
      <3>1. p = d.from /\ p \in Proc /\ p # r /\ inbox[p] = <<>>
        BY <1>4, <1>5, <1>6
      <3>2. inbox'[p] = Append(inbox[p], d)
        BY <1>1, <3>1
      <3> QED
        BY <3>1, <3>2
    <2> QED
      BY <2>1, <2>2, <2>3, <2>4
  <1>8. /\ \A p \in Proc : p # r => i'[p] = i[p] /\ seen'[p] = seen[p]
        /\ i'[r] = i[r] + 1 /\ seen'[r] = Append(seen[r], d)
        /\ Len(seen'[r]) = Len(seen[r]) + 1
    <2>1. Len(Append(seen[r], d)) = Len(seen[r]) + 1
      BY <1>2, <1>3, AppendParts
    <2> QED
      BY <1>0, <2>1 DEF TypeOK
  <1>9. i' \in [Proc -> Nat] /\ \A p \in Proc : i[p] <= i'[p]
    BY <1>0, <1>2, <1>8
  <1>10. TypeOK'
    <2>1. i[r] + 1 \in 0 .. Loop
      BY <1>0, Typed
    <2>2. Append(seen[r], d) \in Seq(Datagram)
      BY <1>2, <1>3, AppendParts
    <2>3. ASSUME NEW p \in Proc PROVE inbox'[p] \in Seq(Datagram)
      <3>1. <<d>> \in Seq(Datagram)
        BY <1>3
      <3>2. CASE p \in S
        BY <1>7, <3>1, <3>2
      <3>3. CASE p \notin S
        BY <1>2, <1>3, <1>7, <3>3
      <3> QED
        BY <3>2, <3>3
    <2>4. inbox' \in [Proc -> Seq(Datagram)]
      <3>1. inbox' = [p \in Proc |-> inbox'[p]]
        BY <1>1
      <3> QED
        BY <2>3, <3>1
    <2>5. lost' \in BOOLEAN
      BY <1>1
    <2> QED
      BY <1>0, <2>1, <2>2, <2>4, <2>5 DEF TypeOK
  <1>11. DescriptorsReturned'
    BY <1>0 DEF IInv, DescriptorsReturned
  <1>12. MainAt'
    BY <1>0 DEF IInv, MainAt
  <1>13. Locations'
    <2>1. ASSUME NEW p \in Proc, inbox'[p] # <<>>
          PROVE  pc[p] = IF p \in Recv THEN "ready" ELSE "waiting"
      <3>1. CASE p = r
        BY <1>0, <3>1
      <3>2. CASE p \in S
        BY <1>4, <1>5, <1>6, <3>2, Disjoint
      <3>3. CASE p # r /\ p \notin S
        BY <1>7, <2>1, <3>3 DEF IInv, Locations
      <3> QED
        BY <3>1, <3>2, <3>3
    <2> QED
      BY <1>0, <1>8, <2>1 DEF IInv, Locations
  <1>14. /\ Increasing(seen'[r]) /\ Increasing(inbox'[r]) /\ Before(seen'[r], inbox'[r])
         /\ UpTo(seen'[r], i) /\ UpTo(inbox'[r], i)
    <2>1. /\ Increasing(seen[r]) /\ Increasing(inbox[r]) /\ Before(seen[r], inbox[r])
          /\ UpTo(seen[r], i) /\ UpTo(inbox[r], i)
      BY DEF IInv, ResponsesMatch, Streams
    <2> QED
      BY <1>0, <1>2, <1>7, <1>8, <2>1, StreamRead
  <1>15. ResponsesMatch'
    <2>1. \A t \in Send : \A k \in 1 .. Len(seen'[t]) : seen'[t][k] = [from |-> t, n |-> k]
      <3>1. \A t \in Send : seen'[t] = seen[t]
        BY <1>0, <1>8, Disjoint
      <3> QED
        BY <3>1 DEF IInv, ResponsesMatch
    <2>2. \A q \in Recv : Increasing(seen'[q])
      BY <1>8, <1>14, Disjoint DEF IInv, ResponsesMatch
    <2> QED
      BY <2>1, <2>2 DEF ResponsesMatch, Increasing
  <1>16. Streams'
    <2>1. ASSUME NEW q \in Recv
          PROVE  /\ Len(seen'[q]) = i'[q]
                 /\ Increasing(inbox'[q]) /\ Before(seen'[q], inbox'[q])
                 /\ UpTo(seen'[q], i') /\ UpTo(inbox'[q], i')
      <3>1. /\ Len(seen'[q]) = i'[q] /\ Increasing(inbox'[q]) /\ Before(seen'[q], inbox'[q])
            /\ UpTo(seen'[q], i) /\ UpTo(inbox'[q], i)
        <4>1. CASE q = r
          BY <1>8, <1>14, <4>1 DEF IInv, Streams
        <4>2. CASE q # r
          BY <1>7, <1>8, <4>2, Disjoint DEF IInv, Streams
        <4> QED
          BY <4>1, <4>2
      <3>2. seen'[q] \in Seq(Datagram) /\ inbox'[q] \in Seq(Datagram)
        BY <1>10, Disjoint DEF TypeOK
      <3> QED
        BY <1>2, <1>9, <3>1, <3>2, UpToMore
    <2> QED
      BY <2>1 DEF Streams, Increasing, Before, UpTo
  <1>17. Requests'
    <2>1. ASSUME NEW t \in Send
          PROVE  /\ inbox'[t] # <<>> => inbox'[t] = <<[from |-> t, n |-> i'[t]]>>
                 /\ pc[t] = "waiting" => Len(seen'[t]) + 1 = i'[t]
                 /\ pc[t] # "waiting" => Len(seen'[t]) = IF prog.replies THEN i'[t] ELSE 0
      <3>1. t \in Proc /\ t # r /\ seen'[t] = seen[t] /\ i'[t] = i[t]
        BY <1>0, <1>8, Disjoint
      <3>2. inbox'[t] # <<>> => inbox'[t] = <<[from |-> t, n |-> i[t]]>>
        <4>1. CASE t \in S
          BY <1>5, <1>6, <1>7, <4>1
        <4>2. CASE t \notin S
          BY <1>7, <3>1, <4>2 DEF IInv, Requests
        <4> QED
          BY <4>1, <4>2
      <3> QED
        BY <3>1, <3>2 DEF IInv, Requests
    <2>2. ASSUME NEW q \in Recv, NEW j \in 1 .. Len(inbox'[q])
          PROVE  \E m \in 1 .. Len(inbox[q]) :
                    /\ m = IF q = r THEN j + 1 ELSE j
                    /\ inbox'[q][j] = inbox[q][m] /\ ~(q = r /\ m = 1)
      <3>1. CASE q = r
        <4>1. j + 1 \in 1 .. Len(inbox[q]) /\ inbox'[q][j] = inbox[q][j + 1] /\ j + 1 # 1
          <5>1. j \in 1 .. Len(tail) /\ inbox'[q] = tail
            BY <1>7, <2>2, <3>1
          <5>2. j + 1 # 1
            BY <5>1
          <5> QED
            BY <1>3, <3>1, <5>1, <5>2
        <4> QED
          BY <3>1, <4>1
      <3>2. CASE q # r
        BY <1>7, <2>2, <3>2
      <3> QED
        BY <3>1, <3>2
    <2>3. ASSUME prog.replies, NEW q \in Recv, NEW k \in 1 .. Len(inbox'[q])
          PROVE  LET t == inbox'[q][k].from
                 IN  /\ pc[t] = "waiting" /\ inbox'[t] = <<>> /\ inbox'[q][k].n = i'[t]
                     /\ \A x \in Recv : \A j \in 1 .. Len(inbox'[x]) :
                           inbox'[x][j].from = t => x = q /\ j = k
      <3>1. PICK m \in 1 .. Len(inbox[q]) :
              /\ m = IF q = r THEN k + 1 ELSE k
              /\ inbox'[q][k] = inbox[q][m] /\ ~(q = r /\ m = 1)
        BY <2>2, <2>3
      <3> PICK t : t = inbox[q][m].from
        OBVIOUS
      <3>2. /\ pc[t] = "waiting" /\ inbox[t] = <<>> /\ inbox[q][m].n = i[t]
            /\ \A x \in Recv : \A j \in 1 .. Len(inbox[x]) :
                  inbox[x][j].from = t => x = q /\ j = m
        BY <2>3 DEF IInv, Requests
      <3>3. t # d.from
        BY <1>6, <2>3, <3>1
      <3>4. t \in Send /\ t \in Proc /\ t # r /\ t \notin S
        <4>1. q \in Proc /\ inbox[q] \in Seq(Datagram)
          BY <1>2, Disjoint
        <4>2. t \in Send
          BY <4>1, QueueParts
        <4> QED
          BY <1>0, <1>7, <3>3, <4>2, Disjoint
      <3>5. pc[t] = "waiting" /\ inbox'[t] = <<>> /\ inbox'[q][k].n = i'[t]
        BY <1>7, <1>8, <3>1, <3>2, <3>4
      <3>6. ASSUME NEW x \in Recv, NEW j \in 1 .. Len(inbox'[x]), inbox'[x][j].from = t
            PROVE  x = q /\ j = k
        <4>1. PICK n \in 1 .. Len(inbox[x]) :
                n = (IF x = r THEN j + 1 ELSE j) /\ inbox'[x][j] = inbox[x][n]
          BY <2>2, <3>6
        <4>2. x = q /\ n = m
          BY <3>2, <3>6, <4>1
        <4>3. j \in Int /\ k \in Int
          OBVIOUS
        <4> QED
          BY <3>1, <4>1, <4>2, <4>3
      <3>7. inbox'[q][k].from = t
        BY <3>1
      <3> QED
        BY <3>5, <3>6, <3>7
    <2> QED
      BY <1>0, <2>1, <2>3 DEF Requests
  <1>18. Reached'
    <2> SUFFICES ASSUME ~lost' PROVE Reached'
      BY DEF Reached
    <2>1. ~lost /\ (prog.replies => S # {})
      BY <1>1
    <2>2. ASSUME NEW q \in Recv, NEW t, NEW n, Holds(inbox[q], t, n)
          PROVE  Holds(inbox'[q], t, n) \/ (q = r /\ d = [from |-> t, n |-> n])
      <3>1. CASE q = r
        BY <1>0, <1>2, <1>7, <2>2, <3>1, HoldsRead
      <3>2. CASE q # r
        BY <1>7, <2>2, <3>2
      <3> QED
        BY <3>1, <3>2
    <2>3. \A q \in Recv : \A t, n : Holds(seen[q], t, n) => Holds(seen'[q], t, n)
      <3> SUFFICES ASSUME NEW q \in Recv, NEW t, NEW n, Holds(seen[q], t, n)
                   PROVE  Holds(seen'[q], t, n)
        OBVIOUS
      <3>1. CASE q = r
        BY <1>2, <1>3, <1>8, <3>1, HoldsAppend
      <3>2. CASE q # r
        BY <1>8, <3>2, Disjoint
      <3> QED
        BY <3>1, <3>2
    <2>4. Holds(seen'[r], d.from, d.n)
      BY <1>2, <1>3, <1>8, HoldsAppend
    <2>5. ASSUME ~prog.broadcast, NEW t \in Send, NEW n \in 1 .. i'[t]
          PROVE  \E q \in Recv : Holds(seen'[q], t, n) \/ Holds(inbox'[q], t, n)
      <3>1. i'[t] = i[t]
        BY <1>0, <1>8, Disjoint
      <3>2. PICK q \in Recv : Holds(seen[q], t, n) \/ Holds(inbox[q], t, n)
        BY <2>1, <2>5, <3>1 DEF IInv, Reached
      <3>3. d = [from |-> t, n |-> n] => Holds(seen'[r], t, n)
        BY <2>4
      <3> QED
        BY <2>2, <2>3, <3>2, <3>3
    <2>6. ASSUME prog.broadcast, NEW q \in Recv, pc[q] \notin {"done", "failed"}
          PROVE  i'[q] + Len(inbox'[q]) = i'[Server]
      <3>1. i[q] + Len(inbox[q]) = i[Server] /\ i'[Server] = i[Server]
        BY <1>0, <1>8, <2>1, <2>6, ServerSends DEF IInv, Reached
      <3>2. CASE q = r
        <4>1. /\ i'[r] = i[r] + 1 /\ Len(inbox'[r]) = Len(inbox[r]) - 1
              /\ i[r] \in Nat /\ Len(inbox[r]) \in Nat
          BY <1>0, <1>2, <1>3, <1>7, <1>8
        <4>2. (i[r] + 1) + (Len(inbox[r]) - 1) = i[r] + Len(inbox[r])
          BY <4>1
        <4> QED
          BY <3>1, <3>2, <4>1, <4>2
      <3>3. CASE q # r
        BY <1>7, <1>8, <3>1, <3>3, Disjoint
      <3> QED
        BY <3>2, <3>3
    <2>7. ASSUME NEW t \in Send, pc[t] = "waiting"
          PROVE  inbox'[t] # <<>> \/ \E q \in Recv : Holds(inbox'[q], t, i'[t])
      <3>1. t \in Proc /\ t # r /\ i'[t] = i[t]
        BY <1>0, <1>8, Disjoint
      <3>2. prog.replies /\ S = {d.from}
        <4>1. prog.replies
          BY <2>7, <3>1 DEF IInv, Locations
        <4> QED
          BY <1>5, <2>1, <4>1
      <3>3. CASE t = d.from
        <4>1. inbox'[t] = <<d>>
          BY <1>7, <3>2, <3>3
        <4> QED
          BY <4>1
      <3>4. CASE t # d.from
        <4>1. inbox'[t] = inbox[t]
          BY <1>7, <3>1, <3>2, <3>4
        <4>2. CASE inbox[t] # <<>>
          BY <4>1, <4>2
        <4>3. CASE \E q \in Recv : Holds(inbox[q], t, i[t])
          <5>1. d # [from |-> t, n |-> i[t]]
            BY <3>4
          <5> QED
            BY <2>2, <3>1, <4>3, <5>1
        <4> QED
          BY <2>1, <2>7, <4>2, <4>3 DEF IInv, Reached
      <3> QED
        BY <3>3, <3>4
    <2> QED
      BY <1>0, <2>5, <2>6, <2>7 DEF Reached, Holds
  <1> QED
    BY <1>10, <1>11, <1>12, <1>13, <1>15, <1>16, <1>17, <1>18 DEF IInv

-----------------------------------------------------------------------------
(* IInv is inductive. *)
LEMMA NextIInv == IInv /\ [Next]_vars => IInv'
  <1> SUFFICES ASSUME IInv, [Next]_vars PROVE IInv'
    OBVIOUS
  <1>1. ASSUME NEW p \in Proc, Begin(p) PROVE IInv'
    BY <1>1, BeginPreserves
  <1>2. ASSUME NEW p \in Proc, Usage(p) PROVE IInv'
    BY <1>2, UsagePreserves
  <1>3. CASE SpawnReceivers
    BY <1>3, SpawnReceiversPreserves
  <1>4. CASE SpawnSender
    BY <1>4, SpawnSenderPreserves
  <1>5. CASE Join
    BY <1>5, JoinPreserves
  <1>6. ASSUME NEW p \in Proc, Make(p) PROVE IInv'
    BY <1>6, MakePreserves
  <1>7. ASSUME NEW r \in Recv, Bind(r) PROVE IInv'
    BY <1>7, BindPreserves
  <1>8. ASSUME NEW p \in Proc, SetupFails(p) PROVE IInv'
    BY <1>8, DiePreserves DEF SetupFails
  <1>9. ASSUME NEW p \in Proc, IOFails(p) PROVE IInv'
    BY <1>9, DiePreserves DEF IOFails
  <1>10. ASSUME NEW s \in Send, SendOne(s) PROVE IInv'
    BY <1>10, SendOnePreserves
  <1>11. ASSUME NEW s \in Send, Answered(s) PROVE IInv'
    BY <1>11, AnsweredPreserves
  <1>12. ASSUME NEW r \in Recv, ReceiveOne(r) PROVE IInv'
    BY <1>12, ReceiveOnePreserves
  <1>13. ASSUME NEW p \in Proc, Finish(p) PROVE IInv'
    BY <1>13, FinishPreserves
  <1>14. CASE UNCHANGED vars
    BY <1>14, StutterPreserves
  <1> QED
    BY <1>1, <1>2, <1>3, <1>4, <1>5, <1>6, <1>7, <1>8, <1>9, <1>10, <1>11, <1>12, <1>13,
       <1>14 DEF Next

(* The inductive invariant holds in every state of every run of the four   *)
(* programs.                                                               *)
THEOREM Invariance == Spec => []IInv
  <1> QED
    BY InitIInv, NextIInv, PTL DEF Spec

(* Every variable keeps its type, for any number of processes and turns.   *)
THEOREM TypeCorrect == Spec => []TypeOK
  <1>1. IInv => TypeOK
    BY DEF IInv
  <1> QED
    BY <1>1, Invariance, PTL

(* Each process or thread has its one descriptor while it uses its socket  *)
(* and gives it back whichever way it ends, but for the one get_host_ip()  *)
(* may leave.                                                              *)
THEOREM NoDescriptorLeft == Spec => []DescriptorsReturned
  <1>1. IInv => DescriptorsReturned
    BY DEF IInv
  <1> QED
    BY <1>1, Invariance, PTL

(* An rr client's k-th response answers its k-th request, and a receiver   *)
(* is given each sender's messages once and in order, however many clients *)
(* and servers there are and whatever is lost.                             *)
THEOREM ResponsesRight == Spec => []ResponsesMatch
  <1>1. IInv => ResponsesMatch
    BY DEF IInv
  <1> QED
    BY <1>1, Invariance, PTL

-----------------------------------------------------------------------------
(* Who waits for ever. *)

(* If all that D's senders sent has been received by R's receivers, none   *)
(* of which takes more than Loop and one of which has taken less, then     *)
(* there are fewer senders than receivers: no two datagrams are in one     *)
(* place.                                                                  *)
LEMMA FewerSenders ==
  ASSUME NEW D, IsFiniteSet(D), NEW R, IsFiniteSet(R), NEW got,
         \A r \in R : Len(got[r]) \in Nat /\ Len(got[r]) <= Loop,
         \A s \in D : \A n \in 1 .. Loop : \E r \in R : Holds(got[r], s, n),
         NEW w \in R, Len(got[w]) < Loop
  PROVE  Cardinality(D) < Cardinality(R)
  <1> DEFINE A == D \X (1 .. Loop)
             P == R \X (1 .. Loop)
             B == P \ {<<w, Loop>>}
             At(x, y) == got[y[1]][y[2]] = [from |-> x[1], n |-> x[2]]
             f == [x \in A |-> CHOOSE y \in B : At(x, y)]
  <1>1. Loop \in Nat \ {0}
    BY ExampleAssumption
  <1>2. ASSUME NEW x \in A PROVE \E y \in B : At(x, y)
    <2>1. x[1] \in D /\ x[2] \in 1 .. Loop
      OBVIOUS
    <2>2. PICK r \in R : Holds(got[r], x[1], x[2])
      BY <2>1
    <2>3. PICK k \in 1 .. Len(got[r]) : got[r][k] = [from |-> x[1], n |-> x[2]]
      BY <2>2 DEF Holds
    <2>4. k \in 1 .. Loop /\ ~(r = w /\ k = Loop)
      BY <1>1, <2>3
    <2>5. <<r, k>> \in P /\ <<r, k>> # <<w, Loop>>
      BY <2>2, <2>4
    <2>6. At(x, <<r, k>>)
      BY <2>3
    <2> QED
      BY <2>5, <2>6
  <1>3. \A x \in A : f[x] \in B /\ At(x, f[x])
    <2> HIDE DEF A, B, At
    <2> QED
      BY <1>2
  <1>4. f \in [A -> B]
    BY <1>3
  <1>5. \A x, y \in A : f[x] = f[y] => x = y
    <2> SUFFICES ASSUME NEW x \in A, NEW y \in A, f[x] = f[y] PROVE x = y
      OBVIOUS
    <2>1. At(x, f[x]) /\ At(y, f[x])
      BY <1>3
    <2> HIDE DEF f
    <2>2. [from |-> x[1], n |-> x[2]] = [from |-> y[1], n |-> y[2]]
      BY <2>1
    <2>3. x[1] = y[1] /\ x[2] = y[2]
      BY <2>2
    <2>4. x = <<x[1], x[2]>> /\ y = <<y[1], y[2]>>
      OBVIOUS
    <2> QED
      BY <2>3, <2>4
  <1>6. /\ IsFiniteSet(1 .. Loop) /\ Cardinality(1 .. Loop) = Loop
    BY <1>1, FS_Interval
  <1>7. IsFiniteSet(A) /\ Cardinality(A) = Cardinality(D) * Loop
    BY <1>6, FS_Product
  <1>8. IsFiniteSet(P) /\ Cardinality(P) = Cardinality(R) * Loop
    BY <1>6, FS_Product
  <1>9. <<w, Loop>> \in P
    BY <1>1
  <1>10. IsFiniteSet(B) /\ Cardinality(B) = Cardinality(P) - 1
    <2> HIDE DEF P
    <2> QED
      BY <1>8, <1>9, FS_RemoveElement
  <1>11. Cardinality(D) \in Nat /\ Cardinality(R) \in Nat
    BY FS_CardinalityType
  <1> HIDE DEF A, B, P, f
  <1>12. ~(Cardinality(B) < Cardinality(A))
    BY <1>4, <1>5, <1>7, <1>10, FS_PigeonHole
  <1>13. Cardinality(D) * Loop < Cardinality(R) * Loop
    BY <1>1, <1>7, <1>8, <1>10, <1>11, <1>12
  <1>14. ASSUME NEW a \in Nat, NEW b \in Nat, a * Loop < b * Loop PROVE a < b
    <2> SUFFICES ASSUME b <= a PROVE FALSE
      OBVIOUS
    <2>1. PICK c \in Nat : a = b + c
      <3>1. a - b \in Nat /\ a = b + (a - b)
        OBVIOUS
      <3> QED
        BY <3>1
    <2>2. a * Loop = b * Loop + c * Loop
      BY <1>1, <2>1
    <2>3. c * Loop >= 0 /\ c * Loop \in Int /\ b * Loop \in Int
      BY <1>1
    <2> QED
      BY <1>14, <2>2, <2>3
  <1> QED
    BY <1>11, <1>13, <1>14

(* As long as nothing is lost a client that waits is not blocked for good: *)
(* its request is in a queue that is read, or the answer in its own.       *)
LEMMA ClientsGoOn ==
  ASSUME IInv, ~lost, \A p \in Proc : Blocked(p) \/ Idle(p)
  PROVE  (\A s \in Send : ~Blocked(s)) /\ \A r \in Recv : inbox[r] = <<>>
  <1>1. ASSUME NEW r \in Recv PROVE inbox[r] = <<>>
    BY Disjoint DEF IInv, Locations, Blocked, Idle
  <1>2. ASSUME NEW s \in Send, Blocked(s) PROVE FALSE
    <2>1. pc[s] = "waiting" /\ inbox[s] = <<>>
      BY <1>2, Disjoint DEF Blocked
    <2>2. PICK r \in Recv : Holds(inbox[r], s, i[s])
      BY <2>1 DEF IInv, Reached
    <2>3. Len(inbox[r]) = 0
      BY <1>1
    <2> QED
      BY <2>2, <2>3 DEF Holds
  <1> QED
    BY <1>1, <1>2

(* A broadcast reaches everyone, so that nobody waits once all was sent.   *)
LEMMA BroadcastEnds ==
  ASSUME IInv, ~lost, prog.broadcast, \A p \in Proc : Blocked(p) \/ Idle(p), NEW r \in Recv,
         Blocked(r)
  PROVE  FALSE
  <1>1. prog.threads /\ TypeOK /\ Loop \in Nat
    BY Typed, ProgramFacts DEF IInv
  <1>2. pc[r] = "ready" /\ i[r] < Loop /\ inbox[r] = <<>> /\ r \in Proc /\ r \in Threads
    BY <1>1, Disjoint DEF Blocked, IInv, Locations, Threads
  <1>3. i[r] = i[Server]
    <2>1. i[r] + Len(inbox[r]) = i[Server]
      BY <1>2 DEF IInv, Reached
    <2> QED
      BY <1>1, <1>2, <2>1, Typed
  <1>4. pc[Server] \in {"off", "done", "failed", "usage"} /\ (pc[Server] = "off" => main = "join")
    <2>1. ~Blocked(Server)
      BY ClientsGoOn, ServerSends
    <2> QED
      BY <1>1, <2>1, ServerSends DEF Idle
  <1>5. pc[Server] # "off" /\ pc[Server] # "usage"
    BY <1>1, <1>4, ServerSends DEF IInv, MainAt
  <1>6. pc[Server] # "failed"
    BY <1>1, <1>2, ServerSends DEF IInv, MainAt
  <1>7. pc[Server] # "done"
    BY <1>1, <1>2, <1>3, ServerSends, Typed DEF IInv, Locations
  <1> QED
    BY <1>4, <1>5, <1>6, <1>7

LEMMA HangsOnly == IInv => HangMeansLoss
  <1> DEFINE D == {s \in Send : pc[s] = "done"}
             R == {r \in Recv : pc[r] \in {"ready", "done", "failed"}}
  <1> SUFFICES ASSUME IInv, \A p \in Proc : Blocked(p) \/ Idle(p),
                      \E p \in Proc : Blocked(p), ~lost
               PROVE  /\ ~prog.broadcast
                      /\ \E r \in Recv : Blocked(r)
                      /\ Cardinality(D) < Cardinality(R)
    BY DEF HangMeansLoss
  <1>1. (\A s \in Send : ~Blocked(s)) /\ \A r \in Recv : inbox[r] = <<>>
    BY ClientsGoOn
  <1>2. PICK w \in Recv : Blocked(w)
    BY <1>1 DEF Proc
  <1>3. ~prog.broadcast
    BY <1>2, BroadcastEnds
  <1>4. TypeOK /\ Loop \in Nat \ {0}
    BY Typed DEF IInv
  <1>5. \A r \in Recv : Len(seen[r]) \in Nat /\ Len(seen[r]) <= Loop /\ Len(seen[r]) = i[r]
    BY <1>4, Typed, Disjoint DEF IInv, Streams
  <1>6. w \in R /\ Len(seen[w]) < Loop
    BY <1>2, <1>5, Disjoint DEF Blocked, IInv, Locations
  <1>7. ASSUME NEW s \in D, NEW n \in 1 .. Loop PROVE \E r \in R : Holds(seen[r], s, n)
    <2>1. s \in Send /\ i[s] = Loop
      BY Disjoint DEF IInv, Locations
    <2>2. PICK r \in Recv : Holds(seen[r], s, n) \/ Holds(inbox[r], s, n)
      BY <1>3, <2>1 DEF IInv, Reached
    <2>3. Len(inbox[r]) = 0
      BY <1>1
    <2>4. Holds(seen[r], s, n)
      BY <2>2, <2>3 DEF Holds
    <2>5. i[r] # 0
      <3>1. Len(seen[r]) # 0
        BY <2>4 DEF Holds
      <3> QED
        BY <1>5, <3>1
    <2>6. pc[r] \notin {"off", "main", "made", "usage", "waiting"}
      BY <2>5, Disjoint DEF IInv, Locations
    <2>7. pc[r] \in Location
      BY <1>4, Typed, Disjoint
    <2>8. r \in R
      BY <2>6, <2>7 DEF Location
    <2> QED
      BY <2>4, <2>8
  <1>8. IsFiniteSet(D) /\ IsFiniteSet(R)
    BY ExampleAssumption, FS_Subset
  <1>9. \A r \in R : Len(seen[r]) \in Nat /\ Len(seen[r]) <= Loop
    BY <1>5
  <1>10. Cardinality(D) < Cardinality(R)
    <2> HIDE DEF D, R
    <2> QED
      BY <1>6, <1>7, <1>8, <1>9, FewerSenders
  <1> QED
    BY <1>2, <1>3, <1>10

(* The programs have no timeout.  If they hang, a datagram was lost or, in *)
(* rr, ps and simple, more receivers were started than senders got         *)
(* through: for any number of either.                                      *)
THEOREM HangExplained == Spec => []HangMeansLoss
  <1> QED
    BY HangsOnly, Invariance, PTL
=============================================================================
