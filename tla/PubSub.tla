-------------------------------- MODULE PubSub --------------------------------
(***************************************************************************)
(* Publisher<SOCKET> and Subscriber<SOCKET> (pub_sub.hpp): one publisher   *)
(* and several subscribers, each with a thread that calls once() again and *)
(* again, over SocketUDP or SocketUnix.                                    *)
(*                                                                         *)
(* A message is known by its number in log.  publish() is one step per     *)
(* address, once() one step per callback, since other threads run between  *)
(* them.                                                                   *)
(***************************************************************************)
EXTENDS Primitives, FiniteSets

CONSTANTS Sub,         \* subscribers, each with an address of its own
          SockKinds,   \* the template parameters: a subset of {"UDP", "Unix"}
          Data,        \* messages published
          DataSize,    \* data_size of the subscribers
          Nets,        \* what UDP may keep to: records [ordered, once]
          QLen,        \* datagrams the kernel queues for a socket
          MaxAddrs,    \* bound on register_addr() calls
          MaxPublish,  \* bound on publish() calls
          MaxInbox,    \* bound on the datagrams the network repeats
          MaxCallbacks \* bound on the callbacks of each subscriber

Message == Seq(0 .. 255)

(* ordered: datagrams do not overtake one another; once: none arrives more *)
(* often than it was sent.  Unix sockets guarantee both, UDP may neither.  *)
NetKind == [ordered : BOOLEAN, once : BOOLEAN]
Reliable == [ordered |-> TRUE, once |-> TRUE]

ASSUME SubKindAssumption == SockKinds \subseteq {"UDP", "Unix"}
ASSUME DataAssumption == Data \subseteq Message /\ DataSize \in Nat \ {0}
ASSUME LimitAssumption ==
    /\ QLen \in Nat \ {0} /\ MaxAddrs \in Nat
    /\ MaxPublish \in Nat /\ MaxCallbacks \in [Sub -> Nat] /\ MaxInbox \in Nat
ASSUME NetAssumption == Nets \subseteq NetKind

VARIABLES
    kind,    \* the socket class everybody uses
    net,     \* what the sockets and the network below them guarantee
    addrs,   \* Seq(Sub): the member clientaddrs
    log,     \* Seq(Data): messages published; the last one may be on its way
    pos,     \* 0, or the index in addrs of publish()'s next sendto()
    state,   \* [Sub -> {"down", "up", "threw"}]
    inbox,   \* [Sub -> Seq(Nat)]: datagrams the socket has accepted
    taken,   \* [Sub -> Nat]: how many of them recv() has returned
    calls,   \* [Sub -> Seq(record)]: the member callbacks; for each one, as
             \* history, the messages it was called with and how many had
             \* been received when it was registered
    next,    \* [Sub -> Nat]: 0, or the index of once()'s next callback
    from     \* [Sub -> Nat], history: the first message published after the
             \* subscriber was both bound and registered, 0 while it is not

vars == <<kind, net, addrs, log, pos, state, inbox, taken, calls, next, from>>
pubVars == <<net, addrs, log, pos>>
subVars == <<state, inbox, taken, calls, next>>

(* The type invariant: every variable has the form its comment gives.      *)
TypeOK ==
    /\ kind \in SockKinds
    /\ net \in NetKind /\ (kind = "Unix" => net = Reliable)
    /\ addrs \in Seq(Sub) /\ Len(addrs) <= MaxAddrs
    /\ log \in Seq(Data)
    /\ pos \in 0 .. Len(addrs)
    /\ state \in [Sub -> {"down", "up", "threw"}]
    /\ inbox \in [Sub -> Seq(1 .. Len(log))]
    /\ taken \in [Sub -> Nat]
    /\ \A s \in Sub : taken[s] <= Len(inbox[s])
    /\ calls \in [Sub -> Seq([since : Nat, seen : Seq(1 .. Len(log))])]
    /\ next \in [Sub -> Nat]
    /\ \A s \in Sub : next[s] <= Len(calls[s])
    /\ from \in [Sub -> 0 .. Len(log) + 1]

Init ==
    /\ kind \in SockKinds
    /\ net \in IF kind = "Unix" THEN {Reliable} ELSE Nets
    /\ addrs = <<>>
    /\ log = <<>>
    /\ pos = 0
    /\ state = [s \in Sub |-> "down"]
    /\ inbox = [s \in Sub |-> <<>>]
    /\ taken = [s \in Sub |-> 0]
    /\ calls = [s \in Sub |-> <<>>]
    /\ next = [s \in Sub |-> 0]
    /\ from = [s \in Sub |-> 0]

Registered(s) == \E i \in 1 .. Len(addrs) : addrs[i] = s

(* Datagrams waiting in the kernel for s.                                  *)
Waiting(s) == Len(inbox[s]) - taken[s]

(* The next message that publish() sends to s from its beginning on.       *)
NextMessage == Len(log) + 1

-----------------------------------------------------------------------------
(* The publisher.                                                          *)

(* register_addr(c) appends, whether or not c is there already.            *)
register_addr(s) ==
    /\ pos = 0
    /\ Len(addrs) < MaxAddrs
    /\ addrs' = Append(addrs, s)
    /\ from' = [from EXCEPT ![s] =
          IF @ = 0 /\ state[s] = "up" THEN NextMessage ELSE @]
    /\ UNCHANGED <<kind, net, log, pos, subVars>>

(* publish(data) begins its loop over clientaddrs.                         *)
publish(data) ==
    /\ pos = 0
    /\ Len(log) < MaxPublish
    /\ log' = Append(log, data)
    /\ pos' = IF addrs = <<>> THEN 0 ELSE 1
    /\ UNCHANGED <<kind, net, addrs, subVars, from>>

(* Where the loop goes after address i.                                    *)
After(i) == IF i < Len(addrs) THEN i + 1 ELSE 0

(* What ::sendto does with a datagram for s (external): it is queued, or a *)
(* Unix socket refuses it (-1) when nobody is bound to the path, or UDP    *)
(* drops it, when nobody is there, the queue is full or the network loses  *)
(* it.  On a Unix socket with a full queue the call blocks: the publisher  *)
(* neither sets its socket non-blocking nor handles signals.               *)
Queues(s) ==
    /\ state[s] = "up"
    /\ Waiting(s) < QLen

Refused(s) == kind = "Unix" /\ state[s] # "up"

DropsSilently(s) == kind = "UDP"

\* Mutant: a message is put in front of those that wait.
MutOvertake(s) ==
    SubSeq(inbox[s], 1, taken[s]) \o <<Len(log)>>
        \o SubSeq(inbox[s], taken[s] + 1, Len(inbox[s]))

(* A datagram joins the end of the queue; Overtake and Repeat are what the *)
(* network may do to it from there.                                        *)
Enqueued(s) == Append(inbox[s], Len(log))

\* Mutant: a failed sendto() ends publish().
MutStopAtFailure(i) == 0

\* Mutant: a failed sendto() is tried again.
MutRetry(i) == i

\* Mutant: after a failed sendto() publish() begins again with the first address.
MutStartOver(i) == 1

(* Where the loop goes when ::sendto has failed for address i: guard() lets *)
(* every result pass.                                                      *)
AfterFailure(i) == IF SendtoThrows(Len(log[Len(log)]), SOCKET_ERR) THEN 0 ELSE After(i)

(* sendto(data, addr).                                                     *)
sendto(s) ==
    \/ /\ Queues(s)
       /\ inbox' = [inbox EXCEPT ![s] = Enqueued(s)]
       /\ pos' = After(pos)
    \/ /\ Refused(s)
       /\ pos' = AfterFailure(pos)
       /\ UNCHANGED inbox
    \/ /\ DropsSilently(s)
       /\ pos' = After(pos)
       /\ UNCHANGED inbox

publishNext ==
    /\ pos > 0
    /\ sendto(addrs[pos])
    /\ UNCHANGED <<kind, net, addrs, log, state, taken, calls, next, from>>

-----------------------------------------------------------------------------
(* The network below UDP (external).  inbox holds what has reached the     *)
(* subscriber's socket or is still on its way to it.                       *)

(* Of two datagrams that nobody has received, the later one arrives first. *)
Overtake(s) ==
    /\ kind = "UDP" /\ ~net.ordered
    /\ state[s] = "up"
    /\ \E i \in taken[s] + 1 .. Len(inbox[s]) - 1 :
        inbox' = [inbox EXCEPT ![s] =
            [@ EXCEPT ![i] = inbox[s][i + 1], ![i + 1] = inbox[s][i]]]
    /\ UNCHANGED <<kind, pubVars, state, taken, calls, next, from>>

(* A datagram arrives once more, perhaps after it was received.            *)
Repeat(s) ==
    /\ kind = "UDP" /\ ~net.once
    /\ Queues(s)
    /\ Len(inbox[s]) < MaxInbox
    /\ \E i \in 1 .. Len(inbox[s]) :
        /\ net.ordered => i = Len(inbox[s])
        /\ inbox' = [inbox EXCEPT ![s] = Append(@, inbox[s][i])]
    /\ UNCHANGED <<kind, pubVars, state, taken, calls, next, from>>

-----------------------------------------------------------------------------
(* The subscribers.                                                        *)

(* A subscriber process starts and binds its address.                      *)
Start(s) ==
    /\ state[s] = "down"
    /\ state' = [state EXCEPT ![s] = "up"]
    /\ from' = [from EXCEPT ![s] = IF Registered(s) THEN NextMessage ELSE 0]
    /\ UNCHANGED <<kind, pubVars, inbox, taken, calls, next>>

(* What a successor of s may still be given: the last of the datagrams for *)
(* s may be on the network yet.                                            *)
Leftover(s) ==
    IF kind = "Unix" THEN {<<>>}
    ELSE {SubSeq(inbox[s], k, Len(inbox[s])) : k \in taken[s] + 1 .. Len(inbox[s]) + 1}

(* It ends, or dies anywhere, with what was queued for it.                 *)
Stop(s) ==
    /\ state[s] # "down"
    /\ state' = [state EXCEPT ![s] = "down"]
    /\ \E q \in Leftover(s) : inbox' = [inbox EXCEPT ![s] = q]
    /\ taken' = [taken EXCEPT ![s] = 0]
    /\ calls' = [calls EXCEPT ![s] = <<>>]
    /\ next' = [next EXCEPT ![s] = 0]
    /\ from' = [from EXCEPT ![s] = 0]
    /\ UNCHANGED <<kind, pubVars>>

(* register_cb(func), on the subscriber's thread: callbacks.push_back.     *)
register_cb(s) ==
    /\ state[s] = "up"
    /\ next[s] = 0
    /\ Len(calls[s]) < MaxCallbacks[s]
    /\ calls' = [calls EXCEPT ![s] = Append(@, [since |-> taken[s], seen |-> <<>>])]
    /\ UNCHANGED <<kind, pubVars, state, inbox, taken, next, from>>

(* once(): recv() returns a datagram; an empty one ends once().            *)
onceReceive(s) ==
    /\ state[s] = "up"
    /\ next[s] = 0
    /\ Waiting(s) > 0
    /\ taken' = [taken EXCEPT ![s] = @ + 1]
    /\ LET msg == Delivered(DataSize, log[inbox[s][taken[s] + 1]])
       IN  next' = [next EXCEPT ![s] =
                      IF Len(msg) = 0 \/ calls[s] = <<>> THEN 0 ELSE 1]
    /\ UNCHANGED <<kind, pubVars, state, inbox, calls, from>>

\* Mutant: the loop over the callbacks stops one short.
MutSkipLast(s) == IF next[s] + 1 < Len(calls[s]) THEN next[s] + 1 ELSE 0

\* Mutant: the loop over the callbacks runs one beyond the end.
MutOneBeyond(s) == IF next[s] <= Len(calls[s]) THEN next[s] + 1 ELSE 0

(* Where the loop over the callbacks goes.                                 *)
NextCallback(s) == IF next[s] < Len(calls[s]) THEN next[s] + 1 ELSE 0

(* ... and the callbacks are called with it one after the other.           *)
onceCall(s) ==
    /\ next[s] > 0
    /\ calls' = [calls EXCEPT ![s][next[s]].seen = Append(@, inbox[s][taken[s]])]
    /\ next' = [next EXCEPT ![s] = NextCallback(s)]
    /\ UNCHANGED <<kind, pubVars, state, inbox, taken, from>>

(* recv() returns -1 (a timeout or a signal).  SocketUDP makes an empty    *)
(* message of it and once() returns; SocketUnix closes its socket and      *)
(* throws out of once().                                                   *)
onceTimeOut(s) ==
    /\ state[s] = "up"
    /\ next[s] = 0
    /\ Waiting(s) = 0
    /\ RecvThrows(kind, "recv", SOCKET_TIMEOUT)
    /\ state' = [state EXCEPT ![s] = "threw"]
    /\ from' = [from EXCEPT ![s] = 0]
    /\ UNCHANGED <<kind, pubVars, inbox, taken, calls, next>>

-----------------------------------------------------------------------------
Next ==
    \/ \E s \in Sub : register_addr(s)
    \/ \E d \in Data : publish(d)
    \/ publishNext
    \/ \E s \in Sub : Overtake(s)
    \/ \E s \in Sub : Repeat(s)
    \/ \E s \in Sub : Start(s)
    \/ \E s \in Sub : Stop(s)
    \/ \E s \in Sub : register_cb(s)
    \/ \E s \in Sub : onceReceive(s)
    \/ \E s \in Sub : onceCall(s)
    \/ \E s \in Sub : onceTimeOut(s)

(* The publisher's thread runs; so do the subscribers' threads, which sit  *)
(* in a loop around once().                                                *)
Fairness ==
    /\ WF_vars(publishNext)
    /\ \A s \in Sub : WF_vars(onceReceive(s)) /\ WF_vars(onceCall(s))

Spec == Init /\ [][Next]_vars

FairSpec == Spec /\ Fairness

-----------------------------------------------------------------------------
(* Properties.                                                             *)

Occurrences(q, x) == Cardinality({i \in 1 .. Len(q) : q[i] = x})

(* Where the network keeps the order, a subscriber receives in the order   *)
(* of publication, and where it repeats nothing, no message comes more     *)
(* often than the subscriber's address was registered: nothing that        *)
(* publish() or once() does, with failed sends and subscribers that die    *)
(* and come back, puts messages out of order or sends one twice.  Unix     *)
(* sockets keep to both.                                                   *)
InOrderOnce ==
    \A s \in Sub :
        /\ net.ordered =>
              \A i, j \in 1 .. Len(inbox[s]) : i < j => inbox[s][i] <= inbox[s][j]
        /\ net.once => \A n \in 1 .. Len(log) :
              Occurrences(inbox[s], n) <= Occurrences(addrs, s)

(* A subscriber that is gone does not cost the others a message: on Unix   *)
(* sockets everyone who was bound and registered when publish() began has  *)
(* every message that publish() has finished with since.                   *)
ReliableUnix ==
    kind = "Unix" => \A s \in Sub : from[s] > 0 =>
        \A n \in from[s] .. (IF pos = 0 THEN Len(log) ELSE Len(log) - 1) :
            Occurrences(inbox[s], n) > 0

(* How many of the messages received by s its i-th callback has been shown.*)
Shown(s, i) == IF next[s] = 0 \/ i < next[s] THEN taken[s] ELSE taken[s] - 1

(* seen holds the numbers at the places since + 1 to upTo of q whose       *)
(* messages in lg are not empty, in that order and each once.              *)
AllSeen(q, lg, since, seen, upTo) ==
    \E at \in [1 .. Len(seen) -> since + 1 .. upTo] :
        /\ \A j, k \in 1 .. Len(seen) : j < k => at[j] < at[k]
        /\ \A k \in 1 .. Len(seen) : seen[k] = q[at[k]]
        /\ \A p \in since + 1 .. upTo :
              lg[q[p]] # <<>> <=> \E k \in 1 .. Len(seen) : at[k] = p

(* Every callback is called with every non-empty message received since it *)
(* was registered, in order and once; within once() the ones before the    *)
(* next have been called with the current message, the others not yet.     *)
EveryCallback ==
    \A s \in Sub : \A i \in 1 .. Len(calls[s]) :
        AllSeen(inbox[s], log, calls[s][i].since, calls[s][i].seen, Shown(s, i))

(* publish() returns as long as the subscribers that are up keep calling   *)
(* once(), however often one of them dies and comes back.                  *)
PublishReturns == pos > 0 ~> pos = 0

Got(s) == SubSeq(inbox[s], 1, taken[s])

(* On Unix sockets a message reaches the once() of every subscriber that   *)
(* was bound and registered before it was published, unless the subscriber *)
(* leaves or its recv() throws, whatever becomes of the others.            *)
UnixArrives ==
    \A s \in Sub, n \in 1 .. MaxPublish :
        (kind = "Unix" /\ from[s] \in 1 .. n /\ n <= Len(log))
            ~> (from[s] = 0 \/ Occurrences(Got(s), n) > 0)

(* A datagram counts as received when recv() returns it: the publisher and *)
(* its subscribers are a topic over what the network guarantees, with      *)
(* losses, restarts and repeated registrations.                            *)
Abstract == INSTANCE Topic WITH
    published <- log,
    copies    <- [s \in Sub |-> Occurrences(addrs, s)],
    got       <- [s \in Sub |-> Got(s)]

ImplementsTopic == Abstract!Spec

-----------------------------------------------------------------------------
(* The inductive invariant: what has to be added for the properties above  *)
(* to be preserved by every step.                                          *)

(* The places in clientaddrs at which publish() has tried message n on s.  *)
Tried(s, n) ==
    {i \in 1 .. Len(addrs) : addrs[i] = s /\ (pos = 0 \/ n < Len(log) \/ i < pos)}

CopiesTried ==
    net.once => \A s \in Sub : \A n \in 1 .. Len(log) :
        Occurrences(inbox[s], n) <= Cardinality(Tried(s, n))

(* from is set for those who are bound and registered, only those who are  *)
(* registered are sent anything, and publish() is at work on the last      *)
(* message.                                                                *)
Listening ==
    /\ pos > 0 => log # <<>>
    /\ \A s \in Sub : inbox[s] # <<>> => Registered(s)
    /\ \A s \in Sub : from[s] > 0 => state[s] = "up" /\ Registered(s)

(* In the middle of publish() the reliable subscribers it has come to have *)
(* the message.                                                            *)
HalfPublished ==
    kind = "Unix" /\ pos > 0 => \A s \in Sub :
        from[s] \in 1 .. Len(log) /\ Tried(s, Len(log)) # {}
            => Occurrences(inbox[s], Len(log)) > 0

(* once() calls the callbacks with a message that is not empty and that    *)
(* came after each of them was registered.                                 *)
CallingBack ==
    \A s \in Sub :
        /\ next[s] > 0 => taken[s] > 0 /\ log[inbox[s][taken[s]]] # <<>>
        /\ \A i \in 1 .. Len(calls[s]) :
              calls[s][i].since <= IF next[s] = 0 THEN taken[s] ELSE taken[s] - 1

IInv ==
    /\ TypeOK
    /\ InOrderOnce /\ CopiesTried
    /\ Listening /\ ReliableUnix /\ HalfPublished
    /\ CallingBack /\ EveryCallback
=============================================================================
