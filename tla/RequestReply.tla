---------------------------- MODULE RequestReply ----------------------------
(***************************************************************************)
(* Request<SOCKET> and Reply<SOCKET> (request_reply.hpp): clients that call *)
(* request() and one server whose thread calls once() again and again, over *)
(* the datagram sockets SocketUDP or SocketUnix.                           *)
(*                                                                         *)
(* A datagram carries the number of the request() call it belongs to, as   *)
(* history: the wire format has no such field and no action of the program *)
(* reads it.  requests holds what is on its way to the server or in its    *)
(* receive queue, replies what is on its way to a client or in its queue.  *)
(***************************************************************************)
EXTENDS Primitives

CONSTANTS Client,
          SockKind,      \* the template parameter: "UDP" or "Unix"
          Requests,      \* messages clients send
          ReqSize,       \* msg_size of the Reply object
          RepSize,       \* msg_size of the Request objects
          Callback,      \* functions given to register_cb()
          Apply(_, _),   \* what a callback returns for a message
          MaxCalls,      \* bound on the request() calls of a client
          Ordered,       \* datagrams of one client stay in order
          Lossy,         \* datagrams may be lost
          Duplicating,   \* datagrams may arrive more than once
          MayTimeOut     \* recv() may return -1: settimeout(), setnonblocking()
                         \* or a signal handler

Message == Seq(0 .. 255)

ASSUME KindAssumption == SockKind \in {"UDP", "Unix"}
ASSUME SizeAssumption == ReqSize \in Nat \ {0} /\ RepSize \in Nat \ {0}
ASSUME RequestAssumption == Requests \subseteq Message
ASSUME CallbackAssumption ==
    \A k \in Callback : \A m \in [1 .. ReqSize -> 0 .. 255] :
        Apply(k, m) \in Message
ASSUME BoundAssumption == MaxCalls \in Nat
ASSUME ModeAssumption ==
    /\ Ordered \in BOOLEAN /\ Lossy \in BOOLEAN
    /\ Duplicating \in BOOLEAN /\ MayTimeOut \in BOOLEAN

VARIABLES
    pc,        \* [Client -> {"idle", "waiting"}]: waiting is inside recv()
    sent,      \* [Client -> Seq(Message)]: the requests so far, the last one
               \* is the current one
    res,       \* [Client -> result]: what the last request() call returned
    got,       \* [Client -> Nat], history: number of the last reply received
    timeouts,  \* [Client -> Nat], history: receives that ended with -1
    open,      \* [Client -> BOOLEAN]: socket_fd is a descriptor
    bound,     \* [Client -> BOOLEAN]: the client's socket has a name
    srv,       \* "up": a Reply object is bound; "down": there is none
    cb,        \* set of at most one callback: the member callback
    cur,       \* set of at most one request once() has received
    requests,  \* set of requests on their way
    replies,   \* set of replies on their way
    unreported \* history: a sendto() failed and nothing was thrown

clientVars == <<pc, sent, res, got, timeouts, open, bound>>
serverVars == <<srv, cb, cur>>
vars == <<pc, sent, res, got, timeouts, open, bound,
          srv, cb, cur, requests, replies, unreported>>

Results == [how : {"none", "reply", "empty", "threw"}, msg : Message]
Datagrams == [client : Client, n : Nat, data : Message]

(* The type invariant: every variable has the form its comment gives.      *)
TypeOK ==
    /\ pc \in [Client -> {"idle", "waiting"}]
    /\ sent \in [Client -> Seq(Message)]
    /\ res \in [Client -> Results]
    /\ got \in [Client -> Nat]
    /\ timeouts \in [Client -> Nat]
    /\ open \in [Client -> BOOLEAN]
    /\ bound \in [Client -> BOOLEAN]
    /\ srv \in {"up", "down"}
    /\ cb \in {{}} \cup {{k} : k \in Callback}
    /\ cur \in SUBSET Datagrams
    /\ requests \in SUBSET Datagrams
    /\ replies \in SUBSET Datagrams
    /\ unreported \in BOOLEAN

Init ==
    /\ pc = [c \in Client |-> "idle"]
    /\ sent = [c \in Client |-> <<>>]
    /\ res = [c \in Client |-> [how |-> "none", msg |-> <<>>]]
    /\ got = [c \in Client |-> 0]
    /\ timeouts = [c \in Client |-> 0]
    /\ open = [c \in Client |-> TRUE]
    \* A UDP socket gets a port with its first sendto(); a Unix socket has a
    \* name only if the program called bind() on it.
    /\ bound \in [Client -> IF SockKind = "UDP" THEN {TRUE} ELSE BOOLEAN]
    /\ srv = "down"
    /\ cb = {}
    /\ cur = {}
    /\ requests = {}
    /\ replies = {}
    /\ unreported = FALSE

-----------------------------------------------------------------------------
(* The kernel and the network (external).                                  *)

(* A receive takes d out of the queue S, or leaves a duplicate behind.     *)
Take(S, d) == {S \ {d}} \cup (IF Duplicating THEN {S} ELSE {})

(* May the next receive on the queue S return d?                           *)
IsNext(S, d) ==
    Ordered => \A e \in S : e.client = d.client => d.n <= e.n

(* What becomes of the queue S when d is sent to it.                       *)
Put(S, d) == {S \cup {d}} \cup (IF Lossy THEN {S} ELSE {})

(* Does a reply sent to client c have somewhere to go?                     *)
Reachable(c) == open[c] /\ bound[c]

-----------------------------------------------------------------------------
(* Request::request(msg, addr), first half: sendto().  A closed socket, or *)
(* on a unix path a server that is not there, makes sendto() return -1;    *)
(* UDP does not notice.                                                    *)
request(c, msg) ==
    LET n == Len(sent[c]) + 1
        d == [client |-> c, n |-> n, data |-> msg]
        refused == ~open[c] \/ (SockKind = "Unix" /\ srv = "down")
        num == IF refused THEN SOCKET_ERR ELSE Len(msg)
    IN  /\ pc[c] = "idle"
        /\ n <= MaxCalls
        /\ ~SendtoThrows(Len(msg), num)
        /\ sent' = [sent EXCEPT ![c] = Append(@, msg)]
        /\ IF refused \/ srv = "down" THEN requests' = requests
           ELSE requests' \in Put(requests, d)
        /\ unreported' = (unreported \/ num # Len(msg))
        /\ pc' = [pc EXCEPT ![c] = "waiting"]
        /\ UNCHANGED <<res, got, timeouts, open, bound, serverVars, replies>>

(* What request() returns when the datagram data arrives.                  *)
Returned(data) ==
    LET m == Delivered(RepSize, data)
    IN  [how |-> IF m = <<>> THEN "empty" ELSE "reply", msg |-> m]

(* Second half: recv() returns the first datagram in the client's queue.   *)
(* Nobody looks at where it comes from or which request it answers.        *)
Receive(c) ==
    /\ pc[c] = "waiting"
    /\ open[c]
    /\ \E d \in replies :
        /\ d.client = c
        /\ IsNext(replies, d)
        /\ replies' \in Take(replies, d)
        /\ got' = [got EXCEPT ![c] = d.n]
        /\ res' = [res EXCEPT ![c] = Returned(d.data)]
    /\ pc' = [pc EXCEPT ![c] = "idle"]
    /\ UNCHANGED <<sent, timeouts, open, bound, serverVars, requests, unreported>>

\* Mutant: after a timeout request() sends the message again and waits on.
MutRetry(c) ==
    /\ pc[c] = "waiting"
    /\ MayTimeOut
    /\ srv = "up"
    /\ requests' = requests \cup
          {[client |-> c, n |-> Len(sent[c]), data |-> sent[c][Len(sent[c])]]}
    /\ UNCHANGED <<clientVars, serverVars, replies, unreported>>

(* ... or it returns -1: a timeout, an interrupted or a non-blocking call, *)
(* or EBADF on a socket that was closed before.  SocketUDP::recv returns   *)
(* the empty message; SocketUnix::recv closes the socket and throws.       *)
TimeOut(c) ==
    /\ pc[c] = "waiting"
    /\ MayTimeOut \/ ~open[c]
    /\ SockKind = "Unix" /\ open[c] => \A d \in replies : d.client # c
    /\ LET throws == RecvThrows(SockKind, "recv", SOCKET_TIMEOUT)
       IN  /\ res' = [res EXCEPT ![c] =
                 [how |-> IF throws THEN "threw" ELSE "empty", msg |-> <<>>]]
           /\ open' = [open EXCEPT ![c] = @ /\ ~throws]
           /\ replies' = IF throws THEN {d \in replies : d.client # c} ELSE replies
    /\ timeouts' = [timeouts EXCEPT ![c] = @ + 1]
    /\ pc' = [pc EXCEPT ![c] = "idle"]
    /\ UNCHANGED <<sent, got, bound, serverVars, requests, unreported>>

-----------------------------------------------------------------------------
(* The server process starts: a Reply object is constructed and bound.     *)
Start ==
    /\ srv = "down"
    /\ srv' = "up"
    /\ UNCHANGED <<clientVars, cb, cur, requests, replies, unreported>>

(* The server process ends or dies; its receive queue goes with it, and    *)
(* datagrams still on the network may or may not meet its successor.       *)
Stop ==
    /\ srv = "up"
    /\ srv' = "down"
    /\ cb' = {}
    /\ cur' = {}
    /\ requests' \in IF SockKind = "Unix" THEN {{}} ELSE SUBSET requests
    /\ UNCHANGED <<clientVars, replies, unreported>>

(* register_cb(func) replaces the callback there may be.                   *)
register_cb(func) ==
    /\ srv = "up"
    /\ cur = {}
    /\ cb' = {func}
    /\ UNCHANGED <<clientVars, srv, cur, requests, replies, unreported>>

\* Mutant: the size is compared with what was sent, and the rest dropped.
MutDropShort ==
    /\ srv = "up"
    /\ cur = {}
    /\ \E d \in requests :
        /\ IsNext(requests, d)
        /\ requests' \in Take(requests, d)
        /\ cur' = IF Len(d.data) # ReqSize THEN {} ELSE {d}
    /\ UNCHANGED <<clientVars, srv, cb, replies, unreported>>

(* once(): recvfrom() returns.  An empty message, and one whose size is    *)
(* not msg_size, is dropped.                                               *)
onceReceive ==
    /\ srv = "up"
    /\ cur = {}
    /\ \E d \in requests :
        /\ IsNext(requests, d)
        /\ requests' \in Take(requests, d)
        /\ LET m == Delivered(ReqSize, d.data)
           IN  cur' = IF Len(m) = 0 \/ Len(m) # ReqSize THEN {} ELSE {d}
    /\ UNCHANGED <<clientVars, srv, cb, replies, unreported>>

\* Mutant: the answer goes to the address of another request.
MutStaleFrom(d) ==
    \E c \in Client, k \in cb :
        /\ cur' = {}
        /\ replies' = replies \cup
              {[client |-> c, n |-> d.n, data |-> Apply(k, Delivered(ReqSize, d.data))]}
        /\ UNCHANGED <<clientVars, srv, cb, requests, unreported>>

\* Mutant: recvfrom() is not given &from_addr, which stays zeroed.
MutNoFrom(d) ==
    \E k \in cb :
        /\ cur' = {}
        /\ replies' = replies \cup
              {[client |-> "nobody", n |-> d.n,
                data |-> Apply(k, Delivered(ReqSize, d.data))]}
        /\ UNCHANGED <<clientVars, srv, cb, requests, unreported>>

\* Mutant: once() answers the request it holds and keeps it.
MutAnswerTwice(d) ==
    \E k \in cb :
        /\ cur' = cur
        /\ replies' = replies \cup
              {[client |-> d.client, n |-> d.n,
                data |-> Apply(k, Delivered(ReqSize, d.data))]}
        /\ UNCHANGED <<clientVars, srv, cb, requests, unreported>>

(* ... then callback(m) and sendto(r, from_addr).  A client that is closed *)
(* or, on a Unix socket, never was bound makes sendto() return -1.         *)
answer(d) ==
    \E k \in cb :
        LET r == Apply(k, Delivered(ReqSize, d.data))
            refused == SockKind = "Unix" /\ ~Reachable(d.client)
            num == IF refused THEN SOCKET_ERR ELSE Len(r)
            rep == [client |-> d.client, n |-> d.n, data |-> r]
        IN  /\ ~SendtoThrows(Len(r), num)
            /\ IF Reachable(d.client) THEN replies' \in Put(replies, rep)
               ELSE replies' = replies
            /\ unreported' = (unreported \/ num # Len(r))
            /\ cur' = {}
            /\ UNCHANGED <<clientVars, srv, cb, requests>>

onceAnswer == srv = "up" /\ \E d \in cur : answer(d)

(* No callback registered: std::bad_function_call leaves once(), nobody    *)
(* catches it and the server's thread is gone.                             *)
onceNoCallback ==
    /\ cur # {}
    /\ cb = {}
    /\ Stop

-----------------------------------------------------------------------------
Next ==
    \/ \E c \in Client, m \in Requests : request(c, m)
    \/ \E c \in Client : Receive(c)
    \/ \E c \in Client : TimeOut(c)
    \/ Start
    \/ Stop
    \/ \E k \in Callback : register_cb(k)
    \/ onceReceive
    \/ onceAnswer
    \/ onceNoCallback

(* The threads of clients and server run; a receive that can return does.  *)
Fairness ==
    /\ \A c \in Client : WF_vars(Receive(c) \/ TimeOut(c))
    /\ WF_vars(onceReceive)
    /\ WF_vars(onceAnswer)

Spec == Init /\ [][Next]_vars

FairSpec == Spec /\ Fairness
-----------------------------------------------------------------------------
(* Properties.                                                             *)

(* The results request() may have for the request m: a callback's answer,  *)
(* cut or zero-filled to msg_size on both ways.  once() drops an empty     *)
(* message, so it has no answer.                                           *)
AnswersTo(m) ==
    IF m = <<>> THEN {}
    ELSE {Returned(Apply(k, Delivered(ReqSize, m))) : k \in Callback}

(* A client is never given another client's answer: what request() returns *)
(* is a callback's answer to one of this client's own requests, even when  *)
(* datagrams are lost, repeated or reordered and the server is restarted   *)
(* between them.                                                           *)
OwnReply ==
    \A c \in Client : res[c].how = "reply" =>
        /\ got[c] \in 1 .. Len(sent[c])
        /\ res[c] \in AnswersTo(sent[c][got[c]])

InOrder == Ordered /\ ~Duplicating

(* The answer request() returned belongs to a request at most as many      *)
(* calls back as there have been timeouts: a client falls behind by one    *)
(* reply for each receive that gave up, and by nothing else.               *)
LagBound ==
    InOrder => \A c \in Client :
        Len(sent[c]) <= got[c] + timeouts[c] + (IF pc[c] = "waiting" THEN 1 ELSE 0)

(* While no receive has given up, request() returns the answer to the      *)
(* request it sent, whatever was lost and however often the server died.   *)
Matched ==
    InOrder => \A c \in Client :
        timeouts[c] = 0 /\ pc[c] = "idle" => got[c] = Len(sent[c])

(* The specification of request() that callers rely on, with the server,   *)
(* the sockets and the network hidden: each request is answered at most    *)
(* once, answers never overtake each other, and nothing else is returned.  *)
RPC == INSTANCE RemoteCall WITH
    Msg <- Requests,
    Answers <- AnswersTo,
    GaveUp <- {[how |-> h, msg |-> <<>>] : h \in {"empty", "threw"}},
    NotYet <- [how |-> "none", msg |-> <<>>],
    busy <- [c \in Client |-> pc[c] = "waiting"],
    asked <- sent,
    result <- res,
    last <- got

ImplementsRemoteCall == RPC!Spec

(* A client whose receives give up (settimeout, setnonblocking) is never   *)
(* stuck in request(), even with no server at all.                         *)
TimedCallReturns ==
    MayTimeOut => \A c \in Client : pc[c] = "waiting" ~> pc[c] = "idle"

(* A client that blocks for ever is answered once its request is in the    *)
(* server's queue, if the request is not empty (once() drops an empty one  *)
(* as if it were a timeout) and the server has a callback, stays up, and   *)
(* has an address to answer to.                                            *)
QueuedCallReturns ==
    ~Lossy => \A c \in Client :
        (/\ pc[c] = "waiting"
         /\ Reachable(c)
         /\ srv = "up" /\ cb # {}
         /\ \E d \in requests : d.client = c /\ d.n = Len(sent[c]) /\ d.data # <<>>)
            ~> (pc[c] = "idle" \/ srv = "down")

-----------------------------------------------------------------------------
(* What the repository says of the program and the code does not do.       *)

(* socket_uds.hpp, recv(): "timeout gives -1, so set size=0".  Not so: the *)
(* guard above that line closes the socket and throws.                     *)
TimeoutGivesEmpty == \A c \in Client : res[c].how # "threw"

(* socket_udp.hpp, socket_uds.hpp, sendto(): the guard whose text is       *)
(* "sendto() sent incorrect number of bytes" reports it when that happens. *)
SendFailureThrows == ~unreported

(* examples/rr.cpp and gtests/test_rr.cpp, Reply::register_cb(): "you can  *)
(* have more than 1 callback".  Not so: a second one takes the place of    *)
(* the first, which the server never calls again.                          *)
CallbacksKept == [][srv = "up" /\ srv' = "up" => cb \subseteq cb']_vars

-----------------------------------------------------------------------------
(* The inductive invariant behind OwnReply, LagBound and Matched.          *)

(* A datagram on its way carries what the program put into it.             *)
RequestsAreSent ==
    \A d \in requests \cup cur :
        d.n \in 1 .. Len(sent[d.client]) /\ d.data = sent[d.client][d.n]

RepliesAreAnswers ==
    \A d \in replies :
        /\ d.n \in 1 .. Len(sent[d.client])
        /\ Returned(d.data) \in AnswersTo(sent[d.client][d.n])

(* once() calls the callback only for a message it has received.           *)
CurIsFull == \A d \in cur : d.data # <<>>

(* On an ordered network without duplicates each request is in one place   *)
(* only, and the datagrams of a client overtake neither each other nor the *)
(* last reply the client has received.                                     *)
Before(S, T) == \A d \in S, e \in T : d.client = e.client => d.n < e.n

OneEach(S) == \A d, e \in S : d.client = e.client /\ d.n = e.n => d = e

Queued ==
    InOrder =>
        /\ Before(replies, cur) /\ Before(cur, requests)
        /\ Before(replies, requests)
        /\ OneEach(replies) /\ OneEach(cur) /\ OneEach(requests)
        /\ \A d \in replies \cup cur \cup requests : got[d.client] < d.n
        /\ \A c \in Client : got[c] <= Len(sent[c])

IInv ==
    /\ TypeOK
    /\ OwnReply
    /\ LagBound
    /\ CurIsFull
    /\ RequestsAreSent
    /\ RepliesAreAnswers
    /\ Queued
=============================================================================
