-------------------------- MODULE RequestReplyProofs --------------------------
(***************************************************************************)
(* RequestReply's safety properties, for any number of clients, calls,     *)
(* messages and callbacks, and for every network the constants describe.   *)
(*                                                                         *)
(* The argument: what is in requests, cur and replies was put there by     *)
(* request() or by a callback (RequestsAreSent, RepliesAreAnswers), and on *)
(* an ordered network without duplicates the numbers of a client's         *)
(* datagrams increase from its last reply through replies, cur and         *)
(* requests (Queued).  So every receive moves got[c] up, and the calls     *)
(* that did not move it are the ones that timed out.                       *)
(***************************************************************************)
EXTENDS RequestReply, SequenceTheorems, TLAPS

(* The buffer a non-empty datagram is received into has msg_size bytes. *)
LEMMA DeliveredFull ==
  ASSUME NEW size \in Nat \ {0}, NEW d \in Message, d # <<>>
  PROVE  /\ Delivered(size, d) \in [1 .. size -> 0 .. 255]
         /\ Delivered(size, d) \in Message
         /\ Len(Delivered(size, d)) = size
  <1>1. Len(d) \in Nat \ {0}
    BY DEF Message
  <1>2. Copied(size, d) \in Nat \ {0}
    BY <1>1 DEF Copied
  <1>3. Delivered(size, d) = Fill(size, d)
    BY <1>2 DEF Delivered, Received, SOCKET_TIMEOUT
  <1>4. Fill(size, d) \in [1 .. size -> 0 .. 255]
    <2>1. ASSUME NEW i \in 1 .. size
          PROVE  (IF i <= Len(d) THEN d[i] ELSE 0) \in 0 .. 255
      <3>1. CASE i <= Len(d)
        <4>1. i \in 1 .. Len(d)
          BY <1>1, <3>1
        <4>2. d \in Seq(0 .. 255)
          BY DEF Message
        <4>3. d[i] \in 0 .. 255
          BY <4>1, <4>2, ElementOfSeq
        <4> QED
          BY <3>1, <4>3
      <3>2. CASE ~(i <= Len(d))
        BY <3>2
      <3> QED
        BY <3>1, <3>2
    <2> QED
      BY <2>1 DEF Fill
  <1>5. Fill(size, d) \in Message /\ Len(Fill(size, d)) = size
    BY <1>4 DEF Message
  <1> QED
    BY <1>3, <1>4, <1>5

(* An empty datagram looks like a timeout. *)
LEMMA DeliveredEmpty ==
  ASSUME NEW size \in Nat \ {0}
  PROVE  Delivered(size, <<>>) = <<>>
  BY DEF Delivered, Received, Copied

(* Either way the program gets a message. *)
LEMMA DeliveredType ==
  ASSUME NEW size \in Nat \ {0}, NEW d \in Message
  PROVE  Delivered(size, d) \in Message
  <1>1. CASE d = <<>>
    BY <1>1, DeliveredEmpty DEF Message
  <1>2. CASE d # <<>>
    BY <1>2, DeliveredFull
  <1> QED
    BY <1>1, <1>2

LEMMA ReturnedType ==
  ASSUME NEW d \in Message
  PROVE  Returned(d) \in Results
  <1> DEFINE m == Delivered(RepSize, d)
  <1>1. m \in Message
    BY SizeAssumption, DeliveredType
  <1>2. Returned(d) = [how |-> IF m = <<>> THEN "empty" ELSE "reply", msg |-> m]
    BY DEF Returned
  <1> HIDE DEF m
  <1> QED
    BY <1>1, <1>2 DEF Results

(* No sendto() throws, whatever ::sendto returned. *)
LEMMA SendtoNeverThrows ==
  ASSUME NEW size, NEW num PROVE ~SendtoThrows(size, num)
  BY DEF SendtoThrows, Throws

LEMMA InitIInv == Init => IInv
  <1> SUFFICES ASSUME Init PROVE IInv
    OBVIOUS
  <1>1. TypeOK
    <2>1. bound \in [Client -> BOOLEAN]
      BY DEF Init
    <2>2. <<>> \in Message
      BY DEF Message
    <2>3. sent \in [Client -> Seq(Message)] /\ res \in [Client -> Results]
      BY <2>2 DEF Init, Results
    <2> QED
      BY <2>1, <2>3 DEF Init, TypeOK
  <1>2. OwnReply /\ LagBound
    BY DEF Init, OwnReply, LagBound
  <1>3. CurIsFull /\ RequestsAreSent /\ RepliesAreAnswers
    BY DEF Init, CurIsFull, RequestsAreSent, RepliesAreAnswers
  <1>4. Queued
    BY DEF Init, Queued, Before, OneEach
  <1> QED
    BY <1>1, <1>2, <1>3, <1>4 DEF IInv

(* Sending appends to the client's history and leaves the rest as it was. *)
LEMMA SentGrows ==
  ASSUME TypeOK, NEW c \in Client, NEW m \in Message,
         sent' = [sent EXCEPT ![c] = Append(@, m)]
  PROVE  /\ sent' \in [Client -> Seq(Message)]
         /\ Len(sent'[c]) = Len(sent[c]) + 1
         /\ sent'[c][Len(sent[c]) + 1] = m
         /\ \A q \in Client : Len(sent[q]) \in Nat /\ Len(sent[q]) <= Len(sent'[q])
         /\ \A q \in Client : \A n \in 1 .. Len(sent[q]) :
               sent'[q][n] = sent[q][n] /\ n \in 1 .. Len(sent'[q])
  <1>1. sent[c] \in Seq(Message) /\ sent'[c] = Append(sent[c], m)
    BY DEF TypeOK
  <1>2. \A q \in Client \ {c} : sent'[q] = sent[q]
    BY DEF TypeOK
  <1>3. \A q \in Client : sent[q] \in Seq(Message) /\ Len(sent[q]) \in Nat
    BY DEF TypeOK
  <1>4. /\ Append(sent[c], m) \in Seq(Message)
        /\ Len(Append(sent[c], m)) = Len(sent[c]) + 1
        /\ Append(sent[c], m)[Len(sent[c]) + 1] = m
        /\ \A n \in 1 .. Len(sent[c]) : Append(sent[c], m)[n] = sent[c][n]
    BY <1>1, AppendProperties
  <1>5. sent' \in [Client -> Seq(Message)]
    BY <1>4 DEF TypeOK
  <1>6. \A q \in Client : Len(sent[q]) <= Len(sent'[q])
    BY <1>1, <1>2, <1>3, <1>4
  <1>7. \A q \in Client : \A n \in 1 .. Len(sent[q]) :
           sent'[q][n] = sent[q][n] /\ n \in 1 .. Len(sent'[q])
    <2> SUFFICES ASSUME NEW q \in Client, NEW n \in 1 .. Len(sent[q])
                 PROVE  sent'[q][n] = sent[q][n] /\ n \in 1 .. Len(sent'[q])
      OBVIOUS
    <2>1. CASE q = c
      BY <2>1, <1>1, <1>3, <1>4
    <2>2. CASE q # c
      BY <2>2, <1>2
    <2> QED
      BY <2>1, <2>2
  <1> QED
    BY <1>1, <1>3, <1>4, <1>5, <1>6, <1>7

(* The elements of the three sets of datagrams are typed. *)
LEMMA DatagramTypes ==
  ASSUME TypeOK, NEW d \in replies \cup cur \cup requests
  PROVE  d \in Datagrams /\ d.client \in Client /\ d.n \in Nat /\ d.data \in Message
  BY DEF TypeOK, Datagrams

(* request(): the new datagram is numbered above all others. *)
LEMMA RequestPreserves ==
  ASSUME IInv, NEW c \in Client, NEW m \in Requests, request(c, m)
  PROVE  IInv'
  <1> USE DEF IInv
  <1> DEFINE d == [client |-> c, n |-> Len(sent[c]) + 1, data |-> m]
  <1>0. m \in Message
    BY RequestAssumption
  <1>1. /\ pc[c] = "idle"
        /\ sent' = [sent EXCEPT ![c] = Append(@, m)]
        /\ pc' = [pc EXCEPT ![c] = "waiting"]
        /\ UNCHANGED <<res, got, timeouts, open, bound, srv, cb, cur, replies>>
    BY DEF request, serverVars
  <1>2. requests' = requests \/ requests' = requests \cup {d}
    BY DEF request, Put
  <1>3. unreported' \in BOOLEAN
    BY DEF request, TypeOK
  <1>4. /\ sent' \in [Client -> Seq(Message)]
        /\ Len(sent'[c]) = Len(sent[c]) + 1
        /\ sent'[c][Len(sent[c]) + 1] = m
        /\ \A q \in Client : Len(sent[q]) \in Nat /\ Len(sent[q]) <= Len(sent'[q])
        /\ \A q \in Client : \A n \in 1 .. Len(sent[q]) :
              sent'[q][n] = sent[q][n] /\ n \in 1 .. Len(sent'[q])
    BY <1>0, <1>1, SentGrows
  <1>5. d \in Datagrams /\ d.client = c /\ d.n = Len(sent[c]) + 1 /\ d.data = m
    BY <1>0, <1>4 DEF Datagrams
  <1> HIDE DEF d
  <1>6. TypeOK'
    <2>1. requests' \in SUBSET Datagrams
      BY <1>2, <1>5 DEF TypeOK
    <2> QED
      BY <1>1, <1>3, <1>4, <2>1 DEF TypeOK
  <1>7. OwnReply'
    <2> SUFFICES ASSUME NEW q \in Client, res[q].how = "reply"
                 PROVE  /\ got[q] \in 1 .. Len(sent'[q])
                        /\ res[q] \in AnswersTo(sent'[q][got[q]])
      BY <1>1 DEF OwnReply
    <2>1. got[q] \in 1 .. Len(sent[q])
      BY DEF OwnReply
    <2>2. sent'[q][got[q]] = sent[q][got[q]] /\ got[q] \in 1 .. Len(sent'[q])
      BY <1>4, <2>1
    <2> QED
      BY <2>2 DEF OwnReply
  <1>8. LagBound'
    <2> SUFFICES ASSUME InOrder, NEW q \in Client
                 PROVE  Len(sent'[q]) <= got[q] + timeouts[q]
                                          + (IF pc'[q] = "waiting" THEN 1 ELSE 0)
      BY <1>1 DEF LagBound, InOrder
    <2>1. Len(sent[q]) <= got[q] + timeouts[q] + (IF pc[q] = "waiting" THEN 1 ELSE 0)
      BY DEF LagBound
    <2>2. got[q] \in Nat /\ timeouts[q] \in Nat /\ Len(sent[q]) \in Nat
      BY <1>4 DEF TypeOK
    <2>3. CASE q = c
      BY <2>1, <2>2, <2>3, <1>1, <1>4 DEF TypeOK
    <2>4. CASE q # c
      BY <2>1, <2>2, <2>4, <1>1 DEF TypeOK
    <2> QED
      BY <2>3, <2>4
  <1>9. CurIsFull'
    BY <1>1 DEF CurIsFull
  <1>10. RequestsAreSent'
    <2> SUFFICES ASSUME NEW e \in requests' \cup cur'
                 PROVE  e.n \in 1 .. Len(sent'[e.client]) /\ e.data = sent'[e.client][e.n]
      BY DEF RequestsAreSent
    <2>1. CASE e = d
      BY <2>1, <1>4, <1>5
    <2>2. CASE e \in requests \cup cur
      <3>1. e.client \in Client
        BY <2>2, DatagramTypes
      <3>2. e.n \in 1 .. Len(sent[e.client]) /\ e.data = sent[e.client][e.n]
        BY <2>2 DEF RequestsAreSent
      <3> QED
        BY <1>4, <3>1, <3>2
    <2> QED
      BY <1>1, <1>2, <2>1, <2>2
  <1>11. RepliesAreAnswers'
    <2> SUFFICES ASSUME NEW e \in replies
                 PROVE  /\ e.n \in 1 .. Len(sent'[e.client])
                        /\ Returned(e.data) \in AnswersTo(sent'[e.client][e.n])
      BY <1>1 DEF RepliesAreAnswers
    <2>1. e.client \in Client /\ e.n \in 1 .. Len(sent[e.client])
      BY DatagramTypes DEF RepliesAreAnswers
    <2>2. sent'[e.client][e.n] = sent[e.client][e.n] /\ e.n \in 1 .. Len(sent'[e.client])
      BY <1>4, <2>1
    <2> QED
      BY <2>2 DEF RepliesAreAnswers
  <1>12. Queued'
    <2> SUFFICES ASSUME InOrder
                 PROVE  Queued'
      BY DEF Queued, InOrder
    <2>1. \A e \in replies \cup cur \cup requests :
             e.client \in Client /\ e.n \in 1 .. Len(sent[e.client])
      BY DatagramTypes DEF RequestsAreSent, RepliesAreAnswers
    <2>2. \A e \in replies \cup cur \cup requests : e.client = c => e.n < d.n
      BY <2>1, <1>4, <1>5
    <2>3. /\ Before(replies, cur) /\ Before(cur, requests')
          /\ Before(replies, requests')
      BY <1>2, <1>5, <2>2 DEF Queued, Before
    <2>4. OneEach(replies) /\ OneEach(cur) /\ OneEach(requests')
      <3>1. OneEach(requests')
        BY <1>2, <1>4, <1>5, <2>1, <2>2 DEF Queued, OneEach
      <3> QED
        BY <3>1 DEF Queued
    <2>5. \A e \in replies \cup cur \cup requests' : got[e.client] < e.n
      <3>1. got[c] \in Nat /\ got[c] <= Len(sent[c])
        BY DEF TypeOK, Queued
      <3>2. got[d.client] < d.n
        BY <1>4, <1>5, <3>1
      <3> QED
        BY <1>2, <3>2 DEF Queued
    <2>6. \A q \in Client : got[q] <= Len(sent'[q])
      BY <1>4 DEF Queued, TypeOK
    <2> QED
      BY <1>1, <2>3, <2>4, <2>5, <2>6 DEF Queued, Before, OneEach
  <1> QED
    BY <1>6, <1>7, <1>8, <1>9, <1>10, <1>11, <1>12

(* Receive: got[c] moves up to the smallest number in the client's queue. *)
LEMMA ReceivePreserves ==
  ASSUME IInv, NEW c \in Client, Receive(c)
  PROVE  IInv'
  <1> USE DEF IInv
  <1>1. PICK d \in replies :
          /\ d.client = c
          /\ IsNext(replies, d)
          /\ replies' \in Take(replies, d)
          /\ got' = [got EXCEPT ![c] = d.n]
          /\ res' = [res EXCEPT ![c] = Returned(d.data)]
    BY DEF Receive
  <1>2. /\ pc[c] = "waiting"
        /\ pc' = [pc EXCEPT ![c] = "idle"]
        /\ UNCHANGED <<sent, timeouts, open, bound, srv, cb, cur, requests, unreported>>
    BY DEF Receive, serverVars
  <1>3. d.n \in Nat /\ d.data \in Message /\ d.n \in 1 .. Len(sent[c])
    BY <1>1, DatagramTypes DEF RepliesAreAnswers
  <1>4. replies' \subseteq replies
    BY <1>1 DEF Take
  <1>5. TypeOK'
    <2>1. res' \in [Client -> Results]
      BY <1>1, <1>3, ReturnedType DEF TypeOK
    <2> QED
      BY <1>1, <1>2, <1>3, <1>4, <2>1 DEF TypeOK
  <1>6. OwnReply'
    <2> SUFFICES ASSUME NEW q \in Client, res'[q].how = "reply"
                 PROVE  /\ got'[q] \in 1 .. Len(sent[q])
                        /\ res'[q] \in AnswersTo(sent[q][got'[q]])
      BY <1>2 DEF OwnReply
    <2>1. CASE q # c
      BY <1>1, <2>1 DEF OwnReply, TypeOK
    <2>2. CASE q = c
      <3>1. got'[q] = d.n /\ res'[q] = Returned(d.data)
        BY <1>1, <2>2 DEF TypeOK
      <3>2. Returned(d.data) \in AnswersTo(sent[q][d.n])
        BY <1>1, <2>2 DEF RepliesAreAnswers
      <3> QED
        BY <1>3, <2>2, <3>1, <3>2
    <2> QED
      BY <2>1, <2>2
  <1>7. InOrder => got[c] < d.n
    BY <1>1 DEF Queued
  <1>8. LagBound'
    <2> SUFFICES ASSUME InOrder, NEW q \in Client
                 PROVE  Len(sent[q]) <= got'[q] + timeouts[q]
                                         + (IF pc'[q] = "waiting" THEN 1 ELSE 0)
      BY <1>2 DEF LagBound, InOrder
    <2>1. Len(sent[q]) <= got[q] + timeouts[q] + (IF pc[q] = "waiting" THEN 1 ELSE 0)
      BY DEF LagBound
    <2>2. got[q] \in Nat /\ timeouts[q] \in Nat /\ Len(sent[q]) \in Nat
      BY DEF TypeOK
    <2>3. CASE q = c
      BY <1>1, <1>2, <1>3, <1>7, <2>1, <2>2, <2>3 DEF TypeOK
    <2>4. CASE q # c
      BY <1>1, <1>2, <2>1, <2>4 DEF TypeOK
    <2> QED
      BY <2>3, <2>4
  <1>9. CurIsFull' /\ RequestsAreSent'
    BY <1>2 DEF CurIsFull, RequestsAreSent
  <1>10. RepliesAreAnswers'
    BY <1>2, <1>4 DEF RepliesAreAnswers
  <1>11. Queued'
    <2> SUFFICES ASSUME InOrder
                 PROVE  Queued'
      BY DEF Queued, InOrder
    <2>1. replies' = replies \ {d}
      BY <1>1 DEF Take, InOrder
    <2>2. \A e \in replies' : e.client = c => d.n < e.n
      <3> SUFFICES ASSUME NEW e \in replies', e.client = c
                   PROVE  d.n < e.n
        OBVIOUS
      <3>1. e \in replies /\ e # d /\ e.n \in Nat
        BY <2>1, DatagramTypes
      <3>2. d.n <= e.n
        BY <1>1, <3>1 DEF IsNext, InOrder
      <3>3. d.n # e.n
        BY <1>1, <3>1 DEF Queued, OneEach
      <3> QED
        BY <1>3, <3>1, <3>2, <3>3
    <2>3. \A e \in cur \cup requests : e.client = c => d.n < e.n
      BY <1>1 DEF Queued, Before
    <2>4. \A e \in replies' \cup cur \cup requests : got'[e.client] < e.n
      <3> SUFFICES ASSUME NEW e \in replies' \cup cur \cup requests
                   PROVE  got'[e.client] < e.n
        OBVIOUS
      <3>1. e.client \in Client /\ got[e.client] < e.n
        BY <1>4, DatagramTypes DEF Queued
      <3>2. CASE e.client = c
        BY <1>1, <2>2, <2>3, <3>1, <3>2 DEF TypeOK
      <3>3. CASE e.client # c
        BY <1>1, <3>1, <3>3 DEF TypeOK
      <3> QED
        BY <3>2, <3>3
    <2>5. \A q \in Client : got'[q] <= Len(sent[q])
      BY <1>1, <1>3 DEF Queued, TypeOK
    <2> QED
      BY <1>2, <2>1, <2>4, <2>5 DEF Queued, Before, OneEach
  <1> QED
    BY <1>5, <1>6, <1>8, <1>9, <1>10, <1>11

(* TimeOut: the call ends without a reply and is counted. *)
LEMMA TimeOutPreserves ==
  ASSUME IInv, NEW c \in Client, TimeOut(c)
  PROVE  IInv'
  <1> USE DEF IInv
  <1>1. PICK h \in {"threw", "empty"} :
          res' = [res EXCEPT ![c] = [how |-> h, msg |-> <<>>]]
    BY DEF TimeOut
  <1>2. /\ pc[c] = "waiting"
        /\ timeouts' = [timeouts EXCEPT ![c] = @ + 1]
        /\ pc' = [pc EXCEPT ![c] = "idle"]
        /\ UNCHANGED <<sent, got, bound, srv, cb, cur, requests, unreported>>
    BY DEF TimeOut, serverVars
  <1>3. replies' \subseteq replies
    BY DEF TimeOut
  <1>4. open' \in [Client -> BOOLEAN]
    BY DEF TimeOut, TypeOK
  <1>5. TypeOK'
    <2>1. <<>> \in Message
      BY DEF Message
    <2>2. res' \in [Client -> Results]
      BY <1>1, <2>1 DEF TypeOK, Results
    <2>3. timeouts' \in [Client -> Nat]
      BY <1>2 DEF TypeOK
    <2>4. pc' \in [Client -> {"idle", "waiting"}]
      BY <1>2 DEF TypeOK
    <2>5. replies' \in SUBSET Datagrams
      BY <1>3 DEF TypeOK
    <2> QED
      BY <1>2, <1>4, <2>2, <2>3, <2>4, <2>5 DEF TypeOK
  <1>6. OwnReply'
    BY <1>1, <1>2 DEF OwnReply, TypeOK
  <1>7. LagBound'
    <2> SUFFICES ASSUME InOrder, NEW q \in Client
                 PROVE  Len(sent[q]) <= got[q] + timeouts'[q]
                                         + (IF pc'[q] = "waiting" THEN 1 ELSE 0)
      BY <1>2 DEF LagBound, InOrder
    <2>1. Len(sent[q]) <= got[q] + timeouts[q] + (IF pc[q] = "waiting" THEN 1 ELSE 0)
      BY DEF LagBound
    <2>2. got[q] \in Nat /\ timeouts[q] \in Nat /\ Len(sent[q]) \in Nat
      BY DEF TypeOK
    <2> QED
      BY <1>2, <2>1, <2>2 DEF TypeOK
  <1>8. CurIsFull' /\ RequestsAreSent' /\ RepliesAreAnswers'
    BY <1>2, <1>3 DEF CurIsFull, RequestsAreSent, RepliesAreAnswers
  <1>9. Queued'
    BY <1>2, <1>3 DEF Queued, Before, OneEach, InOrder
  <1> QED
    BY <1>5, <1>6, <1>7, <1>8, <1>9

(* The server's steps leave the clients alone; a step that only takes      *)
(* datagrams away, or moves one from requests to cur, keeps the invariant. *)
LEMMA ServerKeepsClients ==
  ASSUME IInv, UNCHANGED clientVars
  PROVE  OwnReply' /\ LagBound'
  BY DEF IInv, clientVars, OwnReply, LagBound, InOrder

LEMMA ServerControlPreserves ==
  ASSUME IInv,
         \/ Start
         \/ Stop
         \/ \E k \in Callback : register_cb(k)
         \/ onceNoCallback
  PROVE  IInv'
  <1> USE DEF IInv
  <1>1. /\ UNCHANGED clientVars /\ UNCHANGED replies /\ UNCHANGED unreported
        /\ srv' \in {"up", "down"}
        /\ cb' \in {{}} \cup {{k} : k \in Callback}
        /\ cur' \subseteq cur
        /\ requests' \subseteq requests
    BY DEF Start, Stop, register_cb, onceNoCallback, TypeOK
  <1>2. TypeOK'
    BY <1>1 DEF TypeOK, clientVars
  <1>3. CurIsFull' /\ RequestsAreSent' /\ RepliesAreAnswers'
    BY <1>1 DEF CurIsFull, RequestsAreSent, RepliesAreAnswers, clientVars
  <1>4. Queued'
    BY <1>1 DEF Queued, Before, OneEach, InOrder, clientVars
  <1> QED
    BY <1>1, <1>2, <1>3, <1>4, ServerKeepsClients

(* once(), receive: a request moves from the head of requests to cur. *)
LEMMA OnceReceivePreserves ==
  ASSUME IInv, onceReceive
  PROVE  IInv'
  <1> USE DEF IInv
  <1>1. PICK d \in requests :
          /\ IsNext(requests, d)
          /\ requests' \in Take(requests, d)
          /\ cur' = IF \/ Len(Delivered(ReqSize, d.data)) = 0
                       \/ Len(Delivered(ReqSize, d.data)) # ReqSize
                    THEN {} ELSE {d}
    BY DEF onceReceive
  <1>2. cur = {} /\ UNCHANGED <<srv, cb, replies, unreported>> /\ UNCHANGED clientVars
    BY DEF onceReceive
  <1>3. requests' \subseteq requests /\ cur' \subseteq {d}
    BY <1>1 DEF Take
  <1>4. TypeOK'
    BY <1>2, <1>3 DEF TypeOK, clientVars
  <1>5. CurIsFull'
    <2>1. d.data = <<>> => cur' = {}
      BY <1>1, SizeAssumption, DeliveredEmpty
    <2> QED
      BY <1>3, <2>1 DEF CurIsFull
  <1>6. RequestsAreSent' /\ RepliesAreAnswers'
    BY <1>2, <1>3 DEF RequestsAreSent, RepliesAreAnswers, clientVars
  <1>7. Queued'
    <2> SUFFICES ASSUME InOrder PROVE Queued'
      BY DEF Queued, InOrder
    <2>1. requests' = requests \ {d}
      BY <1>1 DEF Take, InOrder
    <2>2. Before({d}, requests')
      <3> SUFFICES ASSUME NEW e \in requests', e.client = d.client
                   PROVE  d.n < e.n
        BY DEF Before
      <3>1. e \in requests /\ e # d /\ e.n \in Nat /\ d.n \in Nat
        BY <2>1, DatagramTypes
      <3>2. d.n <= e.n
        BY <1>1, <3>1 DEF IsNext, InOrder
      <3>3. d.n # e.n
        BY <3>1 DEF Queued, OneEach
      <3> QED
        BY <3>1, <3>2, <3>3
    <2>3. Before(replies, {d})
      BY DEF Queued, Before
    <2> QED
      BY <1>2, <1>3, <2>2, <2>3 DEF Queued, Before, OneEach, clientVars
  <1> QED
    BY <1>2, <1>4, <1>5, <1>6, <1>7, ServerKeepsClients

(* once(), answer: cur becomes a reply, behind the replies that are there. *)
LEMMA OnceAnswerPreserves ==
  ASSUME IInv, onceAnswer
  PROVE  IInv'
  <1> USE DEF IInv
  <1>1. PICK d \in cur : answer(d)
    BY DEF onceAnswer
  <1>2. PICK k \in cb :
          LET r == Apply(k, Delivered(ReqSize, d.data))
              rep == [client |-> d.client, n |-> d.n, data |-> r]
          IN  replies' = replies \/ replies' = replies \cup {rep}
    BY <1>1 DEF answer, Put
  <1> DEFINE r == Apply(k, Delivered(ReqSize, d.data))
             rep == [client |-> d.client, n |-> d.n, data |-> r]
  <1>3. cur' = {} /\ UNCHANGED clientVars /\ UNCHANGED <<srv, cb, requests>>
    BY <1>1 DEF answer
  <1>4. unreported' \in BOOLEAN
    BY <1>1 DEF answer, TypeOK
  <1>5. d \in Datagrams /\ d.client \in Client /\ d.n \in Nat /\ d.data \in Message
    BY DatagramTypes
  <1>6. r \in Message
    <2>1. Delivered(ReqSize, d.data) \in [1 .. ReqSize -> 0 .. 255]
      BY <1>5, SizeAssumption, DeliveredFull DEF CurIsFull
    <2>2. k \in Callback
      BY DEF TypeOK
    <2> QED
      BY <2>1, <2>2, CallbackAssumption
  <1>7. /\ rep \in Datagrams
        /\ rep.client = d.client /\ rep.n = d.n
        /\ rep.data = Apply(k, Delivered(ReqSize, d.data))
    BY <1>5, <1>6 DEF Datagrams
  <1>8. replies' = replies \/ replies' = replies \cup {rep}
    BY <1>2
  <1> HIDE DEF r, rep
  <1>9. TypeOK'
    <2>1. replies' \in SUBSET Datagrams
      BY <1>7, <1>8 DEF TypeOK
    <2> QED
      BY <1>3, <1>4, <2>1 DEF TypeOK, clientVars
  <1>10. CurIsFull' /\ RequestsAreSent'
    BY <1>3 DEF CurIsFull, RequestsAreSent, clientVars
  <1>11. RepliesAreAnswers'
    <2>1. d.n \in 1 .. Len(sent[d.client]) /\ d.data = sent[d.client][d.n]
      BY DEF RequestsAreSent
    <2>2. k \in Callback /\ d.data # <<>>
      BY DEF TypeOK, CurIsFull
    <2>3. Returned(rep.data) \in AnswersTo(sent[rep.client][rep.n])
      BY <1>7, <2>1, <2>2 DEF AnswersTo
    <2> QED
      BY <1>3, <1>7, <1>8, <2>1, <2>3 DEF RepliesAreAnswers, clientVars
  <1>12. Queued'
    <2> SUFFICES ASSUME InOrder PROVE Queued'
      BY DEF Queued, InOrder
    <2>1. \A e \in replies : e.n \in Nat
      BY DatagramTypes
    <2>2. \A e \in replies : e.client = rep.client => e.n < rep.n
      BY <1>7 DEF Queued, Before
    <2>3. OneEach(replies')
      BY <1>5, <1>7, <1>8, <2>1, <2>2 DEF Queued, OneEach
    <2>4. Before(replies', requests)
      BY <1>7, <1>8 DEF Queued, Before
    <2>5. \A e \in replies' \cup requests : got[e.client] < e.n
      BY <1>7, <1>8 DEF Queued
    <2>6. Before(replies', cur') /\ Before(cur', requests) /\ OneEach(cur')
      BY <1>3 DEF Before, OneEach
    <2> QED
      BY <1>3, <2>3, <2>4, <2>5, <2>6 DEF Queued, Before, OneEach, clientVars
  <1> QED
    BY <1>3, <1>9, <1>10, <1>11, <1>12, ServerKeepsClients

(* Every step keeps the invariant, one case per action. *)
LEMMA NextIInv == IInv /\ [Next]_vars => IInv'
  <1> SUFFICES ASSUME IInv, [Next]_vars PROVE IInv'
    OBVIOUS
  <1>1. CASE \E c \in Client, m \in Requests : request(c, m)
    BY <1>1, RequestPreserves
  <1>2. CASE \E c \in Client : Receive(c)
    BY <1>2, ReceivePreserves
  <1>3. CASE \E c \in Client : TimeOut(c)
    BY <1>3, TimeOutPreserves
  <1>4. CASE Start \/ Stop \/ (\E k \in Callback : register_cb(k)) \/ onceNoCallback
    BY <1>4, ServerControlPreserves
  <1>5. CASE onceReceive
    BY <1>5, OnceReceivePreserves
  <1>6. CASE onceAnswer
    BY <1>6, OnceAnswerPreserves
  <1>7. CASE UNCHANGED vars
    BY <1>7 DEF vars, IInv, TypeOK, OwnReply, LagBound, InOrder, CurIsFull,
                RequestsAreSent, RepliesAreAnswers, Queued, Before, OneEach
  <1> QED
    BY <1>1, <1>2, <1>3, <1>4, <1>5, <1>6, <1>7 DEF Next

(* The inductive invariant holds throughout. *)
THEOREM Invariance == Spec => []IInv
  BY InitIInv, NextIInv, PTL DEF Spec

(* Type correctness of clients, server and datagrams. *)
THEOREM TypeCorrect == Spec => []TypeOK
  <1>1. IInv => TypeOK
    BY DEF IInv
  <1> QED
    BY <1>1, Invariance, PTL

(* request() returns nothing but an answer to a request of the same        *)
(* client, on every network: lossy, duplicating, reordering.               *)
THEOREM RepliesAreOwn == Spec => []OwnReply
  <1>1. IInv => OwnReply
    BY DEF IInv
  <1> QED
    BY <1>1, Invariance, PTL

(* How far behind a client's replies can fall: one per timeout. *)
THEOREM LagIsBounded == Spec => []LagBound
  <1>1. IInv => LagBound
    BY DEF IInv
  <1> QED
    BY <1>1, Invariance, PTL

(* Without timeouts every call returns its own answer: the bound is 0 and  *)
(* no reply is ahead of the requests.                                      *)
THEOREM UntimedCallsMatch == Spec => []Matched
  <1>1. IInv => Matched
    <2> SUFFICES ASSUME IInv, InOrder, NEW c \in Client,
                        timeouts[c] = 0, pc[c] = "idle"
                 PROVE  got[c] = Len(sent[c])
      BY DEF Matched
    <2>1. got[c] \in Nat /\ Len(sent[c]) \in Nat
      BY DEF IInv, TypeOK
    <2>2. Len(sent[c]) <= got[c] /\ got[c] <= Len(sent[c])
      BY <2>1 DEF IInv, LagBound, Queued
    <2> QED
      BY <2>1, <2>2
  <1> QED
    BY <1>1, Invariance, PTL

(* The steps of one client are RemoteCall's, the server's steps stutter. *)
THEOREM Refinement == Spec => ImplementsRemoteCall
  <1>1. Init => RPC!Init
    BY DEF Init, RPC!Init
  <1>2. ASSUME IInv, [Next]_vars PROVE [RPC!Next]_(RPC!vars)
    <2>1. ASSUME NEW c \in Client, NEW m \in Requests, request(c, m)
          PROVE  RPC!Next
      <3>1. RPC!Call(c, m)
        BY <1>2, <2>1 DEF request, RPC!Call, IInv, TypeOK
      <3> QED
        BY <3>1 DEF RPC!Next
    <2>2. ASSUME NEW c \in Client, Receive(c)
          PROVE  RPC!Next
      <3>1. PICK d \in replies :
              /\ d.client = c
              /\ got' = [got EXCEPT ![c] = d.n]
              /\ res' = [res EXCEPT ![c] = Returned(d.data)]
        BY <2>2 DEF Receive
      <3>2. /\ d.n \in 1 .. Len(sent[c])
            /\ Returned(d.data) \in AnswersTo(sent[c][d.n])
            /\ InOrder => got[c] < d.n
        BY <1>2, <3>1 DEF IInv, RepliesAreAnswers, Queued
      <3>3. RPC!ReturnAnswer(c, d.n)
        BY <1>2, <2>2, <3>1, <3>2 DEF Receive, RPC!ReturnAnswer, IInv, TypeOK
      <3> QED
        BY <3>2, <3>3 DEF RPC!Next
    <2>3. ASSUME NEW c \in Client, TimeOut(c)
          PROVE  RPC!Next
      <3>1. PICK h \in {"threw", "empty"} :
              res' = [res EXCEPT ![c] = [how |-> h, msg |-> <<>>]]
        BY <2>3 DEF TimeOut
      <3>2. RPC!ReturnNothing(c)
        BY <1>2, <2>3, <3>1 DEF TimeOut, RPC!ReturnNothing, IInv, TypeOK
      <3> QED
        BY <3>2 DEF RPC!Next
    <2>4. ASSUME \/ Start \/ Stop \/ \E k \in Callback : register_cb(k)
                 \/ onceReceive \/ onceAnswer \/ onceNoCallback
                 \/ UNCHANGED vars
          PROVE  UNCHANGED RPC!vars
      BY <2>4 DEF Start, Stop, register_cb, onceReceive, onceAnswer, answer,
                  onceNoCallback, clientVars, vars, RPC!vars
    <2> QED
      BY <1>2, <2>1, <2>2, <2>3, <2>4 DEF Next
  <1>3. IInv /\ [Next]_vars => [RPC!Next]_(RPC!vars)
    BY <1>2
  <1> QED
    BY <1>1, <1>3, Invariance, PTL DEF Spec, RPC!Spec, ImplementsRemoteCall
=============================================================================
