-------------------------------- MODULE Topic --------------------------------
(***************************************************************************)
(* What Publisher and Subscriber promise together (pub_sub.hpp): a         *)
(* subscriber whose address was registered is given messages that were     *)
(* published, perhaps with gaps; in the order of publication if the        *)
(* network keeps the order, and no message more often than the publisher   *)
(* has its address if the network repeats nothing.                         *)
(***************************************************************************)
EXTENDS Naturals, Sequences, FiniteSets

CONSTANTS Sub,      \* subscribers
          Data,     \* messages
          NetKind   \* [ordered : BOOLEAN, once : BOOLEAN]

VARIABLES
    net,        \* NetKind: what the network guarantees
    published,  \* Seq(Data)
    copies,     \* [Sub -> Nat]: how often an address is registered
    got         \* [Sub -> Seq(Nat)]: numbers of the messages received since
                \* the subscriber came

topicVars == <<net, published, copies, got>>

Init ==
    /\ net \in NetKind
    /\ published = <<>>
    /\ copies = [s \in Sub |-> 0]
    /\ got = [s \in Sub |-> <<>>]

Register(s) ==
    /\ copies' = [copies EXCEPT ![s] = @ + 1]
    /\ UNCHANGED <<net, published, got>>

Publish(d) ==
    /\ published' = Append(published, d)
    /\ UNCHANGED <<net, copies, got>>

Times(n, q) == Cardinality({i \in 1 .. Len(q) : q[i] = n})

Receive(s, n) ==
    /\ copies[s] > 0
    /\ net.ordered => \A i \in 1 .. Len(got[s]) : got[s][i] <= n
    /\ net.once => Times(n, got[s]) < copies[s]
    /\ got' = [got EXCEPT ![s] = Append(@, n)]
    /\ UNCHANGED <<net, published, copies>>

(* A subscriber that leaves may come back, knowing nothing.                *)
Leave(s) ==
    /\ got' = [got EXCEPT ![s] = <<>>]
    /\ UNCHANGED <<net, published, copies>>

Next ==
    \/ \E s \in Sub : Register(s)
    \/ \E d \in Data : Publish(d)
    \/ \E s \in Sub, n \in 1 .. Len(published) : Receive(s, n)
    \/ \E s \in Sub : Leave(s)

Spec == Init /\ [][Next]_topicVars
=============================================================================
