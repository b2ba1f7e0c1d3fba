------------------------------ MODULE RemoteCall ------------------------------
(***************************************************************************)
(* What request() promises its callers, with neither server nor network:   *)
(* a call either gives up or returns an answer to one of the requests the  *)
(* same client has made.  InOrder means that no request is answered twice  *)
(* and no answer is older than the one before; it does not mean that the   *)
(* answer belongs to the call that returns it.                             *)
(***************************************************************************)
EXTENDS Naturals, Sequences

CONSTANTS Client,
          Msg,         \* what clients ask
          Answers(_),  \* the answers a request may be given
          GaveUp,      \* the results of a call that gave up
          NotYet,      \* the result before the first call
          InOrder      \* are the answers in the order of the requests?

VARIABLES busy,    \* [Client -> BOOLEAN]: inside a call
          asked,   \* [Client -> Seq(Msg)]: the requests so far
          result,  \* [Client -> result]: of the last call
          last     \* [Client -> Nat]: number of the last request answered

vars == <<busy, asked, result, last>>

Init ==
    /\ busy = [c \in Client |-> FALSE]
    /\ asked = [c \in Client |-> <<>>]
    /\ result = [c \in Client |-> NotYet]
    /\ last = [c \in Client |-> 0]

Call(c, m) ==
    /\ ~busy[c]
    /\ busy' = [busy EXCEPT ![c] = TRUE]
    /\ asked' = [asked EXCEPT ![c] = Append(@, m)]
    /\ UNCHANGED <<result, last>>

ReturnAnswer(c, n) ==
    /\ busy[c]
    /\ InOrder => last[c] < n
    /\ busy' = [busy EXCEPT ![c] = FALSE]
    /\ last' = [last EXCEPT ![c] = n]
    /\ \E r \in Answers(asked[c][n]) : result' = [result EXCEPT ![c] = r]
    /\ UNCHANGED asked

ReturnNothing(c) ==
    /\ busy[c]
    /\ busy' = [busy EXCEPT ![c] = FALSE]
    /\ \E r \in GaveUp : result' = [result EXCEPT ![c] = r]
    /\ UNCHANGED <<asked, last>>

Next ==
    \E c \in Client :
        \/ \E m \in Msg : Call(c, m)
        \/ \E n \in 1 .. Len(asked[c]) : ReturnAnswer(c, n)
        \/ ReturnNothing(c)

Spec == Init /\ [][Next]_vars
=============================================================================
