----------------------------- MODULE PubSubProofs -----------------------------
(***************************************************************************)
(* PubSub's safety properties, for any number of subscribers, addresses,   *)
(* messages and callbacks, for both socket classes, every queue length and *)
(* whatever the network below UDP keeps to, and that it implements Topic.  *)
(*                                                                         *)
(* The argument: publish() puts a message at most once per place in        *)
(* clientaddrs into a subscriber's queue and takes the places in turn      *)
(* (CopiesTried), which the network can only undo where it guarantees      *)
(* less (NetworkPreserves); on Unix sockets it leaves out nobody who listens         *)
(* (HalfPublished), and once() walks the queue and, for every message, the *)
(* callbacks in turn (CallingBack).                                        *)
(***************************************************************************)
EXTENDS PubSub, SequenceTheorems, FiniteSetTheorems, TLAPS

-----------------------------------------------------------------------------
(* Counting in a sequence.                                                 *)

LEMMA PlacesFinite ==
  ASSUME NEW n \in Nat, NEW A, A \subseteq 1 .. n
  PROVE  IsFiniteSet(A) /\ Cardinality(A) \in Nat
  <1>1. IsFiniteSet(1 .. n)
    BY FS_Interval
  <1> QED
    BY <1>1, FS_Subset, FS_CardinalityType

LEMMA PlacesMonotone ==
  ASSUME NEW n \in Nat, NEW A, NEW B, A \subseteq B, B \subseteq 1 .. n
  PROVE  Cardinality(A) <= Cardinality(B)
  BY PlacesFinite, FS_Subset

LEMMA PlacesAdd ==
  ASSUME NEW n \in Nat, NEW A, A \subseteq 1 .. n, NEW x, x \notin A
  PROVE  Cardinality(A \cup {x}) = Cardinality(A) + 1
  BY PlacesFinite, FS_AddElement

LEMMA OccurrencesType ==
  ASSUME NEW S, NEW q \in Seq(S), NEW x
  PROVE  Occurrences(q, x) \in Nat
  <1>1. Len(q) \in Nat
    BY LenProperties
  <1> QED
    BY <1>1, PlacesFinite DEF Occurrences

LEMMA OccurrencesEmpty ==
  ASSUME NEW x PROVE Occurrences(<<>>, x) = 0
  <1>1. {i \in 1 .. Len(<<>>) : <<>>[i] = x} = {}
    OBVIOUS
  <1> QED
    BY <1>1, FS_EmptySet DEF Occurrences

LEMMA OccurrencesPositive ==
  ASSUME NEW S, NEW q \in Seq(S), NEW x
  PROVE  Occurrences(q, x) > 0 <=> \E i \in 1 .. Len(q) : q[i] = x
  <1> DEFINE A == {i \in 1 .. Len(q) : q[i] = x}
  <1>1. Len(q) \in Nat
    BY LenProperties
  <1>2. IsFiniteSet(A) /\ Cardinality(A) \in Nat
    BY <1>1, PlacesFinite
  <1>3. Cardinality(A) = 0 <=> A = {}
    BY <1>2, FS_EmptySet
  <1> QED
    BY <1>2, <1>3 DEF Occurrences

LEMMA OccurrencesAppend ==
  ASSUME NEW S, NEW q \in Seq(S), NEW x, NEW y \in S
  PROVE  Occurrences(Append(q, y), x)
           = IF x = y THEN Occurrences(q, x) + 1 ELSE Occurrences(q, x)
  <1> DEFINE A == {i \in 1 .. Len(q) : q[i] = x}
             B == {i \in 1 .. Len(Append(q, y)) : Append(q, y)[i] = x}
  <1>1. Len(q) \in Nat
    BY LenProperties
  <1>2. /\ Len(Append(q, y)) = Len(q) + 1
        /\ Append(q, y)[Len(q) + 1] = y
        /\ \A i \in 1 .. Len(q) : Append(q, y)[i] = q[i]
    BY AppendProperties
  <1>3. B = IF x = y THEN A \cup {Len(q) + 1} ELSE A
    BY <1>1, <1>2
  <1>4. Len(q) + 1 \notin A
    BY <1>1
  <1>5. Cardinality(A \cup {Len(q) + 1}) = Cardinality(A) + 1
    BY <1>1, <1>4, PlacesAdd
  <1> QED
    BY <1>3, <1>5 DEF Occurrences

(* A prefix holds no more than the whole. *)
LEMMA OccurrencesPrefix ==
  ASSUME NEW S, NEW q \in Seq(S), NEW x, NEW k \in 0 .. Len(q)
  PROVE  Occurrences(SubSeq(q, 1, k), x) <= Occurrences(q, x)
  <1> DEFINE A == {i \in 1 .. Len(SubSeq(q, 1, k)) : SubSeq(q, 1, k)[i] = x}
             B == {i \in 1 .. Len(q) : q[i] = x}
  <1>1. Len(q) \in Nat /\ k \in Nat
    BY LenProperties
  <1>2. Len(SubSeq(q, 1, k)) = k /\ \A i \in 1 .. k : SubSeq(q, 1, k)[i] = q[i]
    BY <1>1
  <1>3. A \subseteq B
    BY <1>1, <1>2
  <1> QED
    BY <1>1, <1>3, PlacesMonotone DEF Occurrences

(* Neither does what can be mapped into it place by place. *)
LEMMA OccurrencesMapped ==
  ASSUME NEW S, NEW q \in Seq(S), NEW w \in Seq(S), NEW x,
         NEW f \in [1 .. Len(w) -> 1 .. Len(q)],
         \A i, j \in 1 .. Len(w) : f[i] = f[j] => i = j,
         \A i \in 1 .. Len(w) : w[i] = q[f[i]]
  PROVE  Occurrences(w, x) <= Occurrences(q, x)
  <1> DEFINE A == {i \in 1 .. Len(w) : w[i] = x}
             B == {i \in 1 .. Len(q) : q[i] = x}
             g == [i \in A |-> f[i]]
  <1>1. Len(q) \in Nat
    BY LenProperties
  <1>2. IsFiniteSet(B)
    BY <1>1, PlacesFinite
  <1>3. g \in [A -> B]
    OBVIOUS
  <1>4. \A i, j \in A : g[i] = g[j] => i = j
    OBVIOUS
  <1>5. g \in Injection(A, B)
    BY <1>3, <1>4, Zenon DEF Injection, IsInjective
  <1> HIDE DEF A, B, g
  <1>6. Cardinality(A) <= Cardinality(B)
    BY <1>2, <1>5, FS_Injection
  <1> QED
    BY <1>6 DEF Occurrences, A, B

(* A suffix holds no more than the whole and keeps its order. *)
LEMMA Suffix ==
  ASSUME NEW m \in Nat, NEW q \in Seq(1 .. m), NEW k \in 1 .. Len(q) + 1
  PROVE  LET w == SubSeq(q, k, Len(q))
         IN  /\ w \in Seq(1 .. m)
             /\ \A x : Occurrences(w, x) <= Occurrences(q, x)
             /\ (\A i, j \in 1 .. Len(q) : i < j => q[i] <= q[j])
                   => \A i, j \in 1 .. Len(w) : i < j => w[i] <= w[j]
             /\ w # <<>> => q # <<>>
  <1> DEFINE w == SubSeq(q, k, Len(q))
             f == [i \in 1 .. Len(w) |-> i + k - 1]
  <1>1. Len(q) \in Nat /\ k \in Nat /\ k >= 1 /\ k <= Len(q) + 1
    BY LenProperties
  <1>2. /\ w \in Seq(1 .. m) /\ Len(w) = Len(q) + 1 - k
        /\ \A i \in 1 .. Len(w) : w[i] = q[i + k - 1]
    <2>1. \A i \in 1 .. Len(q) : q[i] \in 1 .. m
      BY ElementOfSeq
    <2>2. \A i \in k .. Len(q) : q[i] \in 1 .. m
      BY <1>1, <2>1
    <2>3. w = [i \in 1 .. Len(q) + 1 - k |-> q[i + k - 1]]
      BY <1>1
    <2>4. Len(q) + 1 - k \in Nat
      BY <1>1
    <2>5. \A i \in 1 .. Len(q) + 1 - k : i + k - 1 \in k .. Len(q)
      BY <1>1
    <2>6. w \in [1 .. Len(q) + 1 - k -> 1 .. m]
      BY <2>2, <2>3, <2>5
    <2> HIDE DEF w
    <2>7. w \in Seq(1 .. m) /\ Len(w) = Len(q) + 1 - k
      BY <2>4, <2>6, SeqDef, LenProperties
    <2> QED
      BY <2>3, <2>7
  <1> HIDE DEF w
  <1>3. \A i \in 1 .. Len(w) : i + k - 1 \in 1 .. Len(q)
    BY <1>1, <1>2
  <1>4. f \in [1 .. Len(w) -> 1 .. Len(q)]
    BY <1>3
  <1>5. \A i, j \in 1 .. Len(w) : f[i] = f[j] => i = j
    BY <1>1, <1>2
  <1>6. \A i \in 1 .. Len(w) : w[i] = q[f[i]]
    BY <1>2
  <1> HIDE DEF f
  <1>7. \A x : Occurrences(w, x) <= Occurrences(q, x)
    BY <1>2, <1>4, <1>5, <1>6, OccurrencesMapped
  <1>8. ASSUME \A i, j \in 1 .. Len(q) : i < j => q[i] <= q[j],
               NEW i \in 1 .. Len(w), NEW j \in 1 .. Len(w), i < j
        PROVE  w[i] <= w[j]
    <2>1. i + k - 1 \in 1 .. Len(q) /\ j + k - 1 \in 1 .. Len(q) /\ i + k - 1 < j + k - 1
      BY <1>1, <1>2, <1>3, <1>8
    <2>2. w[i] = q[i + k - 1] /\ w[j] = q[j + k - 1]
      BY <1>2
    <2> QED
      BY <1>8, <2>1, <2>2
  <1>9. w # <<>> => q # <<>>
    <2>1. ASSUME q = <<>> PROVE w = <<>>
      <3>1. Len(w) = 0
        BY <1>1, <1>2, <2>1
      <3> QED
        BY <1>2, <3>1, EmptySeq
    <2> QED
      BY <2>1
  <1> QED
    BY <1>2, <1>7, <1>8, <1>9 DEF w

(* Two neighbours that change places: the same messages as often. *)
LEMMA Swapped ==
  ASSUME NEW S, NEW q \in Seq(S), NEW i \in 1 .. Len(q) - 1
  PROVE  LET w == [q EXCEPT ![i] = q[i + 1], ![i + 1] = q[i]]
         IN  /\ w \in Seq(S) /\ Len(w) = Len(q)
             /\ \A j \in 1 .. Len(q) : j # i /\ j # i + 1 => w[j] = q[j]
             /\ \A x : Occurrences(w, x) <= Occurrences(q, x)
  <1> DEFINE w == [q EXCEPT ![i] = q[i + 1], ![i + 1] = q[i]]
             f == [j \in 1 .. Len(q) |->
                     IF j = i THEN i + 1 ELSE IF j = i + 1 THEN i ELSE j]
  <1>1. Len(q) \in Nat /\ i \in 1 .. Len(q) /\ i + 1 \in 1 .. Len(q)
    BY LenProperties
  <1>2. q \in [1 .. Len(q) -> S] /\ \A j \in 1 .. Len(q) : q[j] \in S
    BY LenProperties, ElementOfSeq
  <1>3. /\ w \in [1 .. Len(q) -> S] /\ w[i] = q[i + 1] /\ w[i + 1] = q[i]
        /\ \A j \in 1 .. Len(q) : j # i /\ j # i + 1 => w[j] = q[j]
    BY <1>1, <1>2
  <1> HIDE DEF w
  <1>4. w \in Seq(S) /\ Len(w) = Len(q)
    BY <1>1, <1>3, SeqDef, LenProperties
  <1>5. f \in [1 .. Len(w) -> 1 .. Len(q)]
    BY <1>1, <1>4
  <1>6. \A j, k \in 1 .. Len(w) : f[j] = f[k] => j = k
    BY <1>1, <1>4
  <1>7. \A j \in 1 .. Len(w) : w[j] = q[f[j]]
    BY <1>1, <1>3, <1>4
  <1> HIDE DEF f
  <1>8. \A x : Occurrences(w, x) <= Occurrences(q, x)
    BY <1>4, <1>5, <1>6, <1>7, OccurrencesMapped
  <1> QED
    BY <1>3, <1>4, <1>8 DEF w

-----------------------------------------------------------------------------
(* What the type invariant says of one subscriber. *)
LEMMA Typed ==
  ASSUME TypeOK, NEW s \in Sub
  PROVE  /\ Len(addrs) \in Nat /\ Len(log) \in Nat /\ pos \in Nat /\ pos <= Len(addrs)
         /\ inbox[s] \in Seq(1 .. Len(log)) /\ Len(inbox[s]) \in Nat
         /\ \A p \in 1 .. Len(inbox[s]) : inbox[s][p] \in 1 .. Len(log)
         /\ taken[s] \in Nat /\ taken[s] <= Len(inbox[s])
         /\ calls[s] \in Seq([since : Nat, seen : Seq(1 .. Len(log))])
         /\ Len(calls[s]) \in Nat
         /\ \A i \in 1 .. Len(calls[s]) :
               /\ calls[s][i] \in [since : Nat, seen : Seq(1 .. Len(log))]
               /\ calls[s][i].since \in Nat
               /\ calls[s][i].seen \in Seq(1 .. Len(log))
               /\ Len(calls[s][i].seen) \in Nat
         /\ next[s] \in Nat /\ next[s] <= Len(calls[s])
         /\ from[s] \in 0 .. Len(log) + 1
  <1>1. /\ inbox[s] \in Seq(1 .. Len(log)) /\ addrs \in Seq(Sub) /\ log \in Seq(Data)
        /\ calls[s] \in Seq([since : Nat, seen : Seq(1 .. Len(log))])
        /\ pos \in 0 .. Len(addrs)
    BY DEF TypeOK
  <1>2. /\ Len(addrs) \in Nat /\ Len(log) \in Nat /\ Len(inbox[s]) \in Nat
        /\ Len(calls[s]) \in Nat
    BY <1>1, LenProperties
  <1>3. \A p \in 1 .. Len(inbox[s]) : inbox[s][p] \in 1 .. Len(log)
    BY <1>1, ElementOfSeq
  <1>4. ASSUME NEW i \in 1 .. Len(calls[s])
        PROVE  /\ calls[s][i] \in [since : Nat, seen : Seq(1 .. Len(log))]
               /\ calls[s][i].since \in Nat
               /\ calls[s][i].seen \in Seq(1 .. Len(log))
               /\ Len(calls[s][i].seen) \in Nat
    <2>1. calls[s][i] \in [since : Nat, seen : Seq(1 .. Len(log))]
      BY <1>1, ElementOfSeq
    <2> QED
      BY <2>1, LenProperties
  <1> QED
    BY <1>1, <1>2, <1>3, <1>4 DEF TypeOK

(* A longer log leaves the types of what refers to it. *)
LEMMA TypesGrow ==
  ASSUME NEW n \in Nat, NEW m \in Nat, n <= m
  PROVE  /\ Seq(1 .. n) \subseteq Seq(1 .. m)
         /\ Seq([since : Nat, seen : Seq(1 .. n)])
               \subseteq Seq([since : Nat, seen : Seq(1 .. m)])
         /\ 0 .. n + 1 \subseteq 0 .. m + 1
  <1>1. 1 .. n \subseteq 1 .. m
    OBVIOUS
  <1>2. Seq(1 .. n) \subseteq Seq(1 .. m)
    BY <1>1, SeqMonotonic
  <1>3. [since : Nat, seen : Seq(1 .. n)] \subseteq [since : Nat, seen : Seq(1 .. m)]
    BY <1>2
  <1>4. Seq([since : Nat, seen : Seq(1 .. n)])
          \subseteq Seq([since : Nat, seen : Seq(1 .. m)])
    BY <1>3, SeqMonotonic
  <1>5. 0 .. n + 1 \subseteq 0 .. m + 1
    OBVIOUS
  <1> QED
    BY <1>2, <1>4, <1>5, Zenon

(* The callbacks' properties are about the messages taken so far. *)
LEMMA CallbacksKept ==
  ASSUME TypeOK, CallingBack, EveryCallback,
         UNCHANGED <<taken, calls, next>>,
         \A s \in Sub : \A p \in 1 .. taken[s] :
            inbox'[s][p] = inbox[s][p] /\ log'[inbox[s][p]] = log[inbox[s][p]]
  PROVE  CallingBack' /\ EveryCallback'
  <1>1. CallingBack'
    <2> SUFFICES ASSUME NEW s \in Sub
                 PROVE  /\ next[s] > 0 => taken[s] > 0 /\ log'[inbox'[s][taken[s]]] # <<>>
                        /\ \A i \in 1 .. Len(calls[s]) :
                              calls[s][i].since <= IF next[s] = 0 THEN taken[s] ELSE taken[s] - 1
      BY DEF CallingBack
    <2>1. taken[s] \in Nat
      BY Typed
    <2>2. taken[s] > 0 => taken[s] \in 1 .. taken[s]
      BY <2>1
    <2> QED
      BY <2>2 DEF CallingBack
  <1>2. ASSUME NEW s \in Sub, NEW i \in 1 .. Len(calls[s])
        PROVE  AllSeen(inbox[s], log, calls[s][i].since, calls[s][i].seen, Shown(s, i))'
    <2> DEFINE since == calls[s][i].since
               seen == calls[s][i].seen
               upTo == Shown(s, i)
    <2>1. since \in Nat /\ Len(seen) \in Nat /\ taken[s] \in Nat
      BY Typed
    <2>2. upTo \in Int /\ upTo <= taken[s]
      BY <2>1 DEF Shown
    <2>3. Shown(s, i)' = upTo
      BY DEF Shown
    <2>4. PICK at \in [1 .. Len(seen) -> since + 1 .. upTo] :
              /\ \A j, k \in 1 .. Len(seen) : j < k => at[j] < at[k]
              /\ \A k \in 1 .. Len(seen) : seen[k] = inbox[s][at[k]]
              /\ \A p \in since + 1 .. upTo :
                    log[inbox[s][p]] # <<>> <=> \E k \in 1 .. Len(seen) : at[k] = p
      BY DEF EveryCallback, AllSeen
    <2>5. \A p \in since + 1 .. upTo : p \in 1 .. taken[s]
      BY <2>1, <2>2
    <2>6. \A k \in 1 .. Len(seen) : seen[k] = inbox'[s][at[k]]
      BY <2>4, <2>5
    <2>7. \A p \in since + 1 .. upTo :
            log'[inbox'[s][p]] # <<>> <=> \E k \in 1 .. Len(seen) : at[k] = p
      BY <2>4, <2>5
    <2>8. calls' = calls
      OBVIOUS
    <2> QED
      BY <2>3, <2>4, <2>6, <2>7, <2>8 DEF AllSeen
  <1> QED
    BY <1>1, <1>2 DEF EveryCallback

(* A callback just registered has seen all of nothing. *)
LEMMA SeenNothing ==
  ASSUME NEW q, NEW lg, NEW n \in Nat
  PROVE  AllSeen(q, lg, n, <<>>, n)
  <1> DEFINE at == [k \in 1 .. 0 |-> n + 1]
  <1>1. at \in [1 .. Len(<<>>) -> n + 1 .. n]
    OBVIOUS
  <1>2. n + 1 .. n = {} /\ 1 .. Len(<<>>) = {}
    OBVIOUS
  <1> QED
    BY <1>1, <1>2 DEF AllSeen

(* An empty message is not shown to the callbacks. *)
LEMMA SeenEmptyMessage ==
  ASSUME NEW q, NEW lg, NEW since \in Nat, NEW S, NEW seen \in Seq(S), NEW upTo \in Nat,
         since <= upTo, AllSeen(q, lg, since, seen, upTo),
         lg[q[upTo + 1]] = <<>>
  PROVE  AllSeen(q, lg, since, seen, upTo + 1)
  <1>1. PICK at \in [1 .. Len(seen) -> since + 1 .. upTo] :
            /\ \A j, k \in 1 .. Len(seen) : j < k => at[j] < at[k]
            /\ \A k \in 1 .. Len(seen) : seen[k] = q[at[k]]
            /\ \A p \in since + 1 .. upTo :
                  lg[q[p]] # <<>> <=> \E k \in 1 .. Len(seen) : at[k] = p
    BY DEF AllSeen
  <1>2. at \in [1 .. Len(seen) -> since + 1 .. upTo + 1]
    OBVIOUS
  <1>3. \A k \in 1 .. Len(seen) : at[k] # upTo + 1
    OBVIOUS
  <1>4. ASSUME NEW p \in since + 1 .. upTo + 1
        PROVE  lg[q[p]] # <<>> <=> \E k \in 1 .. Len(seen) : at[k] = p
    <2>1. CASE p = upTo + 1
      BY <1>3, <2>1
    <2>2. CASE p # upTo + 1
      <3>1. p \in since + 1 .. upTo
        BY <2>2
      <3> QED
        BY <1>1, <3>1
    <2> QED
      BY <2>1, <2>2
  <1> QED
    BY <1>1, <1>2, <1>4 DEF AllSeen

(* Any other message is shown to each of them once. *)
LEMMA SeenOneMore ==
  ASSUME NEW q, NEW lg, NEW since \in Nat, NEW S, NEW seen \in Seq(S), NEW upTo \in Nat,
         since <= upTo, AllSeen(q, lg, since, seen, upTo),
         NEW m \in S, m = q[upTo + 1], lg[m] # <<>>
  PROVE  AllSeen(q, lg, since, Append(seen, m), upTo + 1)
  <1> DEFINE len == Len(seen)
             more == Append(seen, m)
  <1>0. len \in Nat
    BY LenProperties
  <1>1. PICK at \in [1 .. len -> since + 1 .. upTo] :
            /\ \A j, k \in 1 .. len : j < k => at[j] < at[k]
            /\ \A k \in 1 .. len : seen[k] = q[at[k]]
            /\ \A p \in since + 1 .. upTo :
                  lg[q[p]] # <<>> <=> \E k \in 1 .. len : at[k] = p
    BY DEF AllSeen
  <1>2. /\ Len(more) = len + 1 /\ more[len + 1] = m
        /\ \A k \in 1 .. len : more[k] = seen[k]
    BY AppendProperties
  <1> DEFINE now == [k \in 1 .. len + 1 |-> IF k = len + 1 THEN upTo + 1 ELSE at[k]]
  <1> HIDE DEF len, more
  <1>3. \A k \in 1 .. len + 1 : k = len + 1 \/ k \in 1 .. len
    BY <1>0
  <1>3a. \A k \in 1 .. len : k # len + 1 /\ k \in 1 .. len + 1
    BY <1>0
  <1>4. /\ now[len + 1] = upTo + 1
        /\ \A k \in 1 .. len : now[k] = at[k] /\ at[k] \in since + 1 .. upTo
    BY <1>0, <1>3a
  <1>5. now \in [1 .. len + 1 -> since + 1 .. upTo + 1]
    BY <1>3, <1>4
  <1> HIDE DEF now
  <1>6. ASSUME NEW j \in 1 .. len + 1, NEW k \in 1 .. len + 1, j < k
        PROVE  now[j] < now[k]
    <2>1. j \in 1 .. len
      BY <1>0, <1>6
    <2>2. CASE k = len + 1
      BY <1>4, <2>1, <2>2
    <2>3. CASE k \in 1 .. len
      BY <1>1, <1>4, <1>6, <2>1, <2>3
    <2> QED
      BY <1>3, <2>2, <2>3
  <1>7. \A k \in 1 .. len + 1 : more[k] = q[now[k]]
    BY <1>1, <1>2, <1>3, <1>4
  <1>8. ASSUME NEW p \in since + 1 .. upTo + 1
        PROVE  lg[q[p]] # <<>> <=> \E k \in 1 .. len + 1 : now[k] = p
    <2>1. CASE p = upTo + 1
      <3>1. len + 1 \in 1 .. len + 1
        BY <1>0
      <3> QED
        BY <1>4, <2>1, <3>1
    <2>2. CASE p # upTo + 1
      <3>1. p \in since + 1 .. upTo
        BY <2>2
      <3>2. lg[q[p]] # <<>> <=> \E k \in 1 .. len : at[k] = p
        BY <1>1, <3>1
      <3>3. \A k \in 1 .. len + 1 : now[k] = p => k \in 1 .. len /\ at[k] = p
        BY <1>3, <1>4, <2>2
      <3>4. \A k \in 1 .. len : at[k] = p => k \in 1 .. len + 1 /\ now[k] = p
        BY <1>3a, <1>4
      <3> QED
        BY <3>2, <3>3, <3>4
    <2> QED
      BY <2>1, <2>2
  <1>9. AllSeen(q, lg, since, more, upTo + 1)
    <2>1. Len(more) = len + 1
      BY <1>2
    <2>2. /\ now \in [1 .. Len(more) -> since + 1 .. upTo + 1]
          /\ \A j, k \in 1 .. Len(more) : j < k => now[j] < now[k]
          /\ \A k \in 1 .. Len(more) : more[k] = q[now[k]]
          /\ \A p \in since + 1 .. upTo + 1 :
                lg[q[p]] # <<>> <=> \E k \in 1 .. Len(more) : now[k] = p
      BY <1>5, <1>6, <1>7, <1>8, <2>1
    <2> QED
      BY <2>2, Zenon DEF AllSeen
  <1> QED
    BY <1>9 DEF more

(* What each part of the invariant depends on. *)
LEMMA QueuesFrame ==
  ASSUME InOrderOnce, CopiesTried, UNCHANGED <<net, addrs, log, pos, inbox>>
  PROVE  InOrderOnce' /\ CopiesTried'
  BY DEF InOrderOnce, CopiesTried, Tried

LEMMA ListenersFrame ==
  ASSUME Listening, ReliableUnix, HalfPublished,
         UNCHANGED <<kind, net, addrs, log, pos, state, inbox, from>>
  PROVE  Listening' /\ ReliableUnix' /\ HalfPublished'
  BY DEF Listening, ReliableUnix, HalfPublished, Tried, Registered

(* The buffer a non-empty datagram is received into has DataSize bytes; an *)
(* empty one looks like a timeout.                                         *)
LEMMA DeliveredLength ==
  ASSUME NEW size \in Nat \ {0}, NEW d \in Message
  PROVE  Len(Delivered(size, d)) = 0 <=> d = <<>>
  <1>1. CASE d = <<>>
    <2>1. Delivered(size, d) = <<>>
      BY <1>1 DEF Delivered, Received, Copied
    <2> QED
      BY <1>1, <2>1
  <1>2. CASE d # <<>>
    <2>1. Len(d) \in Nat \ {0}
      BY <1>2 DEF Message
    <2>2. Copied(size, d) \in Nat \ {0}
      BY <2>1 DEF Copied
    <2>3. Delivered(size, d) = Fill(size, d)
      BY <2>2 DEF Delivered, Received, SOCKET_TIMEOUT
    <2>4. Len(Fill(size, d)) = size
      BY DEF Fill
    <2> QED
      BY <1>2, <2>3, <2>4
  <1> QED
    BY <1>1, <1>2

LEMMA InitIInv == Init => IInv
  <1> SUFFICES ASSUME Init PROVE IInv
    OBVIOUS
  <1>1. TypeOK
    <2>1. net \in NetKind /\ (kind = "Unix" => net = Reliable)
      <3>1. Reliable \in NetKind
        BY DEF NetKind, Reliable
      <3>2. net \in IF kind = "Unix" THEN {Reliable} ELSE Nets
        BY DEF Init
      <3> QED
        BY <3>1, <3>2, NetAssumption, Zenon
    <2> QED
      BY <2>1, LimitAssumption DEF Init, TypeOK
  <1>2. InOrderOnce /\ CopiesTried
    BY DEF Init, InOrderOnce, CopiesTried
  <1>3. Listening /\ ReliableUnix /\ HalfPublished
    BY DEF Init, Listening, ReliableUnix, HalfPublished
  <1>4. CallingBack /\ EveryCallback
    BY DEF Init, CallingBack, EveryCallback
  <1> QED
    BY <1>1, <1>2, <1>3, <1>4 DEF IInv

(* register_cb(): the new callback has seen nothing yet. *)
LEMMA RegisterCbPreserves ==
  ASSUME IInv, NEW s \in Sub, register_cb(s)
  PROVE  IInv'
  <1> DEFINE new == [since |-> taken[s], seen |-> <<>>]
             Rec == [since : Nat, seen : Seq(1 .. Len(log))]
  <1>0. TypeOK /\ CallingBack /\ EveryCallback
    BY DEF IInv
  <1>1. UNCHANGED <<kind, net, addrs, log, pos, state, inbox, taken, next, from>>
    BY DEF register_cb, pubVars
  <1>2. calls' = [calls EXCEPT ![s] = Append(calls[s], new)] /\ next[s] = 0
        /\ calls \in [Sub -> Seq(Rec)]
    BY <1>0 DEF register_cb, TypeOK
  <1>3. taken[s] \in Nat /\ calls[s] \in Seq(Rec) /\ Len(calls[s]) \in Nat
    BY <1>0, Typed
  <1>4. new \in Rec
    BY <1>3
  <1> HIDE DEF new, Rec
  <1>5. /\ calls'[s] = Append(calls[s], new)
        /\ \A r \in Sub \ {s} : calls'[r] = calls[r]
    BY <1>2
  <1>6. /\ Append(calls[s], new) \in Seq(Rec)
        /\ Len(calls'[s]) = Len(calls[s]) + 1
        /\ calls'[s][Len(calls[s]) + 1] = new
        /\ \A i \in 1 .. Len(calls[s]) : calls'[s][i] = calls[s][i]
    BY <1>3, <1>4, <1>5, AppendProperties
  <1>7. TypeOK'
    <2>1. calls' \in [Sub -> Seq(Rec)]
      BY <1>2, <1>6
    <2>2. \A r \in Sub : next[r] <= Len(calls'[r])
      BY <1>0, <1>2, <1>3, <1>5, <1>6 DEF TypeOK
    <2> QED
      BY <1>0, <1>1, <2>1, <2>2 DEF TypeOK, Rec
  <1>8. ASSUME NEW r \in Sub, NEW i \in 1 .. Len(calls'[r])
        PROVE  \/ r = s /\ i = Len(calls[s]) + 1
               \/ i \in 1 .. Len(calls[r]) /\ calls'[r][i] = calls[r][i]
    BY <1>3, <1>5, <1>6
  <1>9. CallingBack'
    <2>1. ASSUME NEW r \in Sub, NEW i \in 1 .. Len(calls'[r])
          PROVE  calls'[r][i].since <= IF next[r] = 0 THEN taken[r] ELSE taken[r] - 1
      <3>1. CASE r = s /\ i = Len(calls[s]) + 1
        BY <1>2, <1>3, <1>6, <3>1 DEF new
      <3>2. CASE i \in 1 .. Len(calls[r]) /\ calls'[r][i] = calls[r][i]
        BY <1>0, <3>2 DEF CallingBack
      <3> QED
        BY <1>8, <3>1, <3>2
    <2> QED
      BY <1>0, <1>1, <2>1 DEF CallingBack
  <1>10. EveryCallback'
    <2>1. ASSUME NEW r \in Sub, NEW i \in 1 .. Len(calls'[r])
          PROVE  AllSeen(inbox[r], log, calls'[r][i].since, calls'[r][i].seen, Shown(r, i))
      <3>1. CASE r = s /\ i = Len(calls[s]) + 1
        <4>1. /\ calls'[r][i].since = taken[s] /\ calls'[r][i].seen = <<>>
              /\ Shown(r, i) = taken[s]
          BY <1>2, <1>6, <3>1 DEF new, Shown
        <4> QED
          BY <1>3, <4>1, SeenNothing
      <3>2. CASE i \in 1 .. Len(calls[r]) /\ calls'[r][i] = calls[r][i]
        BY <1>0, <3>2 DEF EveryCallback
      <3> QED
        BY <1>8, <3>1, <3>2
    <2>2. \A r \in Sub, i \in Nat : Shown(r, i)' = Shown(r, i)
      BY <1>1 DEF Shown
    <2>3. \A r \in Sub : Len(calls'[r]) \in Nat
      BY <1>3, <1>5, <1>6, <1>0, Typed
    <2>4. \A r \in Sub : \A i \in 1 .. Len(calls'[r]) : i \in Nat
      BY <2>3
    <2> QED
      BY <1>1, <2>1, <2>2, <2>4 DEF EveryCallback
  <1>11. InOrderOnce' /\ CopiesTried'
    BY <1>1, QueuesFrame DEF IInv
  <1>12. Listening' /\ ReliableUnix' /\ HalfPublished'
    BY <1>1, ListenersFrame DEF IInv
  <1> QED
    BY <1>7, <1>9, <1>10, <1>11, <1>12 DEF IInv

(* once() receives a message: if it is empty no callback is due, else each *)
(* of them is.                                                             *)
LEMMA OnceReceivePreserves ==
  ASSUME IInv, NEW s \in Sub, onceReceive(s)
  PROVE  IInv'
  <1> DEFINE m == inbox[s][taken[s] + 1]
  <1>0. TypeOK /\ CallingBack /\ EveryCallback
    BY DEF IInv
  <1>1. UNCHANGED <<kind, net, addrs, log, pos, state, inbox, calls, from>>
    BY DEF onceReceive, pubVars
  <1>2. /\ taken[s] \in Nat /\ Len(inbox[s]) \in Nat /\ taken[s] + 1 <= Len(inbox[s])
        /\ next[s] = 0 /\ Len(calls[s]) \in Nat
    BY <1>0, Typed DEF onceReceive, Waiting
  <1>3. m \in 1 .. Len(log) /\ log[m] \in Message
    <2>1. taken[s] + 1 \in 1 .. Len(inbox[s])
      BY <1>2
    <2>2. m \in 1 .. Len(log)
      BY <1>0, <2>1, Typed
    <2>3. log \in Seq(Data)
      BY <1>0 DEF TypeOK
    <2>4. log[m] \in Data
      BY <2>2, <2>3, ElementOfSeq
    <2> QED
      BY <2>2, <2>4, DataAssumption
  <1>4. calls[s] = <<>> <=> Len(calls[s]) = 0
    <2>1. calls[s] \in Seq([since : Nat, seen : Seq(1 .. Len(log))])
      BY <1>0, Typed
    <2> QED
      BY <2>1
  <1>5. /\ taken' = [taken EXCEPT ![s] = taken[s] + 1]
        /\ next' = [next EXCEPT ![s] =
                      IF log[m] = <<>> \/ Len(calls[s]) = 0 THEN 0 ELSE 1]
    <2>1. Len(Delivered(DataSize, log[m])) = 0 <=> log[m] = <<>>
      BY <1>3, DataAssumption, DeliveredLength
    <2> QED
      BY <1>4, <2>1 DEF onceReceive
  <1>6. taken \in [Sub -> Nat] /\ next \in [Sub -> Nat]
    BY <1>0 DEF TypeOK
  <1>7. /\ taken'[s] = taken[s] + 1
        /\ next'[s] = IF log[m] = <<>> \/ Len(calls[s]) = 0 THEN 0 ELSE 1
        /\ \A r \in Sub \ {s} : taken'[r] = taken[r] /\ next'[r] = next[r]
        /\ taken' \in [Sub -> Nat] /\ next' \in [Sub -> Nat]
    BY <1>2, <1>5, <1>6
  <1> HIDE DEF m
  <1>8. TypeOK'
    <2>1. ASSUME NEW r \in Sub
          PROVE  taken'[r] <= Len(inbox[r]) /\ next'[r] <= Len(calls[r])
      <3>1. /\ Len(calls[r]) \in Nat
            /\ taken[r] <= Len(inbox[r]) /\ next[r] <= Len(calls[r])
        BY <1>0, Typed
      <3>2. CASE r = s
        BY <1>2, <1>7, <3>1, <3>2
      <3>3. CASE r # s
        BY <1>7, <3>1, <3>3
      <3> QED
        BY <3>2, <3>3
    <2> QED
      BY <1>0, <1>1, <1>7, <2>1 DEF TypeOK
  <1>9. CallingBack'
    <2>1. ASSUME NEW r \in Sub
          PROVE  /\ next'[r] > 0 => taken'[r] > 0 /\ log[inbox[r][taken'[r]]] # <<>>
                 /\ \A i \in 1 .. Len(calls[r]) : calls[r][i].since
                       <= IF next'[r] = 0 THEN taken'[r] ELSE taken'[r] - 1
      <3>1. CASE r = s
        <4>1. next'[s] > 0 => taken'[s] > 0 /\ log[inbox[s][taken'[s]]] # <<>>
          BY <1>2, <1>7 DEF m
        <4>2. ASSUME NEW i \in 1 .. Len(calls[s])
              PROVE  calls[s][i].since <= IF next'[s] = 0 THEN taken'[s] ELSE taken'[s] - 1
          <5>1. calls[s][i].since \in Nat /\ calls[s][i].since <= taken[s]
            BY <1>0, <1>2, Typed DEF CallingBack
          <5> QED
            BY <1>2, <1>7, <5>1
        <4> QED
          BY <3>1, <4>1, <4>2
      <3>2. CASE r # s
        BY <1>0, <1>7, <3>2 DEF CallingBack
      <3> QED
        BY <3>1, <3>2
    <2> QED
      BY <1>1, <2>1 DEF CallingBack
  <1>10. EveryCallback'
    <2>1. ASSUME NEW r \in Sub, NEW i \in 1 .. Len(calls[r])
          PROVE  AllSeen(inbox[r], log, calls[r][i].since, calls[r][i].seen, Shown(r, i)')
      <3> DEFINE since == calls[r][i].since
                 seen == calls[r][i].seen
      <3>1. since \in Nat /\ seen \in Seq(1 .. Len(log))
        BY <1>0, Typed
      <3>2. AllSeen(inbox[r], log, since, seen, Shown(r, i))
        BY <1>0 DEF EveryCallback
      <3>3. CASE r = s /\ log[m] = <<>>
        <4>1. Shown(r, i) = taken[s] /\ Shown(r, i)' = taken[s] + 1
          BY <1>2, <1>7, <3>3 DEF Shown
        <4>2. since <= taken[s]
          BY <1>0, <1>2, <3>3 DEF CallingBack
        <4>3. AllSeen(inbox[s], log, since, seen, taken[s])
          BY <3>2, <3>3, <4>1
        <4>4. log[inbox[s][taken[s] + 1]] = <<>>
          BY <3>3 DEF m
        <4> HIDE DEF since, seen
        <4>5. AllSeen(inbox[s], log, since, seen, taken[s] + 1)
          BY <1>2, <3>1, <4>2, <4>3, <4>4, SeenEmptyMessage
        <4> QED
          BY <3>3, <4>1, <4>5 DEF since, seen
      <3>4. CASE r = s /\ log[m] # <<>>
        <4>1. Len(calls[s]) # 0 /\ i >= 1
          BY <1>2, <3>4
        <4>2. Shown(r, i) = taken[s] /\ Shown(r, i)' = taken[s]
          BY <1>2, <1>7, <3>4, <4>1 DEF Shown
        <4> QED
          BY <3>2, <4>2
      <3>5. CASE r # s
        <4>1. Shown(r, i)' = Shown(r, i)
          BY <1>7, <3>5 DEF Shown
        <4> QED
          BY <3>2, <4>1
      <3> QED
        BY <3>3, <3>4, <3>5
    <2> QED
      BY <1>1, <2>1 DEF EveryCallback
  <1>11. InOrderOnce' /\ CopiesTried'
    BY <1>1, QueuesFrame DEF IInv
  <1>12. Listening' /\ ReliableUnix' /\ HalfPublished'
    BY <1>1, ListenersFrame DEF IInv
  <1> QED
    BY <1>8, <1>9, <1>10, <1>11, <1>12 DEF IInv

(* once() calls a callback: it has now seen the message, the later ones    *)
(* have not.                                                               *)
LEMMA OnceCallPreserves ==
  ASSUME IInv, NEW s \in Sub, onceCall(s)
  PROVE  IInv'
  <1> DEFINE m == inbox[s][taken[s]]
             n == next[s]
             old == calls[s][n]
             new == [old EXCEPT !.seen = Append(old.seen, m)]
             Rec == [since : Nat, seen : Seq(1 .. Len(log))]
  <1>0. TypeOK /\ CallingBack /\ EveryCallback
    BY DEF IInv
  <1>1. UNCHANGED <<kind, net, addrs, log, pos, state, inbox, taken, from>>
    BY DEF onceCall, pubVars
  <1>2. /\ n \in Nat /\ n > 0 /\ n <= Len(calls[s]) /\ Len(calls[s]) \in Nat
        /\ taken[s] \in Nat /\ taken[s] > 0 /\ log[m] # <<>> /\ taken[s] <= Len(inbox[s])
        /\ Len(inbox[s]) \in Nat
    BY <1>0, Typed DEF onceCall, CallingBack
  <1>3. m \in 1 .. Len(log)
    <2>1. taken[s] \in 1 .. Len(inbox[s])
      BY <1>2
    <2> QED
      BY <1>0, <2>1, Typed
  <1>4. old \in Rec /\ old.since \in Nat /\ old.seen \in Seq(1 .. Len(log))
    <2>1. n \in 1 .. Len(calls[s])
      BY <1>2
    <2> QED
      BY <1>0, <2>1, Typed
  <1>5. Append(old.seen, m) \in Seq(1 .. Len(log))
    BY <1>3, <1>4, AppendProperties
  <1>6. new \in Rec /\ new.since = old.since /\ new.seen = Append(old.seen, m)
    BY <1>4, <1>5
  <1>7. /\ calls \in [Sub -> Seq(Rec)] /\ calls[s] \in Seq(Rec)
        /\ next \in [Sub -> Nat]
    BY <1>0 DEF TypeOK
  <1>8. calls' = [calls EXCEPT ![s] = [calls[s] EXCEPT ![n] = new]]
        /\ next' = [next EXCEPT ![s] = IF n < Len(calls[s]) THEN n + 1 ELSE 0]
    BY DEF onceCall, NextCallback
  <1> HIDE DEF m, n, old, new, Rec
  <1>9. /\ [calls[s] EXCEPT ![n] = new] \in Seq(Rec)
        /\ Len([calls[s] EXCEPT ![n] = new]) = Len(calls[s])
    BY <1>2, <1>6, <1>7
  <1>10. /\ calls'[s][n] = new
         /\ \A i \in 1 .. Len(calls[s]) : i # n => calls'[s][i] = calls[s][i]
         /\ Len(calls'[s]) = Len(calls[s])
         /\ \A r \in Sub \ {s} : calls'[r] = calls[r] /\ next'[r] = next[r]
         /\ next'[s] = IF n < Len(calls[s]) THEN n + 1 ELSE 0
    BY <1>2, <1>7, <1>8, <1>9
  <1>11. calls' \in [Sub -> Seq(Rec)] /\ next' \in [Sub -> Nat]
    BY <1>2, <1>7, <1>8, <1>9
  <1>12. TypeOK'
    <2>1. ASSUME NEW r \in Sub
          PROVE  next'[r] <= Len(calls'[r])
      <3>1. next[r] <= Len(calls[r])
        BY <1>0, Typed
      <3>2. CASE r = s
        BY <1>2, <1>10, <3>2
      <3>3. CASE r # s
        BY <1>10, <3>1, <3>3
      <3> QED
        BY <3>2, <3>3
    <2> QED
      BY <1>0, <1>1, <1>11, <2>1 DEF TypeOK, Rec
  <1>13. CallingBack'
    <2>1. ASSUME NEW r \in Sub
          PROVE  /\ next'[r] > 0 => taken[r] > 0 /\ log[inbox[r][taken[r]]] # <<>>
                 /\ \A i \in 1 .. Len(calls'[r]) : calls'[r][i].since
                       <= IF next'[r] = 0 THEN taken[r] ELSE taken[r] - 1
      <3>1. CASE r = s
        <4>1. ASSUME NEW i \in 1 .. Len(calls[s])
              PROVE  calls'[s][i].since <= IF next'[s] = 0 THEN taken[s] ELSE taken[s] - 1
          <5>1. calls[s][i].since \in Nat /\ calls[s][i].since <= taken[s] - 1
            <6>1. calls[s][i].since \in Nat
              BY <1>0, Typed
            <6>2. next[s] # 0
              BY <1>2 DEF n
            <6> QED
              BY <1>0, <6>1, <6>2 DEF CallingBack
          <5>2. calls'[s][i].since = calls[s][i].since
            BY <1>6, <1>10 DEF old
          <5> QED
            BY <1>2, <5>1, <5>2
        <4> QED
          BY <1>2, <1>10, <3>1, <4>1 DEF m
      <3>2. CASE r # s
        BY <1>0, <1>10, <3>2 DEF CallingBack
      <3> QED
        BY <3>1, <3>2
    <2> QED
      BY <1>1, <2>1 DEF CallingBack
  <1>14. EveryCallback'
    <2>1. ASSUME NEW r \in Sub, NEW i \in 1 .. Len(calls[r])
          PROVE  AllSeen(inbox[r], log, calls'[r][i].since, calls'[r][i].seen, Shown(r, i)')
      <3>1. AllSeen(inbox[r], log, calls[r][i].since, calls[r][i].seen, Shown(r, i))
        BY <1>0 DEF EveryCallback
      <3>2. CASE r = s /\ i = n
        <4>1. Shown(r, i) = taken[s] - 1 /\ Shown(r, i)' = taken[s]
          BY <1>1, <1>2, <1>10, <3>2 DEF Shown, n
        <4>2. old.since <= taken[s] - 1
          BY <1>0, <1>2, <3>2 DEF CallingBack, n, old
        <4>3. AllSeen(inbox[s], log, old.since, old.seen, taken[s] - 1)
          BY <3>1, <3>2, <4>1 DEF old
        <4> DEFINE k == taken[s] - 1
        <4>4. k \in Nat /\ k + 1 = taken[s] /\ m = inbox[s][k + 1]
          BY <1>2 DEF m
        <4> HIDE DEF k
        <4>5. AllSeen(inbox[s], log, old.since, Append(old.seen, m), k + 1)
          <5>1. AllSeen(inbox[s], log, old.since, old.seen, k) /\ old.since <= k
            BY <4>2, <4>3 DEF k
          <5> QED
            BY <1>2, <1>3, <1>4, <4>4, <5>1, SeenOneMore
        <4> QED
          BY <1>6, <1>10, <3>2, <4>1, <4>4, <4>5
      <3>3. CASE r = s /\ i # n
        <4>1. Shown(r, i)' = Shown(r, i)
          BY <1>1, <1>2, <1>10, <3>3 DEF Shown, n
        <4> QED
          BY <1>10, <3>1, <3>3, <4>1
      <3>4. CASE r # s
        <4>1. Shown(r, i)' = Shown(r, i)
          BY <1>1, <1>10, <3>4 DEF Shown
        <4> QED
          BY <1>10, <3>1, <3>4, <4>1
      <3> QED
        BY <3>2, <3>3, <3>4
    <2>2. \A r \in Sub : Len(calls'[r]) = Len(calls[r])
      BY <1>10
    <2> QED
      BY <1>1, <2>1, <2>2 DEF EveryCallback
  <1>15. InOrderOnce' /\ CopiesTried'
    BY <1>1, QueuesFrame DEF IInv
  <1>16. Listening' /\ ReliableUnix' /\ HalfPublished'
    BY <1>1, ListenersFrame DEF IInv
  <1> QED
    BY <1>12, <1>13, <1>14, <1>15, <1>16 DEF IInv

(* A change of from alone: whoever begins to listen has no claim to what   *)
(* was published before.                                                   *)
LEMMA ListenersChange ==
  ASSUME IInv, UNCHANGED <<kind, net, addrs, log, pos, inbox>>, NEW s \in Sub,
         \A r \in Sub \ {s} : from'[r] = from[r] /\ state'[r] = state[r],
         from'[s] \in {0, Len(log) + 1},
         from'[s] > 0 => state'[s] = "up" /\ Registered(s)
  PROVE  Listening' /\ ReliableUnix' /\ HalfPublished'
  <1>0. TypeOK /\ Listening /\ ReliableUnix /\ HalfPublished
    BY DEF IInv
  <1>1. Len(log) \in Nat
    BY <1>0, Typed
  <1>2. Listening'
    <2>1. \A r \in Sub : Registered(r)' <=> Registered(r)
      BY DEF Registered
    <2> QED
      BY <1>0, <2>1 DEF Listening
  <1>3. ReliableUnix'
    <2>1. ASSUME kind = "Unix", NEW r \in Sub, from'[r] > 0,
                 NEW n \in from'[r] .. (IF pos = 0 THEN Len(log) ELSE Len(log) - 1)
          PROVE  Occurrences(inbox[r], n) > 0
      <3>1. CASE r = s
        BY <1>1, <2>1, <3>1
      <3>2. CASE r # s
        BY <1>0, <2>1, <3>2 DEF ReliableUnix
      <3> QED
        BY <3>1, <3>2
    <2> QED
      BY <2>1 DEF ReliableUnix
  <1>4. HalfPublished'
    <2>1. ASSUME kind = "Unix", pos > 0, NEW r \in Sub,
                 from'[r] \in 1 .. Len(log), Tried(r, Len(log)) # {}
          PROVE  Occurrences(inbox[r], Len(log)) > 0
      <3>1. r # s
        BY <1>1, <2>1
      <3> QED
        BY <1>0, <2>1, <3>1 DEF HalfPublished
    <2>2. \A r \in Sub : Tried(r, Len(log))' = Tried(r, Len(log))
      BY DEF Tried
    <2> QED
      BY <2>1, <2>2 DEF HalfPublished
  <1> QED
    BY <1>2, <1>3, <1>4

(* A subscriber starts: it listens from the next message on. *)
LEMMA StartPreserves ==
  ASSUME IInv, NEW s \in Sub, Start(s)
  PROVE  IInv'
  <1>0. TypeOK /\ Len(log) \in Nat
    BY Typed DEF IInv
  <1>1. UNCHANGED <<kind, net, addrs, log, pos, inbox, taken, calls, next>>
    BY DEF Start, pubVars
  <1>2. /\ state' = [state EXCEPT ![s] = "up"]
        /\ from' = [from EXCEPT ![s] = IF Registered(s) THEN Len(log) + 1 ELSE 0]
        /\ state \in [Sub -> {"down", "up", "threw"}]
        /\ from \in [Sub -> 0 .. Len(log) + 1]
    BY <1>0 DEF Start, NextMessage, TypeOK
  <1>3. TypeOK'
    <2>1. from' \in [Sub -> 0 .. Len(log) + 1] /\ state' \in [Sub -> {"down", "up", "threw"}]
      BY <1>0, <1>2
    <2> QED
      BY <1>0, <1>1, <2>1 DEF TypeOK
  <1>4. Listening' /\ ReliableUnix' /\ HalfPublished'
    <2>1. /\ \A r \in Sub \ {s} : from'[r] = from[r] /\ state'[r] = state[r]
          /\ from'[s] \in {0, Len(log) + 1}
          /\ from'[s] > 0 => state'[s] = "up" /\ Registered(s)
      BY <1>2
    <2> QED
      BY <1>1, <2>1, ListenersChange
  <1>5. InOrderOnce' /\ CopiesTried'
    BY <1>1, QueuesFrame DEF IInv
  <1>6. CallingBack' /\ EveryCallback'
    BY <1>0, <1>1, CallbacksKept DEF IInv
  <1> QED
    BY <1>3, <1>4, <1>5, <1>6 DEF IInv

(* recv() throws on a Unix socket: the subscriber listens no more. *)
LEMMA OnceTimeOutPreserves ==
  ASSUME IInv, NEW s \in Sub, onceTimeOut(s)
  PROVE  IInv'
  <1>0. TypeOK /\ Len(log) \in Nat
    BY Typed DEF IInv
  <1>1. UNCHANGED <<kind, net, addrs, log, pos, inbox, taken, calls, next>>
    BY DEF onceTimeOut, pubVars
  <1>2. /\ state' = [state EXCEPT ![s] = "threw"]
        /\ from' = [from EXCEPT ![s] = 0]
        /\ state \in [Sub -> {"down", "up", "threw"}]
        /\ from \in [Sub -> 0 .. Len(log) + 1]
    BY <1>0 DEF onceTimeOut, TypeOK
  <1>3. TypeOK'
    <2>1. from' \in [Sub -> 0 .. Len(log) + 1] /\ state' \in [Sub -> {"down", "up", "threw"}]
      BY <1>0, <1>2
    <2> QED
      BY <1>0, <1>1, <2>1 DEF TypeOK
  <1>4. Listening' /\ ReliableUnix' /\ HalfPublished'
    <2>1. /\ \A r \in Sub \ {s} : from'[r] = from[r] /\ state'[r] = state[r]
          /\ from'[s] = 0
      BY <1>2
    <2> QED
      BY <1>1, <2>1, ListenersChange
  <1>5. InOrderOnce' /\ CopiesTried'
    BY <1>1, QueuesFrame DEF IInv
  <1>6. CallingBack' /\ EveryCallback'
    BY <1>0, <1>1, CallbacksKept DEF IInv
  <1> QED
    BY <1>3, <1>4, <1>5, <1>6 DEF IInv

(* A subscriber stops or dies: at most the last of its datagrams are left. *)
LEMMA StopPreserves ==
  ASSUME IInv, NEW s \in Sub, Stop(s)
  PROVE  IInv'
  <1>0. TypeOK /\ Len(log) \in Nat
    BY Typed DEF IInv
  <1>1. UNCHANGED <<kind, net, addrs, log, pos>>
    BY DEF Stop, pubVars
  <1>q. PICK q \in Leftover(s) : inbox' = [inbox EXCEPT ![s] = q]
    BY DEF Stop
  <1>p. /\ q \in Seq(1 .. Len(log)) /\ Len(q) \in Nat
        /\ \A x : Occurrences(q, x) <= Occurrences(inbox[s], x)
        /\ (\A i, j \in 1 .. Len(inbox[s]) : i < j => inbox[s][i] <= inbox[s][j])
              => \A i, j \in 1 .. Len(q) : i < j => q[i] <= q[j]
        /\ q # <<>> => inbox[s] # <<>>
    <2>1. /\ inbox[s] \in Seq(1 .. Len(log)) /\ taken[s] \in Nat
          /\ Len(inbox[s]) \in Nat /\ taken[s] <= Len(inbox[s])
      BY <1>0, Typed
    <2>2. CASE kind = "Unix"
      <3>1. q = <<>>
        BY <2>2 DEF Leftover
      <3>2. \A x : Occurrences(inbox[s], x) \in Nat
        BY <2>1, OccurrencesType
      <3>3. \A x : Occurrences(q, x) = 0
        BY <3>1, OccurrencesEmpty
      <3> QED
        BY <3>1, <3>2, <3>3
    <2>3. CASE kind # "Unix"
      <3>1. PICK k \in taken[s] + 1 .. Len(inbox[s]) + 1 : q = SubSeq(inbox[s], k, Len(inbox[s]))
        BY <2>3 DEF Leftover
      <3>2. k \in 1 .. Len(inbox[s]) + 1
        BY <2>1
      <3> QED
        BY <1>0, <2>1, <3>1, <3>2, Suffix, LenProperties
    <2> QED
      BY <2>2, <2>3
  <1>2. /\ state' = [state EXCEPT ![s] = "down"]
        /\ inbox' = [inbox EXCEPT ![s] = q]
        /\ taken' = [taken EXCEPT ![s] = 0]
        /\ calls' = [calls EXCEPT ![s] = <<>>]
        /\ next' = [next EXCEPT ![s] = 0]
        /\ from' = [from EXCEPT ![s] = 0]
    BY <1>q DEF Stop
  <1>3. /\ state \in [Sub -> {"down", "up", "threw"}]
        /\ inbox \in [Sub -> Seq(1 .. Len(log))]
        /\ taken \in [Sub -> Nat]
        /\ calls \in [Sub -> Seq([since : Nat, seen : Seq(1 .. Len(log))])]
        /\ next \in [Sub -> Nat]
        /\ from \in [Sub -> 0 .. Len(log) + 1]
    BY <1>0 DEF TypeOK
  <1>4. /\ inbox'[s] = q /\ taken'[s] = 0 /\ calls'[s] = <<>> /\ next'[s] = 0
        /\ from'[s] = 0
    BY <1>2, <1>3
  <1>5. \A r \in Sub \ {s} :
           /\ state'[r] = state[r] /\ inbox'[r] = inbox[r] /\ taken'[r] = taken[r]
           /\ calls'[r] = calls[r] /\ next'[r] = next[r] /\ from'[r] = from[r]
    BY <1>2, <1>3
  <1>6. TypeOK'
    <2>1. /\ state' \in [Sub -> {"down", "up", "threw"}]
          /\ taken' \in [Sub -> Nat] /\ next' \in [Sub -> Nat]
      BY <1>2, <1>3
    <2>2. inbox' \in [Sub -> Seq(1 .. Len(log))]
      BY <1>2, <1>3, <1>p
    <2>3. calls' \in [Sub -> Seq([since : Nat, seen : Seq(1 .. Len(log))])]
      <3>1. <<>> \in Seq([since : Nat, seen : Seq(1 .. Len(log))])
        OBVIOUS
      <3> QED
        BY <1>2, <1>3, <3>1
    <2>4. from' \in [Sub -> 0 .. Len(log) + 1]
      BY <1>0, <1>2, <1>3
    <2>5. \A r \in Sub : taken'[r] <= Len(inbox'[r]) /\ next'[r] <= Len(calls'[r])
      <3>1. ASSUME NEW r \in Sub
            PROVE  taken'[r] <= Len(inbox'[r]) /\ next'[r] <= Len(calls'[r])
        <4>1. CASE r = s
          BY <1>4, <1>p, <4>1
        <4>2. CASE r # s
          BY <1>0, <1>5, <4>2, Typed
        <4> QED
          BY <4>1, <4>2
      <3> QED
        BY <3>1
    <2> QED
      BY <1>0, <1>1, <2>1, <2>2, <2>3, <2>4, <2>5 DEF TypeOK
  <1>7. InOrderOnce' /\ CopiesTried'
    <2>1. InOrderOnce /\ CopiesTried
      BY DEF IInv
    <2>2. ASSUME NEW r \in Sub, NEW n \in 1 .. Len(log)
          PROVE  /\ Occurrences(inbox'[r], n) \in Nat /\ Occurrences(inbox[r], n) \in Nat
                 /\ Occurrences(inbox'[r], n) <= Occurrences(inbox[r], n)
                 /\ Occurrences(addrs, r) \in Nat /\ Cardinality(Tried(r, n)) \in Nat
      <3>1. addrs \in Seq(Sub) /\ Len(addrs) \in Nat /\ inbox[r] \in Seq(1 .. Len(log))
        BY <1>0, Typed DEF TypeOK
      <3>2. inbox'[r] \in Seq(1 .. Len(log))
        BY <1>4, <1>5, <1>p, <3>1
      <3>3. Occurrences(inbox'[r], n) \in Nat /\ Occurrences(inbox[r], n) \in Nat
        BY <3>1, <3>2, OccurrencesType
      <3>4. Occurrences(inbox'[r], n) <= Occurrences(inbox[r], n)
        BY <1>4, <1>5, <1>p, <3>3
      <3>5. Tried(r, n) \subseteq 1 .. Len(addrs)
        BY DEF Tried
      <3> QED
        BY <3>1, <3>3, <3>4, <3>5, OccurrencesType, PlacesFinite
    <2>3. \A r \in Sub : \A n \in 1 .. Len(log) : Tried(r, n)' = Tried(r, n)
      BY <1>1 DEF Tried
    <2>4. InOrderOnce'
      <3>1. ASSUME net.once, NEW r \in Sub, NEW n \in 1 .. Len(log)
            PROVE  Occurrences(inbox'[r], n) <= Occurrences(addrs, r)
        BY <2>1, <2>2, <3>1 DEF InOrderOnce
      <3>2. ASSUME net.ordered, NEW r \in Sub
            PROVE  \A i, j \in 1 .. Len(inbox'[r]) : i < j => inbox'[r][i] <= inbox'[r][j]
        BY <1>4, <1>5, <1>p, <2>1, <3>2 DEF InOrderOnce
      <3> QED
        BY <1>1, <3>1, <3>2 DEF InOrderOnce
    <2>5. CopiesTried'
      <3>1. ASSUME net.once, NEW r \in Sub, NEW n \in 1 .. Len(log)
            PROVE  Occurrences(inbox'[r], n) <= Cardinality(Tried(r, n))
        BY <2>1, <2>2, <3>1 DEF CopiesTried
      <3> QED
        BY <1>1, <2>3, <3>1 DEF CopiesTried
    <2> QED
      BY <2>4, <2>5
  <1>8. Listening' /\ ReliableUnix' /\ HalfPublished'
    <2>1. Listening /\ ReliableUnix /\ HalfPublished
      BY DEF IInv
    <2>2. \A r \in Sub : Registered(r)' <=> Registered(r)
      BY <1>1 DEF Registered
    <2>3. \A r \in Sub : Tried(r, Len(log))' = Tried(r, Len(log))
      BY <1>1 DEF Tried
    <2>4. Listening'
      BY <1>1, <1>4, <1>5, <1>p, <2>1, <2>2 DEF Listening
    <2>5. ReliableUnix'
      BY <1>1, <1>4, <1>5, <2>1 DEF ReliableUnix
    <2>6. HalfPublished'
      BY <1>1, <1>4, <1>5, <2>1, <2>3 DEF HalfPublished
    <2> QED
      BY <2>4, <2>5, <2>6
  <1>9. CallingBack' /\ EveryCallback'
    <2>1. CallingBack /\ EveryCallback
      BY DEF IInv
    <2>2. 1 .. Len(calls'[s]) = {}
      BY <1>4
    <2>3. CallingBack'
      BY <1>1, <1>4, <1>5, <2>1, <2>2 DEF CallingBack
    <2>4. ASSUME NEW r \in Sub, NEW i \in 1 .. Len(calls'[r])
          PROVE  AllSeen(inbox[r], log, calls[r][i].since, calls[r][i].seen, Shown(r, i))'
      <3>1. r # s
        BY <2>2
      <3>2. Shown(r, i)' = Shown(r, i)
        BY <1>5, <3>1 DEF Shown
      <3> QED
        BY <1>1, <1>5, <2>1, <3>1, <3>2 DEF EveryCallback
    <2> QED
      BY <2>3, <2>4 DEF EveryCallback
  <1> QED
    BY <1>6, <1>7, <1>8, <1>9 DEF IInv

(* register_addr(): the publisher is between two messages, so a new place  *)
(* in clientaddrs takes part in the next one.                              *)
LEMMA RegisterAddrPreserves ==
  ASSUME IInv, NEW s \in Sub, register_addr(s)
  PROVE  IInv'
  <1>0. TypeOK /\ Len(log) \in Nat /\ Len(addrs) \in Nat /\ addrs \in Seq(Sub)
    BY Typed DEF IInv, TypeOK
  <1>1. /\ UNCHANGED <<kind, net, log, pos, state, inbox, taken, calls, next>>
        /\ pos = 0 /\ Len(addrs) < MaxAddrs /\ addrs' = Append(addrs, s)
    BY DEF register_addr, subVars
  <1>2. /\ addrs' \in Seq(Sub) /\ Len(addrs') = Len(addrs) + 1
        /\ addrs'[Len(addrs) + 1] = s
        /\ \A i \in 1 .. Len(addrs) : addrs'[i] = addrs[i]
    BY <1>0, <1>1, AppendProperties
  <1>3. /\ from \in [Sub -> 0 .. Len(log) + 1]
        /\ from' = [from EXCEPT ![s] =
              IF from[s] = 0 /\ state[s] = "up" THEN Len(log) + 1 ELSE from[s]]
    BY <1>0 DEF register_addr, NextMessage, TypeOK
  <1>4. /\ from' \in [Sub -> 0 .. Len(log) + 1]
        /\ \A r \in Sub :
              \/ from'[r] = from[r]
              \/ r = s /\ state[s] = "up" /\ from'[s] = Len(log) + 1
    <2>1. from[s] \in 0 .. Len(log) + 1 /\ Len(log) + 1 \in 0 .. Len(log) + 1
      BY <1>0, <1>3
    <2> DEFINE v == IF from[s] = 0 /\ state[s] = "up" THEN Len(log) + 1 ELSE from[s]
    <2>2. v \in 0 .. Len(log) + 1
      BY <2>1
    <2>3. from' = [from EXCEPT ![s] = v]
      BY <1>3
    <2>4. v = from[s] \/ (state[s] = "up" /\ v = Len(log) + 1)
      OBVIOUS
    <2> HIDE DEF v
    <2>5. from'[s] = v /\ \A r \in Sub \ {s} : from'[r] = from[r]
      BY <1>3, <2>3
    <2>6. from' \in [Sub -> 0 .. Len(log) + 1]
      BY <1>3, <2>2, <2>3
    <2> QED
      BY <2>4, <2>5, <2>6
  <1>5. TypeOK'
    <2>1. Len(addrs') <= MaxAddrs
      BY <1>0, <1>1, <1>2, LimitAssumption
    <2>2. pos' \in 0 .. Len(addrs')
      BY <1>0, <1>1, <1>2
    <2> QED
      BY <1>0, <1>1, <1>2, <1>4, <2>1, <2>2 DEF TypeOK
  <1>6. InOrderOnce' /\ CopiesTried'
    <2>1. InOrderOnce /\ CopiesTried
      BY DEF IInv
    <2>2. ASSUME NEW r \in Sub, NEW n \in 1 .. Len(log)
          PROVE  /\ Occurrences(inbox[r], n) \in Nat
                 /\ net.once => Occurrences(inbox[r], n) <= Occurrences(addrs, r)
                 /\ net.once => Occurrences(inbox[r], n) <= Cardinality(Tried(r, n))
      <3>1. inbox[r] \in Seq(1 .. Len(log))
        BY <1>0, Typed
      <3> QED
        BY <2>1, <3>1, OccurrencesType DEF InOrderOnce, CopiesTried
    <2>3. ASSUME NEW r \in Sub
          PROVE  Occurrences(addrs, r) \in Nat /\ Occurrences(addrs', r) >= Occurrences(addrs, r)
      <3>1. Occurrences(addrs, r) \in Nat
        BY <1>0, OccurrencesType
      <3>2. Occurrences(addrs', r) = IF r = s THEN Occurrences(addrs, r) + 1
                                              ELSE Occurrences(addrs, r)
        BY <1>0, <1>1, OccurrencesAppend
      <3> QED
        BY <3>1, <3>2
    <2>4. ASSUME NEW r \in Sub, NEW n \in 1 .. Len(log)
          PROVE  /\ Cardinality(Tried(r, n)) \in Nat /\ Cardinality(Tried(r, n)') \in Nat
                 /\ Cardinality(Tried(r, n)) <= Cardinality(Tried(r, n)')
      <3>1. Tried(r, n) \subseteq Tried(r, n)'
        BY <1>0, <1>1, <1>2 DEF Tried
      <3>2. Tried(r, n)' \subseteq 1 .. Len(addrs')
        BY DEF Tried
      <3>3. Tried(r, n) \subseteq 1 .. Len(addrs)
        BY DEF Tried
      <3>4. Len(addrs') \in Nat
        BY <1>0, <1>2
      <3> QED
        BY <1>0, <3>1, <3>2, <3>3, <3>4, PlacesFinite, PlacesMonotone
    <2>5. InOrderOnce'
      <3>1. ASSUME net.once, NEW r \in Sub, NEW n \in 1 .. Len(log)
            PROVE  Occurrences(inbox[r], n) <= Occurrences(addrs', r)
        <4>1. Occurrences(addrs', r) \in Nat
          BY <1>2, OccurrencesType
        <4> QED
          BY <2>2, <2>3, <3>1, <4>1
      <3> QED
        BY <1>1, <2>1, <3>1 DEF InOrderOnce
    <2>6. CopiesTried'
      <3>1. ASSUME net.once, NEW r \in Sub, NEW n \in 1 .. Len(log)
            PROVE  Occurrences(inbox[r], n) <= Cardinality(Tried(r, n)')
        BY <2>2, <2>4, <3>1
      <3> QED
        BY <1>1, <3>1 DEF CopiesTried
    <2> QED
      BY <2>5, <2>6
  <1>7. Listening' /\ ReliableUnix' /\ HalfPublished'
    <2>1. Listening /\ ReliableUnix
      BY DEF IInv
    <2>2. \A r \in Sub : Registered(r) => Registered(r)'
      BY <1>0, <1>2 DEF Registered
    <2>3. Registered(s)'
      BY <1>0, <1>2 DEF Registered
    <2>4. Listening'
      BY <1>1, <1>4, <2>1, <2>2, <2>3 DEF Listening
    <2>5. ReliableUnix'
      <3>1. ASSUME kind = "Unix", NEW r \in Sub, from'[r] > 0,
                   NEW n \in from'[r] .. Len(log)
            PROVE  Occurrences(inbox[r], n) > 0
        <4>1. from'[r] = from[r]
          BY <1>0, <1>4, <3>1
        <4> QED
          BY <1>1, <2>1, <3>1, <4>1 DEF ReliableUnix
      <3> QED
        BY <1>1, <3>1 DEF ReliableUnix
    <2>6. HalfPublished'
      BY <1>1 DEF HalfPublished
    <2> QED
      BY <2>4, <2>5, <2>6
  <1>8. CallingBack' /\ EveryCallback'
    BY <1>0, <1>1, CallbacksKept DEF IInv
  <1> QED
    BY <1>5, <1>6, <1>7, <1>8 DEF IInv

(* publish() begins: nobody has the new message, and what was known of the *)
(* earlier ones stays.                                                     *)
LEMMA PublishPreserves ==
  ASSUME IInv, NEW d \in Data, publish(d)
  PROVE  IInv'
  <1>0. /\ TypeOK /\ Len(log) \in Nat /\ Len(addrs) \in Nat
        /\ addrs \in Seq(Sub) /\ log \in Seq(Data)
    <2>1. TypeOK
      BY DEF IInv
    <2> QED
      BY <2>1, LenProperties DEF TypeOK
  <1>1. /\ UNCHANGED <<kind, net, addrs, state, inbox, taken, calls, next, from>>
        /\ pos = 0 /\ log' = Append(log, d)
        /\ pos' = IF addrs = <<>> THEN 0 ELSE 1
    BY DEF publish, subVars
  <1>2. /\ log' \in Seq(Data) /\ Len(log') = Len(log) + 1
        /\ \A n \in 1 .. Len(log) : log'[n] = log[n]
    BY <1>0, <1>1, AppendProperties
  <1>3. addrs = <<>> \/ Len(addrs) > 0
    BY <1>0
  <1>4. TypeOK'
    <2>1. /\ Seq(1 .. Len(log)) \subseteq Seq(1 .. Len(log'))
          /\ Seq([since : Nat, seen : Seq(1 .. Len(log))])
               \subseteq Seq([since : Nat, seen : Seq(1 .. Len(log'))])
          /\ 0 .. Len(log) + 1 \subseteq 0 .. Len(log') + 1
      <3>1. Len(log') \in Nat /\ Len(log) <= Len(log')
        BY <1>0, <1>2
      <3> QED
        BY <1>0, <3>1, TypesGrow
    <2>2. inbox' \in [Sub -> Seq(1 .. Len(log'))]
      BY <1>0, <1>1, <2>1 DEF TypeOK
    <2>3. calls' \in [Sub -> Seq([since : Nat, seen : Seq(1 .. Len(log'))])]
      BY <1>0, <1>1, <2>1 DEF TypeOK
    <2>4. from' \in [Sub -> 0 .. Len(log') + 1]
      BY <1>0, <1>1, <2>1 DEF TypeOK
    <2>5. pos' \in 0 .. Len(addrs)
      BY <1>0, <1>1, <1>3
    <2> QED
      BY <1>0, <1>1, <1>2, <2>2, <2>3, <2>4, <2>5 DEF TypeOK
  <1>5. \A n \in 1 .. Len(log') : n \in 1 .. Len(log) \/ n = Len(log) + 1
    BY <1>0, <1>2
  <1>6. ASSUME NEW r \in Sub
        PROVE  Occurrences(inbox[r], Len(log) + 1) = 0
    <2>1. inbox[r] \in Seq(1 .. Len(log))
      BY <1>0, Typed
    <2>2. \A i \in 1 .. Len(inbox[r]) : inbox[r][i] # Len(log) + 1
      BY <1>0, Typed
    <2>3. ~(Occurrences(inbox[r], Len(log) + 1) > 0)
      BY <2>1, <2>2, OccurrencesPositive
    <2>4. Occurrences(inbox[r], Len(log) + 1) \in Nat
      BY <2>1, OccurrencesType
    <2> QED
      BY <2>3, <2>4
  <1>7. InOrderOnce' /\ CopiesTried'
    <2>1. InOrderOnce /\ CopiesTried
      BY DEF IInv
    <2>2. \A r \in Sub : Occurrences(addrs, r) \in Nat
      BY <1>0, OccurrencesType
    <2>3. InOrderOnce'
      <3>1. ASSUME net.once, NEW r \in Sub, NEW n \in 1 .. Len(log')
            PROVE  Occurrences(inbox[r], n) <= Occurrences(addrs, r)
        BY <1>5, <1>6, <2>1, <2>2, <3>1 DEF InOrderOnce
      <3> QED
        BY <1>1, <2>1, <3>1 DEF InOrderOnce
    <2>4. CopiesTried'
      <3>1. ASSUME net.once, NEW r \in Sub, NEW n \in 1 .. Len(log')
            PROVE  Occurrences(inbox[r], n) <= Cardinality(Tried(r, n)')
        <4>1. CASE n \in 1 .. Len(log)
          <5>1. Tried(r, n)' = Tried(r, n)
            BY <1>0, <1>1, <1>2, <4>1 DEF Tried
          <5> QED
            BY <2>1, <3>1, <4>1, <5>1 DEF CopiesTried
        <4>2. CASE n = Len(log) + 1
          <5>1. Tried(r, n)' \subseteq 1 .. Len(addrs)
            BY <1>1 DEF Tried
          <5>2. Cardinality(Tried(r, n)') \in Nat
            BY <1>0, <5>1, PlacesFinite
          <5> QED
            BY <1>6, <4>2, <5>2
        <4> QED
          BY <1>5, <4>1, <4>2
      <3> QED
        BY <1>1, <3>1 DEF CopiesTried
    <2> QED
      BY <2>3, <2>4
  <1>8. Listening' /\ ReliableUnix' /\ HalfPublished'
    <2>1. Listening /\ ReliableUnix
      BY DEF IInv
    <2>2. \A r \in Sub : Registered(r)' <=> Registered(r)
      BY <1>1 DEF Registered
    <2>3. log' # <<>>
      BY <1>0, <1>2
    <2>4. Listening'
      BY <1>1, <2>1, <2>2, <2>3 DEF Listening
    <2>5. addrs = <<>> => \A r \in Sub : ~(from[r] > 0)
      BY <2>1 DEF Listening, Registered
    <2>6. ReliableUnix'
      <3>1. ASSUME kind = "Unix", NEW r \in Sub, from[r] > 0,
                   NEW n \in from[r] .. (IF pos' = 0 THEN Len(log') ELSE Len(log') - 1)
            PROVE  Occurrences(inbox[r], n) > 0
        <4>1. pos' = 1
          BY <1>1, <2>5, <3>1
        <4>2. n \in from[r] .. Len(log)
          BY <1>0, <1>2, <3>1, <4>1
        <4> QED
          BY <1>1, <2>1, <3>1, <4>2 DEF ReliableUnix
      <3> QED
        BY <1>1, <3>1 DEF ReliableUnix
    <2>7. HalfPublished'
      <3>1. ASSUME NEW r \in Sub, pos' > 0
            PROVE  Tried(r, Len(log))' = {}
        <4>1. pos' = 1
          BY <1>1, <3>1
        <4>2. Len(log') \in Nat
          BY <1>0, <1>2
        <4> QED
          BY <1>0, <1>1, <4>1, <4>2 DEF Tried
      <3> QED
        BY <3>1 DEF HalfPublished
    <2> QED
      BY <2>4, <2>6, <2>7
  <1>9. CallingBack' /\ EveryCallback'
    <2>1. ASSUME NEW r \in Sub, NEW p \in 1 .. taken[r]
          PROVE  inbox'[r][p] = inbox[r][p] /\ log'[inbox[r][p]] = log[inbox[r][p]]
      <3>1. p \in 1 .. Len(inbox[r])
        BY <1>0, Typed
      <3>2. inbox[r][p] \in 1 .. Len(log)
        BY <1>0, <3>1, Typed
      <3> QED
        BY <1>1, <1>2, <3>2
    <2>2. CallingBack /\ EveryCallback
      BY DEF IInv
    <2> QED
      BY <1>0, <1>1, <2>1, <2>2, CallbacksKept
  <1> QED
    BY <1>4, <1>7, <1>8, <1>9 DEF IInv

(* One turn of publish(): whatever ::sendto does, the loop goes on to the  *)
(* next address, and the message is queued for a Unix socket that is bound.*)
LEMMA PublishTurn ==
  ASSUME TypeOK, publishNext
  PROVE  /\ pos \in 1 .. Len(addrs) /\ addrs[pos] \in Sub
         /\ UNCHANGED <<kind, net, addrs, log, state, taken, calls, next, from>>
         /\ pos' = IF pos < Len(addrs) THEN pos + 1 ELSE 0
         /\ \/ inbox' = inbox
            \/ inbox' = [inbox EXCEPT ![addrs[pos]] = Append(inbox[addrs[pos]], Len(log))]
         /\ kind = "Unix" /\ state[addrs[pos]] = "up" =>
               inbox' = [inbox EXCEPT ![addrs[pos]] = Append(inbox[addrs[pos]], Len(log))]
  <1>1. addrs \in Seq(Sub) /\ pos \in 0 .. Len(addrs) /\ pos > 0
    BY DEF TypeOK, publishNext
  <1>2. pos \in 1 .. Len(addrs)
    BY <1>1, LenProperties
  <1>3. addrs[pos] \in Sub
    BY <1>1, <1>2, ElementOfSeq
  <1>4. AfterFailure(pos) = After(pos)
    BY DEF AfterFailure, SendtoThrows, Throws
  <1> QED
    BY <1>2, <1>3, <1>4
       DEF publishNext, sendto, Queues, Refused, DropsSilently, Enqueued, After

LEMMA PublishNextPreserves ==
  ASSUME IInv, publishNext
  PROVE  IInv'
  <1> DEFINE t == addrs[pos]
             now == Len(log)
  <1>0. /\ TypeOK /\ Len(addrs) \in Nat
        /\ addrs \in Seq(Sub) /\ log \in Seq(Data) /\ now \in Nat /\ now > 0
    <2>1. TypeOK /\ Listening
      BY DEF IInv
    <2>2. addrs \in Seq(Sub) /\ log \in Seq(Data)
      BY <2>1 DEF TypeOK
    <2>3. log # <<>>
      BY <2>1 DEF Listening, publishNext
    <2> QED
      BY <2>1, <2>2, <2>3, LenProperties
  <1>1. /\ pos \in 1 .. Len(addrs) /\ t \in Sub
        /\ UNCHANGED <<kind, net, addrs, log, state, taken, calls, next, from>>
        /\ pos' = IF pos < Len(addrs) THEN pos + 1 ELSE 0
        /\ \/ inbox' = inbox
           \/ inbox' = [inbox EXCEPT ![t] = Append(inbox[t], now)]
        /\ kind = "Unix" /\ state[t] = "up" => inbox' = [inbox EXCEPT ![t] = Append(inbox[t], now)]
    BY <1>0, PublishTurn
  <1> HIDE DEF t, now
  <1>2. inbox \in [Sub -> Seq(1 .. now)] /\ inbox[t] \in Seq(1 .. now) /\ now \in 1 .. now
    <2>1. inbox \in [Sub -> Seq(1 .. now)]
      BY <1>0 DEF TypeOK, now
    <2>2. inbox[t] \in Seq(1 .. now)
      BY <1>1, <2>1
    <2>3. now \in Nat /\ now > 0
      BY <1>0 DEF now
    <2> QED
      BY <2>1, <2>2, <2>3
  <1>2a. now' = now /\ now \in Nat /\ now > 0
    BY <1>0, <1>1 DEF now
  <1>3. /\ Append(inbox[t], now) \in Seq(1 .. now)
        /\ Len(inbox[t]) \in Nat /\ Len(Append(inbox[t], now)) = Len(inbox[t]) + 1
        /\ Append(inbox[t], now)[Len(inbox[t]) + 1] = now
        /\ \A i \in 1 .. Len(inbox[t]) :
              Append(inbox[t], now)[i] = inbox[t][i] /\ inbox[t][i] \in 1 .. now
    BY <1>2, AppendProperties, LenProperties, ElementOfSeq
  <1>4. /\ \A r \in Sub \ {t} : inbox'[r] = inbox[r]
        /\ inbox'[t] = inbox[t] \/ inbox'[t] = Append(inbox[t], now)
        /\ kind = "Unix" /\ state[t] = "up" => inbox'[t] = Append(inbox[t], now)
    BY <1>1, <1>2
  <1>5. TypeOK'
    <2>1. inbox' \in [Sub -> Seq(1 .. now)]
      BY <1>1, <1>2, <1>3
    <2>2. \A r \in Sub : taken[r] <= Len(inbox'[r])
      <3>1. ASSUME NEW r \in Sub PROVE taken[r] <= Len(inbox'[r])
        <4>1. taken[r] \in Nat /\ taken[r] <= Len(inbox[r])
          BY <1>0, Typed
        <4> QED
          BY <1>3, <1>4, <4>1
      <3> QED
        BY <3>1
    <2>3. pos' \in 0 .. Len(addrs)
      BY <1>0, <1>1
    <2> QED
      BY <1>0, <1>1, <2>1, <2>2, <2>3 DEF TypeOK, now
  <1>6. ASSUME NEW r \in Sub, NEW n \in 1 .. now
        PROVE  Tried(r, n)' = IF r = t /\ n = now THEN Tried(r, n) \cup {pos} ELSE Tried(r, n)
    BY <1>0, <1>1 DEF Tried, now, t
  <1>7. pos \notin Tried(t, now)
    BY <1>0, <1>1 DEF Tried, now
  <1>8. CopiesTried'
    <2>1. ASSUME net.once, NEW r \in Sub, NEW n \in 1 .. now
          PROVE  Occurrences(inbox'[r], n) <= Cardinality(Tried(r, n)')
      <3>1. /\ inbox[r] \in Seq(1 .. now) /\ Occurrences(inbox[r], n) \in Nat
            /\ Occurrences(inbox[r], n) <= Cardinality(Tried(r, n))
        <4>1. inbox[r] \in Seq(1 .. now)
          BY <1>2
        <4> QED
          BY <2>1, <4>1, OccurrencesType DEF IInv, CopiesTried, now
      <3>2. Tried(r, n) \subseteq 1 .. Len(addrs)
        BY DEF Tried
      <3>3. Cardinality(Tried(r, n)) \in Nat
        BY <1>0, <3>2, PlacesFinite
      <3>4. CASE r = t /\ n = now
        <4>1. Cardinality(Tried(r, n)') = Cardinality(Tried(r, n)) + 1
          BY <1>0, <1>6, <1>7, <3>2, <3>4, PlacesAdd
        <4>2. Occurrences(Append(inbox[t], now), now) = Occurrences(inbox[t], now) + 1
          BY <1>2, OccurrencesAppend
        <4> QED
          <5>1. CASE inbox'[t] = inbox[t]
            BY <3>1, <3>3, <3>4, <4>1, <5>1
          <5>2. CASE inbox'[t] = Append(inbox[t], now)
            BY <3>1, <3>3, <3>4, <4>1, <4>2, <5>2
          <5> QED
            BY <1>4, <5>1, <5>2
      <3>5. CASE r = t /\ n # now
        <4>1. Occurrences(Append(inbox[t], now), n) = Occurrences(inbox[t], n)
          BY <1>2, <3>5, OccurrencesAppend
        <4> QED
          BY <1>4, <1>6, <3>1, <3>5, <4>1
      <3>6. CASE r # t
        BY <1>4, <1>6, <3>1, <3>6
      <3> QED
        BY <3>4, <3>5, <3>6
    <2> QED
      BY <1>1, <2>1 DEF CopiesTried, now
  <1>9. InOrderOnce'
    <2>1. ASSUME net.once, NEW r \in Sub, NEW n \in 1 .. now
          PROVE  Occurrences(inbox'[r], n) <= Occurrences(addrs, r)
      <3> DEFINE All == {i \in 1 .. Len(addrs) : addrs[i] = r}
      <3>1. Tried(r, n)' \subseteq All /\ All \subseteq 1 .. Len(addrs)
        BY <1>1 DEF Tried
      <3>2. Cardinality(Tried(r, n)') <= Cardinality(All)
        BY <1>0, <3>1, PlacesMonotone
      <3>3. Cardinality(Tried(r, n)') \in Nat /\ Cardinality(All) \in Nat
        BY <1>0, <3>1, PlacesFinite
      <3>4. Occurrences(inbox'[r], n) <= Cardinality(Tried(r, n)')
        BY <1>1, <1>8, <2>1 DEF CopiesTried, now
      <3>5. Occurrences(inbox'[r], n) \in Nat
        <4>1. inbox'[r] \in Seq(1 .. now)
          BY <1>2, <1>3, <1>4
        <4> QED
          BY <4>1, OccurrencesType
      <3>6. Cardinality(All) = Occurrences(addrs, r)
        BY DEF Occurrences
      <3> HIDE DEF All
      <3> QED
        BY <3>2, <3>3, <3>4, <3>5, <3>6
    <2>2. ASSUME net.ordered, NEW r \in Sub,
                 NEW i \in 1 .. Len(inbox'[r]), NEW j \in 1 .. Len(inbox'[r]), i < j
          PROVE  inbox'[r][i] <= inbox'[r][j]
      <3>1. \A a, b \in 1 .. Len(inbox[r]) : a < b => inbox[r][a] <= inbox[r][b]
        BY <2>2 DEF IInv, InOrderOnce
      <3>2. CASE inbox'[r] = inbox[r]
        BY <2>2, <3>1, <3>2
      <3>3. CASE r = t /\ inbox'[t] = Append(inbox[t], now)
        <4>1. i \in 1 .. Len(inbox[t])
          BY <1>3, <2>2, <3>3
        <4>2. j \in 1 .. Len(inbox[t]) \/ j = Len(inbox[t]) + 1
          BY <1>3, <2>2, <3>3
        <4>3. CASE j \in 1 .. Len(inbox[t])
          BY <1>3, <2>2, <3>1, <3>3, <4>1, <4>3
        <4>4. CASE j = Len(inbox[t]) + 1
          BY <1>0, <1>3, <3>3, <4>1, <4>4
        <4> QED
          BY <4>2, <4>3, <4>4
      <3> QED
        BY <1>4, <3>2, <3>3
    <2> QED
      BY <1>1, <2>1, <2>2 DEF InOrderOnce, now
  <1>10. ASSUME kind = "Unix", NEW r \in Sub, from[r] \in 1 .. now, Tried(r, now)' # {}
         PROVE  Occurrences(inbox'[r], now) > 0
    <2>1. Listening /\ HalfPublished
      BY DEF IInv
    <2>2. CASE r = t
      <3>1. from[t] > 0
        BY <1>10, <2>2
      <3>2. inbox'[t] = Append(inbox[t], now)
        BY <1>1, <1>4, <1>10, <2>1, <3>1 DEF Listening
      <3>3. Occurrences(inbox[t], now) \in Nat
        BY <1>2, OccurrencesType
      <3>4. Occurrences(inbox'[t], now) = Occurrences(inbox[t], now) + 1
        BY <1>2, <3>2, OccurrencesAppend
      <3> QED
        BY <2>2, <3>3, <3>4
    <2>3. CASE r # t
      <3>1. Tried(r, now)' = Tried(r, now)
        BY <1>2, <1>2a, <1>6, <2>3
      <3>2. Occurrences(inbox[r], now) > 0
        BY <1>1, <1>10, <2>1, <3>1 DEF HalfPublished, now
      <3> QED
        BY <1>4, <2>3, <3>2
    <2> QED
      BY <2>2, <2>3
  <1>11. Listening' /\ ReliableUnix' /\ HalfPublished'
    <2>1. Listening /\ ReliableUnix
      BY DEF IInv
    <2>2. \A r \in Sub : Registered(r)' <=> Registered(r)
      BY <1>1 DEF Registered
    <2>3. Listening'
      <3>1. Registered(t)
        BY <1>1 DEF Registered, t
      <3>2. \A r \in Sub : inbox'[r] # <<>> => Registered(r)
        BY <1>4, <2>1, <3>1 DEF Listening
      <3> QED
        BY <1>1, <2>1, <2>2, <3>2 DEF Listening, publishNext
    <2>4. HalfPublished'
      BY <1>1, <1>2a, <1>10 DEF HalfPublished, now
    <2>5. ReliableUnix'
      <3>1. ASSUME kind = "Unix", NEW r \in Sub, from[r] > 0,
                   NEW n \in from[r] .. (IF pos' = 0 THEN now ELSE now - 1)
            PROVE  Occurrences(inbox'[r], n) > 0
        <4>0. from[r] \in Nat /\ inbox[r] \in Seq(1 .. now) /\ n \in 1 .. now
          BY <1>0, <1>2, <3>1, Typed DEF now
        <4>1. CASE n = now
          <5>1. pos' = 0
            <6>1. pos' # 0 => n <= now - 1
              BY <3>1
            <6> QED
              BY <1>2a, <4>1, <6>1
          <5>2. from[r] \in 1 .. now
            BY <1>2a, <3>1, <4>0, <4>1, <5>1
          <5>3. Registered(r)
            BY <2>1, <3>1 DEF Listening
          <5>4. Tried(r, now)' # {}
            BY <1>1, <5>1, <5>3 DEF Registered, Tried
          <5> QED
            BY <1>10, <3>1, <4>1, <5>2, <5>4
        <4>2. CASE n # now
          <5>1. n \in from[r] .. now - 1
            BY <1>0, <3>1, <4>0, <4>2
          <5>2. pos # 0
            BY <1>0, <1>1
          <5>3. Occurrences(inbox[r], n) > 0
            BY <2>1, <3>1, <5>1, <5>2 DEF ReliableUnix, now
          <5>4. Occurrences(Append(inbox[t], now), n) = Occurrences(inbox[t], n)
            BY <1>2, <4>2, OccurrencesAppend
          <5> QED
            BY <1>4, <5>3, <5>4
        <4> QED
          BY <4>1, <4>2
      <3> QED
        BY <1>1, <3>1 DEF ReliableUnix, now
    <2> QED
      BY <2>3, <2>4, <2>5
  <1>12. CallingBack' /\ EveryCallback'
    <2>1. ASSUME NEW r \in Sub, NEW p \in 1 .. taken[r]
          PROVE  inbox'[r][p] = inbox[r][p] /\ log'[inbox[r][p]] = log[inbox[r][p]]
      <3>1. p \in 1 .. Len(inbox[r])
        BY <1>0, Typed
      <3> QED
        BY <1>1, <1>3, <1>4, <3>1
    <2>2. CallingBack /\ EveryCallback
      BY DEF IInv
    <2> QED
      BY <1>0, <1>1, <2>1, <2>2, CallbacksKept
  <1> QED
    BY <1>5, <1>8, <1>9, <1>11, <1>12 DEF IInv

(* What the network does to the datagrams for s that are not received yet: *)
(* it may change their order only where it does not keep it, and how often *)
(* they come only where it repeats.                                        *)
LEMMA NetworkPreserves ==
  ASSUME IInv, kind = "UDP", NEW s \in Sub, NEW q \in Seq(1 .. Len(log)),
         UNCHANGED <<kind, net, addrs, log, pos, state, taken, calls, next, from>>,
         inbox' = [inbox EXCEPT ![s] = q],
         inbox[s] # <<>>, taken[s] <= Len(q),
         \A p \in 1 .. taken[s] : q[p] = inbox[s][p],
         net.once => \A n : Occurrences(q, n) <= Occurrences(inbox[s], n),
         net.ordered => \A i, j \in 1 .. Len(q) : i < j => q[i] <= q[j]
  PROVE  IInv'
  <1>0. TypeOK /\ Len(log) \in Nat /\ inbox \in [Sub -> Seq(1 .. Len(log))]
    BY Typed DEF IInv, TypeOK
  <1>1. inbox'[s] = q /\ \A r \in Sub \ {s} : inbox'[r] = inbox[r]
    BY <1>0
  <1>2. TypeOK'
    <2>1. inbox' \in [Sub -> Seq(1 .. Len(log))]
      BY <1>0
    <2>2. \A r \in Sub : taken[r] <= Len(inbox'[r])
      BY <1>0, <1>1 DEF TypeOK
    <2> QED
      BY <1>0, <2>1, <2>2 DEF TypeOK
  <1>3. InOrderOnce' /\ CopiesTried'
    <2>1. InOrderOnce /\ CopiesTried
      BY DEF IInv
    <2>2. ASSUME net.once, NEW r \in Sub, NEW n \in 1 .. Len(log)
          PROVE  /\ Occurrences(inbox'[r], n) <= Occurrences(addrs, r)
                 /\ Occurrences(inbox'[r], n) <= Cardinality(Tried(r, n))
      <3>1. addrs \in Seq(Sub) /\ Len(addrs) \in Nat /\ inbox[r] \in Seq(1 .. Len(log))
        BY <1>0, Typed DEF TypeOK
      <3>2. inbox'[r] \in Seq(1 .. Len(log))
        BY <1>1, <3>1
      <3>3. Occurrences(inbox'[r], n) \in Nat /\ Occurrences(inbox[r], n) \in Nat
        BY <3>1, <3>2, OccurrencesType
      <3>4. Occurrences(inbox'[r], n) <= Occurrences(inbox[r], n)
        BY <1>1, <2>2, <3>3
      <3>5. Tried(r, n) \subseteq 1 .. Len(addrs)
        BY DEF Tried
      <3>6. Occurrences(addrs, r) \in Nat /\ Cardinality(Tried(r, n)) \in Nat
        BY <3>1, <3>5, OccurrencesType, PlacesFinite
      <3>7. /\ Occurrences(inbox[r], n) <= Occurrences(addrs, r)
            /\ Occurrences(inbox[r], n) <= Cardinality(Tried(r, n))
        BY <2>1, <2>2 DEF InOrderOnce, CopiesTried
      <3> QED
        BY <3>3, <3>4, <3>6, <3>7
    <2>3. ASSUME net.ordered, NEW r \in Sub
          PROVE  \A i, j \in 1 .. Len(inbox'[r]) : i < j => inbox'[r][i] <= inbox'[r][j]
      <3>1. CASE r = s
        BY <1>1, <2>3, <3>1, Zenon
      <3>2. CASE r # s
        <4>1. inbox'[r] = inbox[r]
          BY <1>1, <3>2
        <4> QED
          BY <2>1, <2>3, <4>1, Zenon DEF InOrderOnce
      <3> QED
        BY <3>1, <3>2
    <2>4. \A r \in Sub : \A n \in 1 .. Len(log) : Tried(r, n)' = Tried(r, n)
      BY DEF Tried
    <2>5. InOrderOnce'
      BY <2>2, <2>3 DEF InOrderOnce
    <2>6. CopiesTried'
      BY <2>2, <2>4 DEF CopiesTried
    <2> QED
      BY <2>5, <2>6
  <1>4. Listening' /\ ReliableUnix' /\ HalfPublished'
    <2>1. Listening
      BY DEF IInv
    <2>2. \A r \in Sub : Registered(r)' <=> Registered(r)
      BY DEF Registered
    <2>3. \A r \in Sub : inbox'[r] # <<>> => Registered(r)
      BY <1>1, <2>1 DEF Listening
    <2>4. Listening'
      BY <2>1, <2>2, <2>3 DEF Listening
    <2>5. ReliableUnix' /\ HalfPublished'
      BY DEF ReliableUnix, HalfPublished
    <2> QED
      BY <2>4, <2>5
  <1>5. CallingBack' /\ EveryCallback'
    <2>1. \A r \in Sub : \A p \in 1 .. taken[r] :
             inbox'[r][p] = inbox[r][p] /\ log'[inbox[r][p]] = log[inbox[r][p]]
      BY <1>1
    <2> QED
      BY <1>0, <2>1, CallbacksKept DEF IInv
  <1> QED
    BY <1>2, <1>3, <1>4, <1>5 DEF IInv

(* What Overtake and Repeat do, as far as NetworkPreserves needs it. *)
LEMMA NetworkSteps ==
  ASSUME IInv, NEW s \in Sub, Overtake(s) \/ Repeat(s)
  PROVE  /\ kind = "UDP" /\ inbox[s] # <<>>
         /\ UNCHANGED <<kind, net, addrs, log, pos, state, taken, calls, next, from>>
         /\ \E q \in Seq(1 .. Len(log)) :
              /\ inbox' = [inbox EXCEPT ![s] = q]
              /\ taken[s] <= Len(q)
              /\ \A p \in 1 .. taken[s] : q[p] = inbox[s][p]
              /\ net.once => \A n : Occurrences(q, n) <= Occurrences(inbox[s], n)
              /\ net.ordered => \A i, j \in 1 .. Len(q) : i < j => q[i] <= q[j]
  <1> DEFINE b == inbox[s]
  <1>0. /\ TypeOK /\ Len(log) \in Nat /\ b \in Seq(1 .. Len(log)) /\ Len(b) \in Nat
        /\ taken[s] \in Nat /\ taken[s] <= Len(b)
        /\ \A p \in 1 .. Len(b) : b[p] \in 1 .. Len(log)
    BY Typed DEF IInv
  <1>1. kind = "UDP" /\ UNCHANGED <<kind, net, addrs, log, pos, state, taken, calls, next, from>>
    BY DEF Overtake, Repeat, pubVars
  <1>2. CASE Overtake(s)
    <2>1. PICK i \in taken[s] + 1 .. Len(b) - 1 :
             inbox' = [inbox EXCEPT ![s] = [b EXCEPT ![i] = b[i + 1], ![i + 1] = b[i]]]
      BY <1>2 DEF Overtake
    <2> DEFINE q == [b EXCEPT ![i] = b[i + 1], ![i + 1] = b[i]]
    <2>2. i \in 1 .. Len(b) - 1 /\ i > taken[s]
      BY <1>0
    <2>3. /\ q \in Seq(1 .. Len(log)) /\ Len(q) = Len(b)
          /\ \A j \in 1 .. Len(b) : j # i /\ j # i + 1 => q[j] = b[j]
          /\ \A x : Occurrences(q, x) <= Occurrences(b, x)
      BY <1>0, <2>2, Swapped
    <2>4. inbox' = [inbox EXCEPT ![s] = q] /\ ~net.ordered
      BY <1>2, <2>1 DEF Overtake
    <2> HIDE DEF q
    <2>5. \A p \in 1 .. taken[s] : q[p] = b[p]
      BY <1>0, <2>2, <2>3
    <2>6. b # <<>>
      BY <1>0, <2>2
    <2> QED
      BY <1>0, <1>1, <2>3, <2>4, <2>5, <2>6
  <1>3. CASE Repeat(s)
    <2>1. PICK i \in 1 .. Len(b) :
             /\ net.ordered => i = Len(b)
             /\ inbox' = [inbox EXCEPT ![s] = Append(b, b[i])]
      BY <1>3 DEF Repeat
    <2> DEFINE q == Append(b, b[i])
    <2>2. /\ q \in Seq(1 .. Len(log)) /\ Len(q) = Len(b) + 1 /\ q[Len(b) + 1] = b[i]
          /\ \A j \in 1 .. Len(b) : q[j] = b[j]
      BY <1>0, AppendProperties
    <2>3. inbox' = [inbox EXCEPT ![s] = q] /\ ~net.once
      BY <1>3, <2>1 DEF Repeat
    <2> HIDE DEF q, b
    <2>4. taken[s] <= Len(q) /\ \A p \in 1 .. taken[s] : q[p] = b[p]
      <3>1. \A p \in 1 .. taken[s] : p \in 1 .. Len(b)
        BY <1>0
      <3> QED
        BY <1>0, <2>2, <3>1
    <2>5. ASSUME net.ordered, NEW j \in 1 .. Len(q), NEW k \in 1 .. Len(q), j < k
          PROVE  q[j] <= q[k]
      <3>1. \A x, y \in 1 .. Len(b) : x < y => b[x] <= b[y]
        BY <2>5 DEF IInv, InOrderOnce, b
      <3>2. i = Len(b) /\ j \in 1 .. Len(b) /\ (k \in 1 .. Len(b) \/ k = Len(b) + 1)
        BY <1>0, <2>1, <2>2, <2>5
      <3>3. \A x \in 1 .. Len(b) : b[x] <= b[i]
        BY <1>0, <3>1, <3>2
      <3> QED
        BY <2>2, <2>5, <3>1, <3>2, <3>3
    <2>6. b # <<>>
      BY <1>0
    <2> QED
      BY <1>1, <2>2, <2>3, <2>4, <2>5, <2>6 DEF b
  <1> QED
    BY <1>2, <1>3

LEMMA NextIInv == IInv /\ [Next]_vars => IInv'
  <1> SUFFICES ASSUME IInv, [Next]_vars PROVE IInv'
    OBVIOUS
  <1>1. CASE \E s \in Sub : register_addr(s)
    BY <1>1, RegisterAddrPreserves
  <1>2. CASE \E d \in Data : publish(d)
    BY <1>2, PublishPreserves
  <1>3. CASE publishNext
    BY <1>3, PublishNextPreserves
  <1>4. CASE \E s \in Sub : Start(s) \/ Stop(s)
    BY <1>4, StartPreserves, StopPreserves
  <1>5. CASE \E s \in Sub : register_cb(s)
    BY <1>5, RegisterCbPreserves
  <1>6. CASE \E s \in Sub : onceReceive(s) \/ onceCall(s)
    BY <1>6, OnceReceivePreserves, OnceCallPreserves
  <1>7. CASE \E s \in Sub : onceTimeOut(s)
    BY <1>7, OnceTimeOutPreserves
  <1>9. CASE \E s \in Sub : Overtake(s) \/ Repeat(s)
    <2>1. PICK s \in Sub : Overtake(s) \/ Repeat(s)
      BY <1>9
    <2>2. PICK q \in Seq(1 .. Len(log)) :
              /\ inbox' = [inbox EXCEPT ![s] = q]
              /\ taken[s] <= Len(q)
              /\ \A p \in 1 .. taken[s] : q[p] = inbox[s][p]
              /\ net.once => \A n : Occurrences(q, n) <= Occurrences(inbox[s], n)
              /\ net.ordered => \A i, j \in 1 .. Len(q) : i < j => q[i] <= q[j]
      BY <2>1, NetworkSteps
    <2>3. /\ kind = "UDP" /\ inbox[s] # <<>>
          /\ UNCHANGED <<kind, net, addrs, log, pos, state, taken, calls, next, from>>
      BY <2>1, NetworkSteps
    <2> QED
      BY <2>2, <2>3, NetworkPreserves
  <1>8. CASE UNCHANGED vars
    <2>1. UNCHANGED <<kind, net, addrs, log, pos, state, inbox, taken, calls, next, from>>
      BY <1>8 DEF vars
    <2>2. TypeOK'
      BY <2>1 DEF IInv, TypeOK
    <2>3. CallingBack' /\ EveryCallback'
      BY <2>1, CallbacksKept DEF IInv
    <2> QED
      BY <2>1, <2>2, <2>3, QueuesFrame, ListenersFrame DEF IInv
  <1> QED
    BY <1>1, <1>2, <1>3, <1>4, <1>5, <1>6, <1>7, <1>8, <1>9 DEF Next

(* The inductive invariant holds throughout. *)
THEOREM Invariance == Spec => []IInv
  BY InitIInv, NextIInv, PTL DEF Spec

(* Type correctness of the publisher and the subscribers: publish() and    *)
(* once() stay within clientaddrs and callbacks.                           *)
THEOREM TypeCorrect == Spec => []TypeOK
  <1>1. IInv => TypeOK
    BY DEF IInv
  <1> QED
    BY <1>1, Invariance, PTL

(* A subscriber receives in the order of publication if the network keeps  *)
(* the order, and a message no more often than its address was registered  *)
(* if the network repeats nothing; with Unix sockets always (TypeOK).      *)
THEOREM OrderAndOnce == Spec => []InOrderOnce
  <1>1. IInv => InOrderOnce
    BY DEF IInv
  <1> QED
    BY <1>1, Invariance, PTL

(* On Unix sockets a dead subscriber costs nobody else a message. *)
THEOREM UnixIsReliable == Spec => []ReliableUnix
  <1>1. IInv => ReliableUnix
    BY DEF IInv
  <1> QED
    BY <1>1, Invariance, PTL

(* once() shows every non-empty message to every callback registered       *)
(* before it came, in order and once.                                      *)
THEOREM CallbacksComplete == Spec => []EveryCallback
  <1>1. IInv => EveryCallback
    BY DEF IInv
  <1> QED
    BY <1>1, Invariance, PTL

-----------------------------------------------------------------------------
(* The refinement of Topic.                                                *)

(* What a subscriber has got depends on the datagrams taken only. *)
LEMMA GotKept ==
  ASSUME TypeOK, TypeOK', NEW s \in Sub, taken'[s] = taken[s],
         \A p \in 1 .. taken[s] : inbox'[s][p] = inbox[s][p]
  PROVE  Got(s)' = Got(s)
  <1>1. taken[s] \in Nat
    BY Typed
  <1>2. Got(s) = [p \in 1 .. taken[s] |-> inbox[s][p]]
    BY <1>1 DEF Got
  <1>3. Got(s)' = [p \in 1 .. taken[s] |-> inbox'[s][p]]
    BY <1>1 DEF Got
  <1> QED
    BY <1>2, <1>3

(* The topic counts as the model does. *)
LEMMA SameCount ==
  ASSUME NEW q, NEW n PROVE Abstract!Times(n, q) = Occurrences(q, n)
  <1>1. ASSUME NEW S PROVE Abstract!Cardinality(S) = Cardinality(S)
    BY Zenon DEF Abstract!Cardinality, Cardinality
  <1> QED
    BY <1>1, Zenon DEF Abstract!Times, Occurrences

(* recv() returns a datagram: the topic's Receive. *)
LEMMA GotOneMore ==
  ASSUME IInv, NEW s \in Sub, onceReceive(s)
  PROVE  \E n \in 1 .. Len(log) :
            /\ Occurrences(addrs, s) > 0
            /\ net.ordered => \A i \in 1 .. Len(Got(s)) : Got(s)[i] <= n
            /\ net.once => Occurrences(Got(s), n) < Occurrences(addrs, s)
            /\ Got(s)' = Append(Got(s), n)
            /\ \A r \in Sub \ {s} : Got(r)' = Got(r)
  <1> DEFINE k == taken[s]
             q == inbox[s]
             n == q[k + 1]
  <1>0. TypeOK /\ addrs \in Seq(Sub)
    BY DEF IInv, TypeOK
  <1>1. /\ k \in Nat /\ q \in Seq(1 .. Len(log)) /\ Len(q) \in Nat /\ k + 1 <= Len(q)
        /\ Len(log) \in Nat
    BY <1>0, Typed DEF onceReceive, Waiting
  <1>2. k + 1 \in 1 .. Len(q)
    BY <1>1
  <1>3. n \in 1 .. Len(log)
    BY <1>0, <1>2, Typed
  <1>4. taken' = [taken EXCEPT ![s] = k + 1] /\ inbox' = inbox /\ taken \in [Sub -> Nat]
    BY <1>0 DEF onceReceive, TypeOK
  <1>5. \A r \in Sub \ {s} : Got(r)' = Got(r)
    BY <1>4 DEF Got
  <1>6. Got(s) = SubSeq(q, 1, k) /\ Got(s)' = SubSeq(q, 1, k + 1)
    BY <1>4 DEF Got
  <1> HIDE DEF k, q
  <1>7. /\ SubSeq(q, 1, k) \in Seq(1 .. Len(log)) /\ Len(SubSeq(q, 1, k)) = k
        /\ \A i \in 1 .. k : SubSeq(q, 1, k)[i] = q[i]
    <2>1. \A i \in 1 .. k : q[i] \in 1 .. Len(log)
      BY <1>1, ElementOfSeq
    <2> QED
      BY <1>1, <2>1, SubSeqProperties
  <1>8. SubSeq(q, 1, k + 1) = Append(SubSeq(q, 1, k), n)
    <2>1. SubSeq(q, 1, k + 1) = [i \in 1 .. k + 1 |-> q[i]]
      BY <1>1
    <2>2. Append(SubSeq(q, 1, k), n) = [i \in 1 .. k + 1 |-> IF i = k + 1 THEN n ELSE q[i]]
      BY <1>1, <1>7
    <2> QED
      BY <2>1, <2>2
  <1>9. ASSUME net.ordered PROVE \A i \in 1 .. k : q[i] <= n
    <2>1. \A i, j \in 1 .. Len(q) : i < j => q[i] <= q[j]
      BY <1>9 DEF IInv, InOrderOnce, q
    <2> QED
      BY <1>1, <1>2, <2>1
  <1>10. ASSUME net.once PROVE Occurrences(Got(s), n) < Occurrences(addrs, s)
    <2>1. Occurrences(SubSeq(q, 1, k + 1), n) = Occurrences(SubSeq(q, 1, k), n) + 1
      BY <1>3, <1>7, <1>8, OccurrencesAppend
    <2>2. Occurrences(SubSeq(q, 1, k + 1), n) <= Occurrences(q, n)
      BY <1>1, <1>2, OccurrencesPrefix
    <2>3. Occurrences(q, n) <= Occurrences(addrs, s)
      BY <1>3, <1>10 DEF IInv, InOrderOnce, q
    <2>4. /\ Occurrences(q, n) \in Nat /\ Occurrences(SubSeq(q, 1, k), n) \in Nat
          /\ Occurrences(addrs, s) \in Nat
      BY <1>0, <1>1, <1>7, OccurrencesType
    <2> QED
      BY <1>6, <2>1, <2>2, <2>3, <2>4
  <1>11. Occurrences(addrs, s) > 0
    <2>1. q # <<>>
      BY <1>1
    <2>2. Registered(s)
      BY <2>1 DEF IInv, Listening, q
    <2> QED
      BY <1>0, <2>2, OccurrencesPositive DEF Registered
  <1> HIDE DEF n
  <1> QED
    BY <1>3, <1>5, <1>6, <1>7, <1>8, <1>9, <1>10, <1>11

(* Publisher and subscribers implement the topic: register_addr() and      *)
(* publish() are its Register and Publish, a datagram that recv() returns  *)
(* is its Receive, and everything else, the sending included, changes      *)
(* nothing that a user of the library could see.                           *)
THEOREM Refinement == Spec => ImplementsTopic
  <1>1. Init => Abstract!Init
    <2> SUFFICES ASSUME Init PROVE Abstract!Init
      OBVIOUS
    <2>1. \A s \in Sub : Occurrences(addrs, s) = 0
      BY OccurrencesEmpty DEF Init
    <2>2. \A s \in Sub : Got(s) = <<>>
      BY SubSeqEmpty DEF Init, Got
    <2>3. net \in NetKind
      BY InitIInv DEF IInv, TypeOK
    <2> QED
      BY <2>1, <2>2, <2>3 DEF Init, Abstract!Init
  <1>2. ASSUME IInv, IInv', [Next]_vars PROVE [Abstract!Next]_(Abstract!topicVars)
    <2>0. TypeOK /\ TypeOK'
      BY <1>2 DEF IInv
    <2>1. ASSUME NEW s \in Sub, register_addr(s)
          PROVE  Abstract!Next
      <3>1. /\ addrs \in Seq(Sub) /\ addrs' = Append(addrs, s)
            /\ UNCHANGED <<net, log, inbox, taken>>
        BY <2>0, <2>1 DEF register_addr, subVars, TypeOK
      <3>2. \A r \in Sub : Occurrences(addrs', r) =
               IF r = s THEN Occurrences(addrs, r) + 1 ELSE Occurrences(addrs, r)
        BY <3>1, OccurrencesAppend
      <3>3. \A r \in Sub : Got(r)' = Got(r)
        BY <3>1 DEF Got
      <3>4. Abstract!Register(s)
        BY <3>1, <3>2, <3>3 DEF Abstract!Register
      <3> QED
        BY <3>4 DEF Abstract!Next
    <2>2. ASSUME NEW d \in Data, publish(d)
          PROVE  Abstract!Next
      <3>1. log' = Append(log, d) /\ UNCHANGED <<net, addrs, inbox, taken>>
        BY <2>2 DEF publish, subVars
      <3>2. \A r \in Sub : Got(r)' = Got(r)
        BY <3>1 DEF Got
      <3>3. Abstract!Publish(d)
        BY <3>1, <3>2 DEF Abstract!Publish
      <3> QED
        BY <3>3 DEF Abstract!Next
    <2>3. ASSUME NEW s \in Sub, onceReceive(s)
          PROVE  Abstract!Next
      <3>1. PICK n \in 1 .. Len(log) :
              /\ Occurrences(addrs, s) > 0
              /\ net.ordered => \A i \in 1 .. Len(Got(s)) : Got(s)[i] <= n
              /\ net.once => Occurrences(Got(s), n) < Occurrences(addrs, s)
              /\ Got(s)' = Append(Got(s), n)
              /\ \A r \in Sub \ {s} : Got(r)' = Got(r)
        BY <1>2, <2>3, GotOneMore
      <3>2. UNCHANGED <<net, log, addrs>>
        BY <2>3 DEF onceReceive, pubVars
      <3>3. Abstract!Receive(s, n)
        BY <3>1, <3>2, SameCount DEF Abstract!Receive
      <3> QED
        BY <3>3 DEF Abstract!Next
    <2>4. ASSUME NEW s \in Sub, Stop(s)
          PROVE  Abstract!Next
      <3>1. PICK q : /\ inbox' = [inbox EXCEPT ![s] = q] /\ taken' = [taken EXCEPT ![s] = 0]
                     /\ inbox \in [Sub -> Seq(1 .. Len(log))] /\ taken \in [Sub -> Nat]
                     /\ UNCHANGED <<net, log, addrs>>
        BY <2>0, <2>4 DEF Stop, pubVars, TypeOK
      <3>2. Got(s)' = <<>>
        BY <3>1, SubSeqEmpty DEF Got
      <3>3. \A r \in Sub \ {s} : Got(r)' = Got(r)
        BY <3>1 DEF Got
      <3>4. Abstract!Leave(s)
        BY <3>1, <3>2, <3>3 DEF Abstract!Leave
      <3> QED
        BY <3>4 DEF Abstract!Next
    <2>5. ASSUME UNCHANGED <<net, log, addrs, taken>>,
                 \A r \in Sub : \A p \in 1 .. taken[r] : inbox'[r][p] = inbox[r][p]
          PROVE  UNCHANGED Abstract!topicVars
      <3>1. \A r \in Sub : Got(r)' = Got(r)
        BY <2>0, <2>5, GotKept
      <3> QED
        BY <2>5, <3>1 DEF Abstract!topicVars
    <2>6. CASE publishNext
      <3>1. /\ addrs[pos] \in Sub
            /\ UNCHANGED <<net, log, addrs, taken>>
            /\ \/ inbox' = inbox
               \/ inbox' = [inbox EXCEPT ![addrs[pos]] = Append(inbox[addrs[pos]], Len(log))]
        BY <2>0, <2>6, PublishTurn
      <3>2. ASSUME NEW r \in Sub, NEW p \in 1 .. taken[r]
            PROVE  inbox'[r][p] = inbox[r][p]
        <4>1. inbox \in [Sub -> Seq(1 .. Len(log))] /\ inbox[r] \in Seq(1 .. Len(log))
          BY <2>0 DEF TypeOK
        <4>2. p \in 1 .. Len(inbox[r])
          BY <2>0, Typed
        <4>3. CASE inbox' = inbox
          BY <4>3
        <4>4. CASE inbox' = [inbox EXCEPT ![addrs[pos]] = Append(inbox[addrs[pos]], Len(log))]
          <5>1. inbox'[r] = inbox[r] \/ inbox'[r] = Append(inbox[r], Len(log))
            BY <3>1, <4>1, <4>4
          <5> QED
            BY <4>1, <4>2, <5>1
        <4> QED
          BY <3>1, <4>3, <4>4
      <3> QED
        BY <2>5, <3>1, <3>2
    <2>7. CASE \/ \E s \in Sub : Start(s) \/ register_cb(s) \/ onceCall(s) \/ onceTimeOut(s)
               \/ UNCHANGED vars
      <3>1. UNCHANGED <<net, log, addrs, taken, inbox>>
        BY <2>7 DEF Start, register_cb, onceCall, onceTimeOut, pubVars, vars
      <3> QED
        BY <2>5, <3>1
    <2>8. CASE \E s \in Sub : Overtake(s) \/ Repeat(s)
      <3>1. PICK s \in Sub : Overtake(s) \/ Repeat(s)
        BY <2>8
      <3>2. PICK q \in Seq(1 .. Len(log)) :
              /\ inbox' = [inbox EXCEPT ![s] = q]
              /\ \A p \in 1 .. taken[s] : q[p] = inbox[s][p]
        BY <1>2, <3>1, NetworkSteps
      <3>3. UNCHANGED <<net, log, addrs, taken>>
        BY <1>2, <3>1, NetworkSteps
      <3>4. inbox \in [Sub -> Seq(1 .. Len(log))]
        BY <2>0 DEF TypeOK
      <3>5. \A r \in Sub : \A p \in 1 .. taken[r] : inbox'[r][p] = inbox[r][p]
        BY <3>2, <3>4
      <3> QED
        BY <2>5, <3>3, <3>5
    <2> QED
      BY <1>2, <2>1, <2>2, <2>3, <2>4, <2>6, <2>7, <2>8 DEF Next
  <1>3. IInv /\ IInv' /\ [Next]_vars => [Abstract!Next]_(Abstract!topicVars)
    BY <1>2
  <1> QED
    BY <1>1, <1>3, Invariance, PTL DEF Spec, Abstract!Spec, ImplementsTopic
=============================================================================
