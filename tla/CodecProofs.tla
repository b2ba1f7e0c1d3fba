----------------------------- MODULE CodecProofs ------------------------------
(***************************************************************************)
(* What Codec's conversions compute, for every timeout, struct, datagram,  *)
(* buffer size, address, socket, string and list of tokens.  All but       *)
(* Ascii's are one action: the property is about its result, and the       *)
(* argument about the operators.  Ascii's are loops, and rest on an        *)
(* inductive invariant, AsciiInv.                                          *)
(***************************************************************************)
EXTENDS Codec, SequenceTheorems, FiniteSetTheorems, WellFoundedInduction, TLAPS

(* Every action has a result that its op tells from the others'. *)
LEMMA Ops ==
  /\ \A d \in Structs, n \in BufSizes : SendStruct(d, n) => conv'.op = "struct"
  /\ \A d \in Structs : PackUnpack(d) => conv'.op = "struct"
  /\ \A s \in Strings : ParseString(s) => conv'.op = "unpack"
  /\ \A t : \A v \in TokenLists : PrintTokens(t, v) => conv'.op = "pack"
  /\ \A a \in Addresses : ParseAddress(a) => conv'.op = "address"
  /\ \A a \in Addresses : ParseExample(a) => conv'.op = "example"
  /\ \A d \in Datagrams, n \in BufSizes : PrintBuffer(d, n) => conv'.op = "buffer"
  /\ \A s \in Sockets, g, n \in Garbage : PrintInfo(s, g, n) => conv'.op = "info"
  /\ \A ms \in Timeouts : SetTimeout(ms) => conv'.op = "timeout"
  <1>1. \A d \in Structs, n \in BufSizes : SendStruct(d, n) => conv'.op = "struct"
    BY DEF SendStruct
  <1>2. \A d \in Structs : PackUnpack(d) => conv'.op = "struct"
    BY DEF PackUnpack
  <1>3. \A s \in Strings : ParseString(s) => conv'.op = "unpack"
    BY DEF ParseString, Unpacking
  <1>4. \A t : \A v \in TokenLists : PrintTokens(t, v) => conv'.op = "pack"
    BY DEF PrintTokens, Packing
  <1>5. \A a \in Addresses : ParseAddress(a) => conv'.op = "address"
    BY DEF ParseAddress
  <1>6. \A a \in Addresses : ParseExample(a) => conv'.op = "example"
    BY DEF ParseExample
  <1>7. \A d \in Datagrams, n \in BufSizes : PrintBuffer(d, n) => conv'.op = "buffer"
    BY DEF PrintBuffer
  <1>8. \A s \in Sockets, g, n \in Garbage : PrintInfo(s, g, n) => conv'.op = "info"
    BY DEF PrintInfo
  <1>9. \A ms \in Timeouts : SetTimeout(ms) => conv'.op = "timeout"
    BY DEF SetTimeout
  <1> QED
    BY <1>1, <1>2, <1>3, <1>4, <1>5, <1>6, <1>7, <1>8, <1>9

(* A result is that of the action its op names.                            *)
LEMMA ByOp ==
  ASSUME Convert
  PROVE  /\ conv'.op = "struct" => \/ \E d \in Structs, n \in BufSizes : SendStruct(d, n)
                                   \/ \E d \in Structs : PackUnpack(d)
         /\ conv'.op = "unpack" => \E s \in Strings : ParseString(s)
         /\ conv'.op = "pack" => \E v \in TokenLists : PrintTokens(<<>>, v)
         /\ conv'.op \notin {"string", "tokens", "caught", "none"}
         /\ conv'.op = "address" => \E a \in Addresses : ParseAddress(a)
         /\ conv'.op = "example" => \E a \in Addresses : ParseExample(a)
         /\ conv'.op = "buffer" => \E d \in Datagrams, n \in BufSizes : PrintBuffer(d, n)
         /\ conv'.op = "info" => \E s \in Sockets, g, n \in Garbage : PrintInfo(s, g, n)
         /\ conv'.op = "timeout" => \E ms \in Timeouts : SetTimeout(ms)
  BY Ops DEF Convert

(* What is left of a step: Ascii's loops, and an end.                      *)
AsciiOps == {"pack", "unpack", "string", "tokens", "caught", "none"}

LEMMA OtherSteps ==
  ASSUME Next PROVE Convert \/ conv'.op \in AsciiOps
  <1>1. getline => conv'.op \in AsciiOps
    BY DEF getline, Unpacking, AsciiOps
  <1>2. Catch => conv'.op \in AsciiOps
    BY DEF Catch, AsciiOps
  <1>3. UnpackReturns => conv'.op \in AsciiOps
    BY DEF UnpackReturns, Packing, Nothing, AsciiOps
  <1>4. PackToken => conv'.op \in AsciiOps
    BY DEF PackToken, Packing, AsciiOps
  <1>5. PackReturns => conv'.op \in AsciiOps
    BY DEF PackReturns, Unpacking, AsciiOps
  <1>6. (\E v \in TokenLists : PrintTokens(conv.out, v)) => conv'.op \in AsciiOps
    BY Ops DEF AsciiOps
  <1>7. conv' = Nothing => conv'.op \in AsciiOps
    BY DEF Nothing, AsciiOps
  <1> QED
    BY <1>1, <1>2, <1>3, <1>4, <1>5, <1>6, <1>7 DEF Next, AsciiStep

LEMMA GetTime ==
  ASSUME NEW ms \in Nat
  PROVE  /\ get_time(ms).tv_sec = ms \div 1000
         /\ get_time(ms).tv_usec = ms % 1000
         /\ get_time(ms) = [tv_sec |-> ms \div 1000, tv_usec |-> ms % 1000]
  <1>1. TruncDiv(ms, 1000) = ms \div 1000
    BY DEF TruncDiv
  <1>2. ms - 1000 * (ms \div 1000) = ms % 1000 /\ ms % 1000 \in 0 .. 999
    OBVIOUS
  <1>3. TruncMod(ms % 1000, 1000) = ms % 1000
    BY <1>2 DEF TruncMod, TruncDiv
  <1>4. get_time(ms) = [tv_sec |-> ms \div 1000, tv_usec |-> ms % 1000]
    BY <1>1, <1>2, <1>3 DEF get_time
  <1> QED
    BY <1>4

(* Every wait settimeout() asks for is exact in the seconds and, as the    *)
(* milliseconds are stored as microseconds, short in the rest.             *)
LEMMA WaitOfTimeout ==
  ASSUME NEW ms \in Nat
  PROVE  /\ ValidTimeval(get_time(ms))
         /\ Wait(get_time(ms)) <= 1000 * ms
         /\ ms % 1000 = 0 => Wait(get_time(ms)) = 1000 * ms
         /\ get_time(ms) = NoTimeout <=> ms = 0
  <1> DEFINE s == ms \div 1000
             u == ms % 1000
  <1>1. s \in Nat /\ u \in 0 .. 999 /\ ms = 1000 * s + u
    OBVIOUS
  <1>2. get_time(ms) = [tv_sec |-> s, tv_usec |-> u]
    BY GetTime
  <1> HIDE DEF s, u
  <1>3. u \div 1000 = 0
    BY <1>1
  <1>4. ValidTimeval(get_time(ms))
    BY <1>1, <1>2, <1>3 DEF ValidTimeval, Usec
  <1>5. Wait(get_time(ms)) = s * 1000 * 1000 + u
    BY <1>2 DEF Wait
  <1>6. s * 1000 * 1000 + u <= 1000 * ms /\ (u = 0 => s * 1000 * 1000 + u = 1000 * ms)
    BY <1>1
  <1>7. get_time(ms) = NoTimeout <=> s = 0 /\ u = 0
    BY <1>2 DEF NoTimeout
  <1>8. s = 0 /\ u = 0 <=> ms = 0
    BY <1>1
  <1> QED
    BY <1>4, <1>5, <1>6, <1>7, <1>8 DEF u

LEMMA ConvertTimeout ==
  ASSUME Convert PROVE TimeoutNeverLonger'
  <1> SUFFICES ASSUME conv'.op = "timeout", conv'.in >= 0
               PROVE  /\ ValidTimeval(conv'.out)
                      /\ Wait(conv'.out) <= 1000 * conv'.in
                      /\ conv'.in % 1000 = 0 => Wait(conv'.out) = 1000 * conv'.in
                      /\ conv'.out = NoTimeout <=> conv'.in = 0
    BY DEF TimeoutNeverLonger, ValidTimeval, Wait
  <1>1. PICK ms \in Timeouts : SetTimeout(ms)
    BY ByOp
  <1>2. conv'.in = ms /\ conv'.out = get_time(ms)
    BY <1>1 DEF SetTimeout
  <1>3. ms \in Nat
    BY <1>2, TimeoutAssumption
  <1> QED
    BY <1>2, <1>3, WaitOfTimeout

-----------------------------------------------------------------------------
(* A datagram in a receiver's buffer. *)
LEMMA DeliveredBytes ==
  ASSUME NEW size \in Nat \ {0}, NEW d \in Seq(0 .. 255), d # <<>>
  PROVE  /\ Delivered(size, d) = Fill(size, d)
         /\ Len(Fill(size, d)) = size
         /\ \A i \in 1 .. size : Fill(size, d)[i] = IF i <= Len(d) THEN d[i] ELSE 0
  <1>1. Len(d) \in Nat \ {0}
    OBVIOUS
  <1>2. Copied(size, d) \in Nat \ {0}
    BY <1>1 DEF Copied
  <1> QED
    BY <1>2 DEF Delivered, Received, SOCKET_TIMEOUT, Fill

(* unpack<T>() of exactly as many bytes as T has gives them back ... *)
LEMMA UnpackExact ==
  ASSUME NEW d \in Seq(0 .. 255), NEW m, Len(m) = Len(d),
         \A i \in 1 .. Len(d) : m[i] = d[i]
  PROVE  unpack(Len(d), m) = {d}
  <1> DEFINE n == Len(d)
             r(g) == [i \in 1 .. n |-> IF i <= Len(m) THEN m[i] ELSE g[i]]
  <1>1. n \in Nat /\ Len(m) = n
    BY LenProperties
  <1>2. PICK h \in Garbage : TRUE
    BY BytesAssumption
  <1>3. [i \in 1 .. n |-> h] \in [1 .. n -> Garbage]
    BY <1>2
  <1>4. d = [i \in 1 .. n |-> d[i]]
    OBVIOUS
  <1>5. ASSUME NEW g PROVE r(g) = d
    <2>1. \A i \in 1 .. n : i <= Len(m)
      BY <1>1
    <2>2. r(g) = [i \in 1 .. n |-> d[i]]
      BY <2>1
    <2> QED
      BY <1>4, <2>2
  <1>6. unpack(n, m) = {r(g) : g \in [1 .. n -> Garbage]}
    BY <1>1 DEF unpack
  <1>7. d \in unpack(n, m)
    <2>1. r([i \in 1 .. n |-> h]) = d
      BY <1>5
    <2> QED
      BY <1>3, <1>6, <2>1
  <1>8. ASSUME NEW x \in unpack(n, m) PROVE x = d
    <2>1. PICK g \in [1 .. n -> Garbage] : x = r(g)
      BY <1>6
    <2> QED
      BY <1>5, <2>1
  <1> QED
    BY <1>7, <1>8, Zenon

(* ... of fewer leaves the last field to chance, and of more writes beyond *)
(* it.                                                                     *)
LEMMA UnpackShort ==
  ASSUME NEW d, NEW n \in Nat \ {0}, NEW m, Len(m) \in Nat, Len(m) < n
  PROVE  unpack(n, m) # {d}
  <1> DEFINE r(g) == [i \in 1 .. n |-> IF i <= Len(m) THEN m[i] ELSE g[i]]
  <1>1. PICK a \in Garbage, b \in Garbage : a # b
    BY BytesAssumption
  <1> DEFINE ga == [i \in 1 .. n |-> a]
             gb == [i \in 1 .. n |-> b]
  <1>2. ga \in [1 .. n -> Garbage] /\ gb \in [1 .. n -> Garbage]
    OBVIOUS
  <1>3. unpack(n, m) = {r(g) : g \in [1 .. n -> Garbage]}
    BY DEF unpack
  <1>4. r(ga)[n] = a /\ r(gb)[n] = b
    OBVIOUS
  <1>5. r(ga) # r(gb)
    BY <1>1, <1>4
  <1>6. r(ga) \in unpack(n, m) /\ r(gb) \in unpack(n, m)
    BY <1>2, <1>3
  <1> QED
    BY <1>5, <1>6

LEMMA ConvertStruct ==
  ASSUME Convert PROVE StructSurvives'
  <1> SUFFICES ASSUME conv'.op = "struct"
               PROVE  conv'.out = {conv'.in.struct}
                        <=> conv'.in.msg_size = Len(conv'.in.struct)
    BY DEF StructSurvives
  <1>1. ASSUME NEW d \in Structs, PackUnpack(d)
        PROVE  conv'.out = {conv'.in.struct} <=> conv'.in.msg_size = Len(conv'.in.struct)
    <2>1. conv'.out = unpack(Len(d), d) /\ conv'.in.struct = d /\ conv'.in.msg_size = Len(d)
      BY <1>1 DEF PackUnpack, pack
    <2>2. unpack(Len(d), d) = {d}
      BY BytesAssumption, UnpackExact
    <2> QED
      BY <2>1, <2>2
  <1>2. ASSUME NEW d \in Structs, NEW n \in BufSizes, SendStruct(d, n)
        PROVE  conv'.out = {conv'.in.struct} <=> conv'.in.msg_size = Len(conv'.in.struct)
    <2> DEFINE m == Delivered(n, d)
    <2>0. d \in Seq(0 .. 255) /\ d # <<>> /\ n \in Nat \ {0} /\ Len(d) \in Nat \ {0}
      BY BytesAssumption
    <2>1. conv'.out = unpack(Len(d), m) /\ conv'.in.struct = d /\ conv'.in.msg_size = n
      BY <1>2 DEF SendStruct, pack
    <2>2. Len(m) = n /\ \A i \in 1 .. n : m[i] = IF i <= Len(d) THEN d[i] ELSE 0
      BY <2>0, DeliveredBytes
    <2> HIDE DEF m
    <2>3. CASE n = Len(d)
      <3>1. unpack(Len(d), m) = {d}
        BY <2>0, <2>2, <2>3, UnpackExact
      <3> QED
        BY <2>1, <2>3, <3>1
    <2>4. CASE n < Len(d)
      <3>1. unpack(Len(d), m) # {d}
        BY <2>0, <2>2, <2>4, UnpackShort
      <3> QED
        BY <2>0, <2>1, <2>4, <3>1
    <2>5. CASE n > Len(d)
      <3>1. unpack(Len(d), m) = {}
        BY <2>0, <2>2, <2>5 DEF unpack
      <3> QED
        BY <2>0, <2>1, <2>5, <3>1
    <2> QED
      BY <2>0, <2>3, <2>4, <2>5
  <1> QED
    BY <1>1, <1>2, ByOp

-----------------------------------------------------------------------------
(* What is printed of a buffer ends before the first zero. *)
LEMMA TextUpTo ==
  ASSUME NEW n \in Nat, NEW b, Len(b) = n, NEW z \in 1 .. n, b[z] = 0,
         \A i \in 1 .. z - 1 : b[i] # 0
  PROVE  Text(b) = [text |-> SubSeq(b, 1, z - 1)]
  <1> DEFINE zeros == {i \in 1 .. Len(b) : b[i] = 0}
  <1>1. z \in zeros /\ \A y \in zeros : z <= y
    OBVIOUS
  <1>2. \A x \in zeros : (\A y \in zeros : x <= y) => x = z
    BY <1>1
  <1>3. Min(zeros) = z
    BY <1>1, <1>2 DEF Min
  <1> QED
    BY <1>1, <1>3 DEF Text

(* A datagram without a zero that leaves room for one is printed as it is. *)
LEMMA PrintedWhole ==
  ASSUME NEW size \in Nat \ {0}, NEW d \in Seq(0 .. 255), ~Contains(d, 0), Len(d) < size
  PROVE  Text(Fill(size, d)) = [text |-> d]
  <1> DEFINE b == Fill(size, d)
             n == Len(d)
  <1>1. n \in Nat
    BY LenProperties
  <1>2. Len(b) = size /\ \A i \in 1 .. size : b[i] = IF i <= n THEN d[i] ELSE 0
    BY DEF Fill
  <1>3. \A i \in 1 .. n : d[i] # 0
    BY DEF Contains
  <1> DEFINE z == n + 1
  <1>4. z \in 1 .. size /\ b[z] = 0 /\ z - 1 = n
    BY <1>1, <1>2
  <1> HIDE DEF b
  <1>5. \A i \in 1 .. n : b[i] = d[i]
    BY <1>1, <1>2
  <1>6. Text(b) = [text |-> SubSeq(b, 1, n)]
    BY <1>1, <1>2, <1>3, <1>4, <1>5, TextUpTo
  <1>7. SubSeq(b, 1, n) = d
    <2>1. SubSeq(b, 1, n) = [i \in 1 .. n |-> b[i]]
      BY <1>1
    <2>2. d = [i \in 1 .. n |-> d[i]]
      OBVIOUS
    <2> QED
      BY <1>5, <2>1, <2>2
  <1> QED
    BY <1>6, <1>7 DEF b

LEMMA LeastPlace ==
  ASSUME NEW n \in Nat, NEW A \in SUBSET (1 .. n), A # {}
  PROVE  \E x \in A : \A y \in A : x <= y
  <1> DEFINE R == OpToRel(<, Nat)
  <1>1. \A x, y \in Nat : y < x => <<y, x>> \in R
    BY DEF OpToRel
  <1>2. IsWellFoundedOn(R, Nat)
    BY NatLessThanWellFounded
  <1> HIDE DEF R
  <1>3. \E x \in A : \A y \in A : ~(<<y, x>> \in R)
    <2>1. A \subseteq Nat
      OBVIOUS
    <2> QED
      BY <1>2, <2>1, WFMin
  <1>4. PICK x \in A : \A y \in A : ~(<<y, x>> \in R)
    BY <1>3
  <1>5. ASSUME NEW y \in A PROVE y \in Nat /\ x \in Nat /\ ~(y < x)
    <2>1. y \in Nat /\ x \in Nat
      OBVIOUS
    <2>2. y < x => <<y, x>> \in R
      BY <1>1, <2>1, Zenon
    <2> QED
      BY <1>4, <2>1, <2>2, Zenon
  <1> QED
    BY <1>5

(* And only such a datagram. *)
LEMMA PrintedOnly ==
  ASSUME NEW size \in Nat \ {0}, NEW d \in Seq(0 .. 255), Text(Fill(size, d)) = [text |-> d]
  PROVE  ~Contains(d, 0) /\ Len(d) < size
  <1> DEFINE b == Fill(size, d)
             zeros == {i \in 1 .. Len(b) : b[i] = 0}
  <1>1. Len(d) \in Nat
    BY LenProperties
  <1>2. Len(b) = size /\ \A i \in 1 .. size : b[i] = IF i <= Len(d) THEN d[i] ELSE 0
    BY DEF Fill
  <1>3. zeros # {}
    <2>1. SUFFICES ASSUME zeros = {} PROVE FALSE
      OBVIOUS
    <2>2. Text(b) = [error |-> "beyond the array"]
      BY <2>1 DEF Text, Beyond
    <2>3. DOMAIN Text(b) = {"error"} /\ DOMAIN Text(b) = {"text"}
      BY <2>2
    <2> QED
      BY <2>3
  <1> DEFINE z == Min(zeros)
  <1>4. z \in zeros /\ \A y \in zeros : z <= y
    <2>1. \E x \in zeros : \A y \in zeros : x <= y
      <3>1. zeros \subseteq 1 .. size
        BY <1>2
      <3> QED
        BY <1>3, <3>1, LeastPlace
    <2> QED
      BY <2>1 DEF Min
  <1>5. Text(b) = [text |-> SubSeq(b, 1, z - 1)]
    BY <1>3 DEF Text
  <1>6. SubSeq(b, 1, z - 1) = d
    <2>1. [text |-> SubSeq(b, 1, z - 1)].text = [text |-> d].text
      BY <1>5
    <2> QED
      BY <2>1
  <1>7. z \in 1 .. size
    BY <1>2, <1>4
  <1> HIDE DEF z, b
  <1>8. Len(d) = z - 1 /\ \A i \in 1 .. z - 1 : d[i] = b[i]
    <2>1. SubSeq(b, 1, z - 1) = [i \in 1 .. z - 1 |-> b[i]]
      BY <1>7
    <2> QED
      BY <1>6, <1>7, <2>1
  <1>9. \A i \in 1 .. Len(d) : d[i] # 0
    <2>1. ASSUME NEW i \in 1 .. Len(d), d[i] = 0 PROVE FALSE
      <3>1. i \in zeros
        BY <1>2, <1>7, <1>8, <2>1
      <3>2. z <= i
        BY <1>4, <3>1
      <3> QED
        BY <1>7, <1>8, <3>2
    <2> QED
      BY <2>1
  <1> QED
    BY <1>7, <1>8, <1>9 DEF Contains

LEMMA ConvertBuffer ==
  ASSUME Convert PROVE BufferPrinted'
  <1> SUFFICES ASSUME conv'.op = "buffer"
               PROVE  conv'.out = [text |-> conv'.in]
                        <=> ~Contains(conv'.in, 0) /\ Len(conv'.in) < conv'.size
    BY DEF BufferPrinted, Contains
  <1>1. PICK d \in Datagrams, n \in BufSizes : PrintBuffer(d, n)
    BY ByOp
  <1>2. conv'.in = d /\ conv'.size = n /\ conv'.out = Text(Fill(n, d))
    BY <1>1 DEF PrintBuffer
  <1>3. d \in Seq(0 .. 255) /\ n \in Nat \ {0}
    BY BytesAssumption
  <1> QED
    BY <1>2, <1>3, PrintedWhole, PrintedOnly

-----------------------------------------------------------------------------
(* Addresses. *)

(* The whole of a path without "-" matches. *)
LEMMA MatchingAll ==
  ASSUME NEW path \in Seq(STRING), ~Contains(path, "-")
  PROVE  Matching(path) = path
  <1> DEFINE NoDash(n) == \A i \in 1 .. n : path[i] # "-"
             Ends(n) == NoDash(n) /\ (n = Len(path) \/ path[n + 1] = "-")
  <1>1. Len(path) \in Nat /\ \A i \in 1 .. Len(path) : path[i] # "-"
    BY LenProperties DEF Contains
  <1>2. Ends(Len(path))
    BY <1>1
  <1>3. ASSUME NEW n \in 0 .. Len(path), Ends(n) PROVE n = Len(path)
    <2>1. SUFFICES ASSUME n # Len(path) PROVE FALSE
      OBVIOUS
    <2>2. n + 1 \in 1 .. Len(path)
      BY <1>1, <2>1
    <2> QED
      BY <1>1, <1>3, <2>1, <2>2
  <1>4. (CHOOSE n \in 0 .. Len(path) : Ends(n)) = Len(path)
    <2>1. Len(path) \in 0 .. Len(path)
      BY <1>1
    <2> HIDE DEF Ends
    <2> QED
      BY <1>2, <1>3, <2>1
  <1>5. Matching(path) = SubSeq(path, 1, CHOOSE n \in 0 .. Len(path) : Ends(n))
    BY DEF Matching
  <1> QED
    BY <1>4, <1>5, SubSeqFull

(* A part of any path matches, and no "-" is in it. *)
LEMMA MatchingType ==
  ASSUME NEW path \in Seq(STRING)
  PROVE  /\ Matching(path) \in Seq(STRING)
         /\ ~Contains(Matching(path), "-")
  <1> DEFINE Ends(n) == /\ \A i \in 1 .. n : path[i] # "-"
                        /\ n = Len(path) \/ path[n + 1] = "-"
             A == {n \in 1 .. Len(path) : path[n] = "-"}
  <1>1. Len(path) \in Nat /\ A \subseteq 1 .. Len(path)
    BY LenProperties
  <1>2. \E n \in 0 .. Len(path) : Ends(n)
    <2>1. CASE A = {}
      <3>1. Ends(Len(path)) /\ Len(path) \in 0 .. Len(path)
        BY <1>1, <2>1
      <3> QED
        BY <3>1
    <2>2. CASE A # {}
      <3>1. PICK x \in A : \A y \in A : x <= y
        BY <1>1, <2>2, LeastPlace
      <3>2. x - 1 \in 0 .. Len(path) /\ (x - 1) + 1 = x /\ path[x] = "-"
        BY <1>1
      <3>3. \A i \in 1 .. x - 1 : path[i] # "-"
        BY <1>1, <3>1
      <3>4. Ends(x - 1)
        BY <3>2, <3>3
      <3> QED
        BY <3>2, <3>4
    <2> QED
      BY <2>1, <2>2
  <1> DEFINE n == CHOOSE k \in 0 .. Len(path) : Ends(k)
  <1>3. n \in 0 .. Len(path) /\ Ends(n)
    <2> HIDE DEF Ends
    <2> QED
      BY <1>2
  <1>4. Matching(path) = SubSeq(path, 1, n)
    BY DEF Matching
  <1> HIDE DEF n
  <1>5. \A i \in 1 .. n : path[i] \in STRING
    BY <1>1, <1>3, ElementOfSeq
  <1> DEFINE q == SubSeq(path, 1, n)
  <1>6. q \in Seq(STRING) /\ Len(q) = n /\ \A i \in 1 .. n : q[i] = path[i]
    BY <1>1, <1>3, <1>5, SubSeqProperties
  <1> HIDE DEF q
  <1>7. \A i \in 1 .. Len(q) : q[i] # "-"
    BY <1>3, <1>6
  <1>8. ~Contains(q, "-")
    BY <1>7 DEF Contains
  <1> QED
    BY <1>4, <1>6, <1>8 DEF q

(* What filter() makes of an inet address. *)
LEMMA FilterInet ==
  ASSUME NEW a, a.proto \in {"tcp", "udp"}, a.port # NoPort,
         a.port = AnyPort \/ ~stoiThrows(a.port)
  PROVE  filter(a) = [family |-> "AF_INET", sin_addr |-> Resolved(a.host),
                      sin_port |-> IF a.port = AnyPort THEN 0 ELSE Port16(a.port)]
  <1>1. a.proto # "unix"
    OBVIOUS
  <1> QED
    BY <1>1 DEF filter

(* Where stoi() throws, filter() does. *)
LEMMA FilterThrows ==
  ASSUME NEW a, a.proto \in {"tcp", "udp"}, a.port # NoPort,
         a.port # AnyPort, stoiThrows(a.port)
  PROVE  filter(a) = Threw
  <1>1. a.proto # "unix"
    OBVIOUS
  <1> QED
    BY <1>1 DEF filter

LEMMA FilterUnix ==
  ASSUME NEW a, a.proto = "unix", Matching(a.path) # <<>>
  PROVE  filter(a) = [family |-> "AF_UNIX", sun_path |-> Matching(a.path)]
  BY DEF filter

LEMMA FilterError ==
  ASSUME NEW a,
         IF a.proto = "unix" THEN Matching(a.path) = <<>>
         ELSE ~(a.proto \in {"tcp", "udp"} /\ a.port # NoPort)
  PROVE  filter(a) = [family |-> "AF_ERROR"]
  BY DEF filter

LEMMA PrintedInet ==
  ASSUME NEW h, NEW p
  PROVE  Printed([family |-> "AF_INET", sin_addr |-> h, sin_port |-> p])
            = [host |-> h, port |-> p]
  BY DEF Printed

LEMMA PrintedUnix ==
  ASSUME NEW q, Len(q) \in Nat
  PROVE  Printed([family |-> "AF_UNIX", sun_path |-> q])
            = IF Len(q) < SunPath THEN [path |-> q] ELSE Beyond
  <1> DEFINE s == [family |-> "AF_UNIX", sun_path |-> q]
  <1>1. s.family = "AF_UNIX" /\ s.sun_path = q
    OBVIOUS
  <1>2. Len(q) >= SunPath <=> ~(Len(q) < SunPath)
    BY SunPathAssumption
  <1> HIDE DEF s
  <1>3. Printed(s) = IF Len(q) < SunPath THEN [path |-> q] ELSE Beyond
    BY <1>1, <1>2 DEF Printed
  <1> QED
    BY <1>3 DEF s

(* What an inet address prints as resolves to itself. *)
LEMMA ResolvedAgain ==
  ASSUME NEW host PROVE Resolved(Resolved(host)) = Resolved(host)
  BY DEF Resolved, inet_addr, NotDotted, INADDR_ANY, INADDR_BROADCAST, INADDR_NONE

LEMMA Port16Again ==
  ASSUME NEW n \in Nat
  PROVE  Port16(n) \in Nat /\ Port16(Port16(n)) = Port16(n) /\ (n < 65536 => Port16(n) = n)
  BY DEF Port16

(* A port fits an int. *)
LEMMA PortFits ==
  ASSUME NEW n \in Nat PROVE ~stoiThrows(Port16(n))
  <1>1. Port16(n) \in Nat /\ Port16(n) <= 65535
    BY DEF Port16
  <1> QED
    BY <1>1, IntAssumption DEF stoiThrows

(* An error is no address. *)
LEMMA ErrorNotWritten ==
  ASSUME NEW a, NEW e
  PROVE  [error |-> e] # AsWritten(a) /\ "host" \notin DOMAIN [error |-> e]
  <1>1. DOMAIN [error |-> e] = {"error"}
    OBVIOUS
  <1>2. DOMAIN AsWritten(a) = {"path"} \/ DOMAIN AsWritten(a) = {"host", "port"}
    BY DEF AsWritten
  <1>3. "path" # "error" /\ "host" # "error"
    OBVIOUS
  <1> QED
    BY <1>1, <1>2, <1>3

LEMMA ConvertAddress ==
  ASSUME Convert PROVE AddressRoundTrip'
  <1> DEFINE out == conv'.out
  <1> SUFFICES ASSUME conv'.op = "address"
               PROVE  /\ out = AsWritten(conv'.in) <=> Plain(conv'.in)
                      /\ "host" \in DOMAIN out =>
                            Printed(filter([proto |-> conv'.in.proto, host |-> out.host,
                                            port |-> out.port])) = out
    BY DEF AddressRoundTrip
  <1>1. PICK a \in Addresses : ParseAddress(a)
    BY ByOp
  <1>2. conv'.in = a /\ out = Printed(filter(a))
    BY <1>1 DEF ParseAddress
  <1>3. CASE /\ a.proto \in {"tcp", "udp"} /\ a.port # NoPort
             /\ a.port = AnyPort \/ ~stoiThrows(a.port)
    <2> DEFINE p == IF a.port = AnyPort THEN 0 ELSE Port16(a.port)
               h == Resolved(a.host)
    <2>1. filter(a) = [family |-> "AF_INET", sin_addr |-> h, sin_port |-> p]
      BY <1>3, FilterInet
    <2>2. out = [host |-> h, port |-> p]
      BY <1>2, <2>1, PrintedInet
    <2>3. a.port \in Nat \cup {AnyPort}
      BY <1>3, IntAssumption DEF stoiThrows
    <2>4. p \in Nat /\ Port16(p) = p
      BY <2>3, Port16Again
    <2>5. p # NoPort /\ p # AnyPort /\ ~stoiThrows(p)
      <3>1. p # NoPort /\ p # AnyPort
        BY <2>4 DEF NoPort, AnyPort
      <3>2. ~stoiThrows(Port16(p))
        BY <2>4, PortFits
      <3> QED
        BY <2>4, <3>1, <3>2
    <2>6. Resolved(h) = h
      BY ResolvedAgain
    <2>7. h = a.host /\ p = a.port <=> Plain(a)
      <3>1. Plain(a) <=> a.host \notin NotDotted /\ (0 <= a.port /\ a.port < 65536)
        BY <1>3 DEF Plain
      <3>2. h = a.host <=> a.host \notin NotDotted
        BY SMT DEF Resolved, inet_addr, NotDotted, INADDR_ANY, INADDR_BROADCAST,
                   INADDR_NONE
      <3>3. p = a.port <=> 0 <= a.port /\ a.port < 65536
        <4>1. CASE a.port = AnyPort
          BY <4>1 DEF AnyPort
        <4>2. CASE a.port \in Nat
          <5>1. p = a.port % 65536
            BY <4>2 DEF Port16, AnyPort
          <5> HIDE DEF p
          <5> QED
            BY <4>2, <5>1
        <4> QED
          BY <2>3, <4>1, <4>2
      <3> QED
        BY <3>1, <3>2, <3>3
    <2>8. AsWritten(a) = [host |-> a.host, port |-> a.port]
      BY <1>3 DEF AsWritten
    <2> HIDE DEF h, p, out
    <2> DEFINE b == [proto |-> a.proto, host |-> h, port |-> p]
    <2>9. b.proto = a.proto /\ b.host = h /\ b.port = p
      OBVIOUS
    <2> HIDE DEF b
    <2>10. filter(b) = [family |-> "AF_INET", sin_addr |-> h, sin_port |-> p]
      BY <1>3, <2>4, <2>5, <2>6, <2>9, FilterInet
    <2>11. Printed(filter(b)) = out
      BY <2>2, <2>10, PrintedInet
    <2>12. out.host = h /\ out.port = p
      BY <2>2
    <2> QED
      BY <1>2, <2>2, <2>7, <2>8, <2>11, <2>12 DEF b
  <1>4. CASE a.proto = "unix" /\ Matching(a.path) # <<>>
    <2>1. filter(a) = [family |-> "AF_UNIX", sun_path |-> Matching(a.path)]
      BY <1>4, FilterUnix
    <2>2. \/ Len(Matching(a.path)) < SunPath /\ out = [path |-> Matching(a.path)]
          \/ ~(Len(Matching(a.path)) < SunPath) /\ out = [error |-> "beyond the array"]
      <3>1. Matching(a.path) \in Seq(STRING)
        BY <1>4, AddressAssumption, MatchingType
      <3>2. Len(Matching(a.path)) \in Nat
        BY <3>1, LenProperties
      <3> QED
        BY <1>2, <2>1, <3>2, PrintedUnix DEF Beyond
    <2>3. "host" \notin DOMAIN out
      <3> HIDE DEF out
      <3>1. DOMAIN out = {"path"} \/ DOMAIN out = {"error"}
        BY <2>2
      <3> QED
        BY <3>1
    <2>4. AsWritten(a) = [path |-> a.path]
      BY <1>4 DEF AsWritten
    <2>5. ASSUME Plain(a) PROVE out = AsWritten(a)
      <3>1. ~Contains(a.path, "-") /\ Len(a.path) < SunPath
        BY <1>4, <2>5 DEF Plain
      <3>2. Matching(a.path) = a.path
        BY <1>4, <3>1, AddressAssumption, MatchingAll
      <3> QED
        BY <2>2, <2>4, <3>1, <3>2
    <2>6. ASSUME out = AsWritten(a) PROVE Plain(a)
      <3> HIDE DEF out
      <3>1. DOMAIN out = {"path"} /\ out.path = a.path
        BY <2>4, <2>6
      <3>2. "path" # "error"
        OBVIOUS
      <3>3. Len(Matching(a.path)) < SunPath /\ out = [path |-> Matching(a.path)]
        <4>1. [error |-> "beyond the array"] # out
          <5>1. DOMAIN [error |-> "beyond the array"] = {"error"}
            OBVIOUS
          <5> QED
            BY <3>1, <3>2, <5>1
        <4> QED
          BY <2>2, <4>1
      <3>4. Matching(a.path) = a.path
        BY <3>1, <3>3
      <3>5. ~Contains(Matching(a.path), "-")
        BY <1>4, AddressAssumption, MatchingType
      <3> QED
        BY <1>4, <3>3, <3>4, <3>5 DEF Plain
    <2> QED
      BY <1>2, <2>3, <2>5, <2>6
  <1>5. CASE IF a.proto = "unix" THEN Matching(a.path) = <<>>
             ELSE ~(a.proto \in {"tcp", "udp"} /\ a.port # NoPort)
    <2>1. filter(a) = [family |-> "AF_ERROR"]
      BY <1>5, FilterError
    <2>2. out = [error |-> "AF_ERROR"]
      BY <1>2, <2>1 DEF Printed
    <2>3. ~Plain(a)
      <3>1. CASE a.proto = "unix"
        <4>1. Plain(a) => Matching(a.path) = a.path /\ a.path # <<>>
          BY <3>1, AddressAssumption, MatchingAll DEF Plain
        <4> QED
          BY <1>5, <3>1, <4>1
      <3>2. CASE a.proto # "unix"
        BY <1>5, <3>2 DEF Plain, NoPort
      <3> QED
        BY <3>1, <3>2
    <2> QED
      BY <1>2, <2>2, <2>3, ErrorNotWritten
  <1>6. CASE /\ a.proto \in {"tcp", "udp"} /\ a.port # NoPort
             /\ a.port # AnyPort /\ stoiThrows(a.port)
    <2>1. filter(a) = [family |-> "threw"]
      BY <1>6, FilterThrows DEF Threw
    <2>2. out = [error |-> "threw"]
      BY <1>2, <2>1 DEF Printed
    <2>3. ~Plain(a)
      <3>1. a.port \in Nat \cup {AnyPort, NoPort, BadPort}
        BY <1>6, AddressAssumption
      <3>2. Plain(a) => 0 <= a.port /\ a.port < 65536
        BY <1>6 DEF Plain
      <3> QED
        BY <1>6, <3>1, <3>2, IntAssumption DEF stoiThrows, AnyPort, NoPort, BadPort
    <2> QED
      BY <1>2, <2>2, <2>3, ErrorNotWritten
  <1> QED
    BY <1>3, <1>4, <1>5, <1>6

(* What regex.cpp's filter() has in hand when nothing matched. *)
LEMMA RegexError ==
  ASSUME NEW a, a.proto = "unix" => Matching(a.path) = <<>>, a.proto \notin {"tcp", "udp"}
  PROVE  regex_filter(a) = [error |-> "No matches!!"]
  <1> DEFINE u == a.proto = "unix" /\ Matching(a.path) # <<>>
             i == a.proto \in {"tcp", "udp"}
             x == IF stoiThrows(a.port) THEN [error |-> "throws"]
                  ELSE [ip |-> a.host, port |-> Port16(a.port)]
             y == [path |-> Matching(a.path)]
             z == [error |-> "No matches!!"]
  <1>1. ~u /\ ~i
    OBVIOUS
  <1>2. regex_filter(a) = CASE u -> y [] i -> x [] OTHER -> z
    BY DEF regex_filter
  <1> HIDE DEF u, i, x, y
  <1> QED
    BY <1>1, <1>2

(* The three parsers on one address: the cases are filter()'s, and those   *)
(* in which stoi() throws.                                                 *)
LEMMA ConvertExample ==
  ASSUME Convert PROVE FiltersAgree'
  <1> DEFINE rx == conv'.regex
             sm == conv'.simple
             Agree(a, lib) ==
               CASE a.proto = "unix" /\ lib.family = "AF_UNIX" ->
                       rx = [path |-> lib.sun_path]
                 [] a.proto \in {"tcp", "udp"} /\ a.port \in 0 .. IntMax ->
                       /\ rx = [ip |-> a.host, port |-> lib.sin_port]
                       /\ sm.to = Printed(lib) <=> a.host # "*"
                       /\ sm.any = Printed(lib) <=> a.host \in {"*", INADDR_ANY}
                 [] a.proto \in {"tcp", "udp"} /\ a.port \notin 0 .. IntMax ->
                       /\ rx = [error |-> "throws"]
                       /\ lib = Threw <=> a.port \notin {AnyPort, NoPort}
                 [] OTHER -> lib.family = "AF_ERROR" /\ "error" \in DOMAIN rx
  <1>0. SUFFICES conv'.op = "example" => Agree(conv'.in, filter(conv'.in))
    BY DEF FiltersAgree
  <1> SUFFICES ASSUME conv'.op = "example" PROVE Agree(conv'.in, filter(conv'.in))
    OBVIOUS
  <1>1. PICK a \in Addresses : ParseExample(a)
    BY ByOp
  <1>2. conv'.in = a /\ rx = regex_filter(a) /\ sm = simple_addr(a)
    BY <1>1 DEF ParseExample
  <1> DEFINE lib == filter(a)
  <1> HIDE DEF rx, sm
  <1>3. CASE a.proto = "unix" /\ Matching(a.path) # <<>>
    <2>1. lib.family = "AF_UNIX" /\ lib.sun_path = Matching(a.path)
      BY <1>3, FilterUnix
    <2>2. rx = [path |-> Matching(a.path)]
      BY <1>2, <1>3 DEF regex_filter
    <2> HIDE DEF lib
    <2>3. Agree(a, lib)
      BY <1>3, <2>1, <2>2
    <2> QED
      BY <1>2, <2>3 DEF lib
  <1>4. CASE a.proto \in {"tcp", "udp"} /\ a.port \in 0 .. IntMax
    <2>1. a.port # NoPort /\ a.port # AnyPort /\ ~stoiThrows(a.port)
      BY <1>4 DEF NoPort, AnyPort, stoiThrows
    <2>2. lib = [family |-> "AF_INET", sin_addr |-> Resolved(a.host), sin_port |-> Port16(a.port)]
      BY <1>4, <2>1, FilterInet
    <2>3. rx = [ip |-> a.host, port |-> Port16(a.port)]
      BY <1>2, <1>4, <2>1 DEF regex_filter
    <2>4. /\ sm.to = get_ip_port(getUdpAddr(a.host, a.port))
          /\ sm.any = get_ip_port(getUdpAddrAny(a.port))
      BY <1>2, <1>4, <2>1 DEF simple_addr
    <2>5. /\ sm.to = [host |-> inet_addr(a.host), port |-> Port16(a.port)]
          /\ sm.any = [host |-> INADDR_ANY, port |-> Port16(a.port)]
      BY <2>4 DEF get_ip_port, getUdpAddr, getUdpAddrAny
    <2>6. Printed(lib) = [host |-> Resolved(a.host), port |-> Port16(a.port)]
      BY <2>2, PrintedInet
    <2>7. /\ inet_addr(a.host) = Resolved(a.host) <=> a.host # "*"
          /\ INADDR_ANY = Resolved(a.host) <=> a.host \in {"*", INADDR_ANY}
      BY DEF Resolved, inet_addr, NotDotted, INADDR_ANY, INADDR_BROADCAST, INADDR_NONE
    <2>8. /\ sm.to = Printed(lib) <=> a.host # "*"
          /\ sm.any = Printed(lib) <=> a.host \in {"*", INADDR_ANY}
      BY <2>5, <2>6, <2>7
    <2>9. lib.sin_port = Port16(a.port)
      BY <2>2
    <2> HIDE DEF lib
    <2>10. Agree(a, lib)
      BY <1>4, <2>3, <2>8, <2>9
    <2> QED
      BY <1>2, <2>10 DEF lib
  <1>5. CASE a.proto \in {"tcp", "udp"} /\ a.port \notin 0 .. IntMax
    <2>1. stoiThrows(a.port)
      BY <1>5 DEF stoiThrows
    <2>2. rx = [error |-> "throws"]
      BY <1>2, <1>5, <2>1 DEF regex_filter
    <2>3. lib = Threw <=> a.port \notin {AnyPort, NoPort}
      <3>1. CASE a.port = AnyPort
        <4>1. a.port # NoPort
          BY <3>1 DEF AnyPort, NoPort
        <4>2. lib.family = "AF_INET"
          BY <1>5, <3>1, <4>1, FilterInet
        <4> QED
          BY <3>1, <4>2 DEF Threw
      <3>2. CASE a.port = NoPort
        <4>1. lib = [family |-> "AF_ERROR"]
          BY <1>5, <3>2, FilterError
        <4>2. lib.family = "AF_ERROR"
          BY <4>1
        <4> QED
          BY <3>2, <4>2 DEF Threw
      <3>3. CASE a.port \notin {AnyPort, NoPort}
        BY <1>5, <2>1, <3>3, FilterThrows
      <3> QED
        BY <3>1, <3>2, <3>3
    <2> HIDE DEF lib
    <2>4. Agree(a, lib)
      BY <1>5, <2>2, <2>3
    <2> QED
      BY <1>2, <2>4 DEF lib
  <1>6. CASE /\ a.proto = "unix" => Matching(a.path) = <<>>
             /\ a.proto \notin {"tcp", "udp"}
    <2>1. lib = [family |-> "AF_ERROR"]
      BY <1>6, FilterError
    <2>2. lib.family = "AF_ERROR" /\ lib.family # "AF_UNIX"
      BY <2>1
    <2>3. rx = [error |-> "No matches!!"]
      BY <1>2, <1>6, RegexError
    <2>4. "error" \in DOMAIN rx
      BY <2>3
    <2> HIDE DEF lib
    <2>5. Agree(a, lib)
      BY <1>6, <2>2, <2>4
    <2> QED
      BY <1>2, <2>5 DEF lib
  <1> QED
    BY <1>3, <1>4, <1>5, <1>6

-----------------------------------------------------------------------------
(* SocketInfo.  An option the socket has is read into val when its line is *)
(* printed, so that the line shows its low byte ...                        *)
LEMMA ValRead ==
  ASSUME NEW sock, NEW opts, NEW g, NEW k \in Nat \ {0}, opts[k].val \in DOMAIN sock
  PROVE  val(sock, opts, g, k) = sock[opts[k].val] % 256
  <1> DEFINE read == {j \in 1 .. k : opts[j].val \in DOMAIN sock}
  <1>1. k \in read /\ \A j \in read : k >= j
    OBVIOUS
  <1>2. \A x \in read : (\A y \in read : x >= y) => x = k
    BY <1>1
  <1>3. Max(read) = k
    BY <1>1, <1>2 DEF Max
  <1> QED
    BY <1>1, <1>3 DEF val

(* ... which is the option unless it is a number beyond a byte.            *)
LEMMA ShownRight ==
  ASSUME NEW v \in Nat, NEW type \in {"Int", "Bool", "Type"}, type # "Int" => v < 256
  PROVE  Shown(type, v % 256) = Shown(type, v) <=> (type = "Int" => v < 256)
  <1>1. v % 256 = v <=> v < 256
    OBVIOUS
  <1>2. CASE type = "Int"
    BY <1>1, <1>2 DEF Shown
  <1>3. CASE type # "Int"
    <2>1. v % 256 = v
      BY <1>1, <1>3
    <2> QED
      BY <1>3, <2>1
  <1> QED
    BY <1>2, <1>3

(* A list of options: only its numbers may be beyond a byte.               *)
Listed(opts) ==
  /\ Len(opts) \in Nat
  /\ \A k \in 1 .. Len(opts) : /\ opts[k].type \in {"Int", "Bool", "Type"}
                               /\ opts[k].type # "Int" => opts[k].val \notin Sizes

LEMMA LinesRight ==
  ASSUME NEW s \in Sockets, NEW opts, Listed(opts), NEW g, NEW k \in 1 .. Len(opts),
         opts[k].val \in DOMAIN s.opts
  PROVE  Lines(s.opts, opts, g)[k] = Shown(opts[k].type, s.opts[opts[k].val])
            <=> (opts[k].type = "Int" => s.opts[opts[k].val] < 256)
  <1> DEFINE v == s.opts[opts[k].val]
             type == opts[k].type
  <1>1. k \in Nat \ {0} /\ type \in {"Int", "Bool", "Type"}
    BY DEF Listed
  <1>2. v \in Nat /\ (type # "Int" => v < 256)
    BY SocketAssumption DEF Listed
  <1>3. Lines(s.opts, opts, g)[k] = Shown(type, val(s.opts, opts, g, k))
    BY DEF Lines
  <1>4. val(s.opts, opts, g, k) = v % 256
    BY <1>1, ValRead
  <1> HIDE DEF v, type
  <1>5. Shown(type, v % 256) = Shown(type, v) <=> (type = "Int" => v < 256)
    BY <1>1, <1>2, ShownRight
  <1> QED
    BY <1>3, <1>4, <1>5 DEF v, type

LEMMA OptionLists == Listed(socketOptsSOL) /\ Listed(IpOptions) /\ Listed(SimpleOptions)
  <1>1. Listed(socketOptsSOL)
    BY DEF Listed, socketOptsSOL, Opt, Sizes
  <1>2. Listed(IpOptions)
    BY DEF Listed, IpOptions, Opt, Sizes
  <1>3. Listed(SimpleOptions)
    BY DEF Listed, SimpleOptions, Opt, Sizes
  <1> QED
    BY <1>1, <1>2, <1>3

LEMMA ConvertInfo ==
  ASSUME Convert PROVE InfoTruthful'
  <1> DEFINE Right(sock, o, shown) ==
               o.val \in DOMAIN sock =>
                   (shown = Shown(o.type, sock[o.val])
                       <=> (o.type = "Int" => sock[o.val] < 256))
             AllRight(sock, opts, shown) ==
               \A k \in 1 .. Len(shown) : Right(sock, opts[k], shown[k])
  <1> SUFFICES ASSUME conv'.op = "info"
               PROVE  /\ AllRight(conv'.in.opts, socketOptsSOL, conv'.out.so)
                      /\ AllRight(conv'.in.opts, IpOptions, conv'.out.ip)
                      /\ AllRight(conv'.in.opts, SimpleOptions, conv'.simple)
    BY DEF InfoTruthful
  <1>1. PICK s \in Sockets, g \in Garbage, n \in Garbage : PrintInfo(s, g, n)
    BY ByOp
  <1>2. /\ conv'.in = s
        /\ conv'.out.so \in {Lines(s.opts, socketOptsSOL, g), <<>>}
        /\ conv'.out.ip \in {Lines(s.opts, IpOptions, g), <<>>}
        /\ conv'.simple = Lines(s.opts, SimpleOptions, g)
    <2>1. conv'.in = s /\ conv'.out = info(s.opts, g, n) /\ conv'.simple = info_simple(s.opts, g)
      BY <1>1 DEF PrintInfo
    <2>2. /\ info(s.opts, g, n).so \in {info_so(s.opts, g), <<>>}
          /\ info(s.opts, g, n).ip \in {info_ip(s.opts, g), <<>>}
      BY DEF info
    <2> QED
      BY <2>1, <2>2 DEF info_so, info_ip, info_simple
  <1>3. ASSUME NEW opts, Listed(opts)
        PROVE  AllRight(s.opts, opts, Lines(s.opts, opts, g))
    <2>1. Len(Lines(s.opts, opts, g)) = Len(opts)
      BY <1>3 DEF Listed, Lines
    <2> QED
      BY <1>3, <2>1, LinesRight
  <1>4. ASSUME NEW opts PROVE AllRight(s.opts, opts, <<>>)
    OBVIOUS
  <1> HIDE DEF AllRight
  <1> QED
    BY <1>2, <1>3, <1>4, OptionLists

-----------------------------------------------------------------------------
(* Ascii.  A list of tokens is laid over a text when the text is the       *)
(* tokens one after the other, each with a separator behind it; off[i] is  *)
(* the number of characters before token i.                                *)
Laid(v, off, text) ==
  /\ off \in [1 .. Len(v) + 1 -> 0 .. Len(text)]
  /\ off[1] = 0
  /\ off[Len(v) + 1] = Len(text)
  /\ \A i \in 1 .. Len(v) :
        /\ off[i + 1] = off[i] + Len(v[i]) + 1
        /\ text[off[i + 1]] = Sep
        /\ \A j \in 1 .. Len(v[i]) : text[off[i] + j] = v[i][j]
  /\ \A i, j \in 1 .. Len(v) + 1 : i < j => off[i] < off[j]

IsLaid(v, text) == \E off \in [1 .. Len(v) + 1 -> 0 .. Len(text)] : Laid(v, off, text)

(* A string without the separator it may end in, and with one.             *)
Bare(str) == IF str # <<>> /\ Last(str) = Sep THEN Front(str) ELSE str
Closed(str) == Bare(str) \o <<Sep>>

(* A string being unpacked: the tokens cover what was read of it.          *)
ReadOf(str, toks, ss) ==
  /\ str \in Str /\ toks \in Seq(Str) /\ ss \in Str
  /\ \E p \in 0 .. Len(Closed(str)) :
        /\ IsLaid(toks, SubSeq(Closed(str), 1, p))
        /\ ss = SubSeq(str, p + 1, Len(str))

(* Its tokens being packed: what is written is the string up to token i.   *)
WrittenBack(str, v, i, ss) ==
  /\ str \in Str /\ v \in Seq(Str) /\ i \in 2 .. Len(v) + 1
  /\ \E off \in [1 .. Len(v) + 1 -> 0 .. Len(Closed(str))] :
        /\ Laid(v, off, Closed(str))
        /\ ss = SubSeq(Closed(str), 1, off[i] - 1)

(* Tokens being packed: those written cover what was written.              *)
Written(v, i, ss) ==
  /\ v \in TokenLists /\ i \in 2 .. Len(v) + 1 /\ ss \in Str
  /\ IsLaid(SubSeq(v, 1, i - 1), ss \o <<Sep>>)

(* What was packed being unpacked: the tokens read are the first ones, and *)
(* the rest of the text begins with the next.                              *)
ReadBack(v, toks, ss) ==
  /\ v \in TokenLists
  /\ \E m \in 0 .. Len(v) :
        /\ toks = SubSeq(v, 1, m)
        /\ \E str \in Str : \E off \in [1 .. Len(v) + 1 -> 0 .. Len(str) + 1] :
              /\ Laid(v, off, str \o <<Sep>>)
              /\ ss = SubSeq(str, off[m + 1] + 1, Len(str))
              /\ m > 0 => off[m] < Len(str)

(* The inductive invariant of Ascii's loops.                               *)
Loops(c) ==
  /\ c.op = "unpack" /\ c.job = "string" => ReadOf(c.in, c.toks, c.ss)
  /\ c.op = "pack" /\ c.job = "string" => WrittenBack(c.in, c.v, c.i, c.ss)
  /\ c.op = "pack" /\ c.job = "tokens" => c.in = c.v /\ Written(c.v, c.i, c.ss)
  /\ c.op = "unpack" /\ c.job = "tokens" => ReadBack(c.in, c.toks, c.ss)

AsciiInv == Loops(conv) /\ StringRoundTrip /\ TokensRoundTrip

(* getline() stops at the first separator, or beyond the end if there is   *)
(* none.                                                                   *)
StopsAt(ss, n) ==
  /\ n \in 1 .. Len(ss) + 1
  /\ n <= Len(ss) => ss[n] = Sep
  /\ \A k \in 1 .. n - 1 : ss[k] # Sep

LEMMA StopIs ==
  ASSUME NEW ss \in Str
  PROVE  StopsAt(ss, Stop(ss)) /\ \A n : StopsAt(ss, n) => n = Stop(ss)
  <1> DEFINE len == Len(ss)
             S == {k \in 1 .. len : ss[k] = Sep} \cup {len + 1}
  <1>1. len \in Nat
    BY LenProperties DEF Str
  <1>2. S \in SUBSET (1 .. len + 1) /\ S # {} /\ len + 1 \in Nat
    BY <1>1
  <1>3. \E x \in S : \A y \in S : x <= y
    BY <1>2, LeastPlace
  <1>4. Stop(ss) = CHOOSE x \in S : \A y \in S : x <= y
    BY DEF Stop, Min
  <1>5. Stop(ss) \in S /\ \A y \in S : Stop(ss) <= y
    BY <1>3, <1>4
  <1>6. PICK m : m = Stop(ss)
    OBVIOUS
  <1>7. m \in 1 .. len + 1 /\ (m <= len => ss[m] = Sep) /\ \A y \in S : m <= y
    BY <1>1, <1>5, <1>6
  <1>8. \A k \in 1 .. m - 1 : ss[k] # Sep
    BY <1>1, <1>7
  <1>9. ASSUME NEW n, StopsAt(ss, n) PROVE n = m
    <2>1. n \in 1 .. len + 1 /\ (n <= len => ss[n] = Sep) /\ \A k \in 1 .. n - 1 : ss[k] # Sep
      BY <1>9 DEF StopsAt
    <2>2. n \in S
      BY <1>1, <2>1
    <2>3. m <= n
      BY <1>7, <2>2
    <2>4. ~(m < n)
      BY <1>1, <1>7, <2>1
    <2> QED
      BY <1>1, <1>7, <2>1, <2>3, <2>4
  <1> QED
    BY <1>6, <1>7, <1>8, <1>9 DEF StopsAt

(* A token and a separator more. *)
LEMMA ThreeParts ==
  ASSUME NEW s \in Str, NEW tok \in Str, Sep \in Char
  PROVE  LET text == s \o tok \o <<Sep>>
         IN  /\ text \in Str
             /\ Len(text) = Len(s) + Len(tok) + 1
             /\ \A k \in 1 .. Len(s) : text[k] = s[k]
             /\ \A k \in 1 .. Len(tok) : text[Len(s) + k] = tok[k]
             /\ text[Len(s) + Len(tok) + 1] = Sep
  <1> DEFINE a == s \o tok
             b == <<Sep>>
             text == a \o b
  <1>1. Len(s) \in Nat /\ Len(tok) \in Nat
    BY LenProperties DEF Str
  <1>2. /\ a \in Str /\ Len(a) = Len(s) + Len(tok)
        /\ \A k \in 1 .. Len(s) + Len(tok) : a[k] = IF k <= Len(s) THEN s[k] ELSE tok[k - Len(s)]
    BY ConcatProperties DEF Str
  <1>3. b \in Str /\ Len(b) = 1 /\ b[1] = Sep
    BY DEF Str
  <1> HIDE DEF a, b
  <1>4. /\ text \in Str /\ Len(text) = Len(a) + Len(b)
        /\ \A k \in 1 .. Len(a) + Len(b) : text[k] = IF k <= Len(a) THEN a[k] ELSE b[k - Len(a)]
    <2>1. a \in Seq(Char) /\ b \in Seq(Char)
      BY <1>2, <1>3 DEF Str
    <2> QED
      BY <2>1, ConcatProperties, Zenon DEF Str
  <1> HIDE DEF text
  <1>5. Len(text) = Len(s) + Len(tok) + 1
    BY <1>1, <1>2, <1>3, <1>4
  <1>6. \A k \in 1 .. Len(s) : text[k] = s[k]
    BY <1>1, <1>2, <1>3, <1>4
  <1>7. \A k \in 1 .. Len(tok) : text[Len(s) + k] = tok[k]
    BY <1>1, <1>2, <1>3, <1>4
  <1>8. text[Len(s) + Len(tok) + 1] = Sep
    BY <1>1, <1>2, <1>3, <1>4
  <1> QED
    BY <1>4, <1>5, <1>6, <1>7, <1>8 DEF text, a, b

LEMMA LaidMore ==
  ASSUME NEW v \in Seq(Str), NEW s \in Str, NEW tok \in Str, IsLaid(v, s)
  PROVE  IsLaid(Append(v, tok), s \o tok \o <<Sep>>)
  <1> DEFINE text == s \o tok \o <<Sep>>
             w == Append(v, tok)
             n == Len(v)
  <1>1. PICK off \in [1 .. n + 1 -> 0 .. Len(s)] : Laid(v, off, s)
    BY DEF IsLaid
  <1>2. n \in Nat /\ Len(s) \in Nat /\ Len(tok) \in Nat /\ \A i \in 1 .. n : Len(v[i]) \in Nat
    <2>1. ASSUME NEW i \in 1 .. n PROVE Len(v[i]) \in Nat
      <3>1. v[i] \in Seq(Char)
        BY ElementOfSeq DEF Str
      <3> QED
        BY <3>1, LenProperties
    <2> QED
      BY <2>1, LenProperties DEF Str
  <1>3. /\ Len(text) = Len(s) + Len(tok) + 1
        /\ \A k \in 1 .. Len(s) : text[k] = s[k]
        /\ \A k \in 1 .. Len(tok) : text[Len(s) + k] = tok[k]
        /\ text[Len(s) + Len(tok) + 1] = Sep
    BY ThreeParts, StringAssumption
  <1>4. Len(w) = n + 1 /\ w[n + 1] = tok /\ \A i \in 1 .. n : w[i] = v[i]
    BY <1>2, AppendProperties
  <1>5. /\ off[1] = 0 /\ off[n + 1] = Len(s)
        /\ \A i \in 1 .. n : /\ off[i + 1] = off[i] + Len(v[i]) + 1
                             /\ s[off[i + 1]] = Sep
                             /\ \A j \in 1 .. Len(v[i]) : s[off[i] + j] = v[i][j]
        /\ \A i, j \in 1 .. n + 1 : i < j => off[i] < off[j]
    BY <1>1 DEF Laid
  <1> DEFINE new == [k \in 1 .. n + 2 |-> IF k <= n + 1 THEN off[k] ELSE Len(text)]
  <1> HIDE DEF text, w, n
  <1>6. new \in [1 .. n + 2 -> 0 .. Len(text)]
    BY <1>1, <1>2, <1>3
  <1>7. new[1] = 0 /\ new[n + 2] = Len(text) /\ \A k \in 1 .. n + 1 : new[k] = off[k]
    BY <1>2, <1>5
  <1>8. \A k \in 1 .. n + 1 : off[k] \in 0 .. Len(s)
    BY <1>1
  <1> HIDE DEF new
  <1>9. ASSUME NEW i \in 1 .. n + 1
        PROVE  /\ new[i + 1] = new[i] + Len(w[i]) + 1
               /\ text[new[i + 1]] = Sep
               /\ \A j \in 1 .. Len(w[i]) : text[new[i] + j] = w[i][j]
    <2>1. CASE i = n + 1
      <3>1. i + 1 = n + 2 /\ n + 1 \in 1 .. n + 1
        BY <1>2, <2>1
      <3>2. new[i + 1] = Len(text) /\ new[i] = Len(s) /\ w[i] = tok
        BY <1>4, <1>5, <1>7, <2>1, <3>1
      <3> QED
        BY <1>3, <3>2
    <2>2. CASE i \in 1 .. n
      <3>1. /\ new[i] = off[i] /\ new[i + 1] = off[i + 1] /\ w[i] = v[i]
            /\ off[i + 1] = off[i] + Len(v[i]) + 1 /\ s[off[i + 1]] = Sep
            /\ \A j \in 1 .. Len(v[i]) : s[off[i] + j] = v[i][j]
            /\ off[i] \in 0 .. Len(s) /\ off[i + 1] \in 0 .. Len(s) /\ Len(v[i]) \in Nat
        <4>1. i \in 1 .. n + 1 /\ i + 1 \in 1 .. n + 1
          BY <1>2, <2>2
        <4>2. new[i] = off[i] /\ new[i + 1] = off[i + 1]
          BY <1>7, <4>1
        <4>3. off[i] \in 0 .. Len(s) /\ off[i + 1] \in 0 .. Len(s)
          BY <1>8, <4>1
        <4>4. w[i] = v[i] /\ Len(v[i]) \in Nat
          BY <1>2, <1>4, <2>2
        <4> QED
          BY <1>5, <2>2, <4>2, <4>3, <4>4
      <3>2. PICK a, b, len, N : a = off[i] /\ b = off[i + 1] /\ len = Len(v[i]) /\ N = Len(s)
        OBVIOUS
      <3>3. a \in Nat /\ b \in 0 .. N /\ len \in Nat /\ N \in Nat /\ b = a + len + 1
        BY <1>2, <3>1, <3>2
      <3>4. b \in 1 .. N /\ \A j \in 1 .. len : a + j \in 1 .. N
        BY <3>3
      <3>5. off[i + 1] \in 1 .. Len(s) /\ \A j \in 1 .. Len(v[i]) : off[i] + j \in 1 .. Len(s)
        BY <3>2, <3>4, Zenon
      <3> QED
        BY <1>3, <3>1, <3>5
    <2> QED
      BY <1>2, <2>1, <2>2
  <1>10. ASSUME NEW i \in 1 .. n + 2, NEW j \in 1 .. n + 2, i < j
         PROVE  new[i] < new[j]
    <2>1. CASE j = n + 2
      BY <1>2, <1>3, <1>7, <1>8, <1>10, <2>1
    <2>2. CASE j # n + 2
      BY <1>2, <1>5, <1>7, <1>10, <2>2
    <2> QED
      BY <2>1, <2>2
  <1>11. Len(w) + 1 = n + 2
    BY <1>2, <1>4
  <1>12. Laid(w, new, text)
    BY <1>4, <1>6, <1>7, <1>9, <1>10, <1>11 DEF Laid
  <1> QED
    BY <1>6, <1>11, <1>12 DEF IsLaid, text, w

(* No tokens are laid over no text.                                        *)
LEMMA LaidNone == IsLaid(<<>>, <<>>)
  <1> DEFINE off == [k \in 1 .. 1 |-> 0]
  <1>1. Len(<<>>) = 0 /\ 1 .. 0 = {}
    OBVIOUS
  <1>2. off \in [1 .. 1 -> 0 .. 0] /\ off[1] = 0
    OBVIOUS
  <1> HIDE DEF off
  <1>3. \A i, j \in 1 .. 1 : ~(i < j)
    OBVIOUS
  <1> QED
    BY <1>1, <1>2, <1>3 DEF Laid, IsLaid

LEMMA StrLen ==
  ASSUME NEW s \in Str
  PROVE  Len(s) \in Nat /\ \A k \in 1 .. Len(s) : s[k] \in Char
  BY LenProperties, ElementOfSeq DEF Str

(* Part of a string. *)
LEMMA Part ==
  ASSUME NEW s \in Str, NEW m \in Nat \ {0}, NEW n \in 0 .. Len(s)
  PROVE  /\ SubSeq(s, m, n) \in Str
         /\ Len(SubSeq(s, m, n)) = IF m <= n THEN n - m + 1 ELSE 0
         /\ \A i \in 1 .. n - m + 1 : SubSeq(s, m, n)[i] = s[m + i - 1]
  <1>1. Len(s) \in Nat /\ \A i \in m .. n : s[i] \in Char
    BY StrLen
  <1>2. m \in Int /\ n \in Int
    BY <1>1
  <1> QED
    BY <1>1, <1>2, SubSeqProperties DEF Str

LEMMA Prefix ==
  ASSUME NEW s \in Str, NEW n \in 0 .. Len(s)
  PROVE  /\ SubSeq(s, 1, n) \in Str
         /\ Len(SubSeq(s, 1, n)) = n
         /\ \A i \in 1 .. n : SubSeq(s, 1, n)[i] = s[i]
  <1>1. n \in Nat /\ n - 1 + 1 = n
    BY StrLen
  <1>2. /\ SubSeq(s, 1, n) \in Str
        /\ Len(SubSeq(s, 1, n)) = IF 1 <= n THEN n - 1 + 1 ELSE 0
        /\ \A i \in 1 .. n - 1 + 1 : SubSeq(s, 1, n)[i] = s[1 + i - 1]
    BY Part
  <1>3. Len(SubSeq(s, 1, n)) = n
    BY <1>1, <1>2
  <1>4. \A i \in 1 .. n : SubSeq(s, 1, n)[i] = s[i]
    BY <1>1, <1>2
  <1> QED
    BY <1>2, <1>3, <1>4

(* A string and its closed form agree where the string is.                 *)
LEMMA ClosedIs ==
  ASSUME NEW str \in Str
  PROVE  /\ Closed(str) \in Str
         /\ Len(Closed(str)) \in {Len(str), Len(str) + 1} \ {0}
         /\ \A k \in 1 .. Len(str) : Closed(str)[k] = str[k]
         /\ Closed(str)[Len(Closed(str))] = Sep
         /\ str # <<>> /\ str[Len(str)] = Sep => Len(Closed(str)) = Len(str)
         /\ SubSeq(Closed(str), 1, Len(Closed(str)) - 1) = Bare(str)
  <1> DEFINE b == Bare(str)
             c == Closed(str)
             n == Len(str)
  <1>1. n \in Nat
    BY StrLen
  <1>2. /\ b \in Str /\ Len(b) \in Nat
        /\ \A k \in 1 .. Len(b) : b[k] = str[k]
        /\ IF str # <<>> /\ str[n] = Sep THEN Len(b) = n - 1 /\ n > 0 ELSE Len(b) = n
    <2>1. CASE str # <<>> /\ str[n] = Sep
      <3>1. n > 0
        BY <1>1, <2>1, EmptySeq DEF Str
      <3>2. b = SubSeq(str, 1, n - 1)
        BY <2>1 DEF Bare, Last, Front
      <3>3. /\ b \in Str /\ Len(b) = n - 1
            /\ \A k \in 1 .. n - 1 : b[k] = str[k]
        <4>1. n - 1 \in 0 .. Len(str)
          BY <1>1, <3>1
        <4> HIDE DEF b
        <4> QED
          BY <3>2, <4>1, Prefix
      <3> QED
        BY <1>1, <2>1, <3>1, <3>3
    <2>2. CASE ~(str # <<>> /\ str[n] = Sep)
      BY <1>1, <2>2 DEF Bare, Last
    <2> QED
      BY <2>1, <2>2
  <1>3. <<Sep>> \in Str /\ Len(<<Sep>>) = 1 /\ <<Sep>>[1] = Sep
    BY StringAssumption DEF Str
  <1>4. c = b \o <<Sep>>
    BY DEF Closed
  <1> HIDE DEF b, c
  <1>5. /\ c \in Str /\ Len(c) = Len(b) + 1
        /\ \A k \in 1 .. Len(b) + 1 : c[k] = IF k <= Len(b) THEN b[k] ELSE <<Sep>>[k - Len(b)]
    BY <1>2, <1>3, <1>4, ConcatProperties DEF Str
  <1>6. c[Len(c)] = Sep /\ \A k \in 1 .. Len(b) : c[k] = b[k]
    BY <1>2, <1>3, <1>5
  <1>7. \A k \in 1 .. n : c[k] = str[k]
    BY <1>1, <1>2, <1>5, <1>6
  <1>8. SubSeq(c, 1, Len(c) - 1) = b
    <2>1. /\ SubSeq(c, 1, Len(b)) \in Str /\ Len(SubSeq(c, 1, Len(b))) = Len(b)
          /\ \A k \in 1 .. Len(b) : SubSeq(c, 1, Len(b))[k] = c[k]
      BY <1>2, <1>5, Prefix
    <2>2. SubSeq(c, 1, Len(b)) = b
      BY <1>2, <1>6, <2>1, SeqEqual DEF Str
    <2> QED
      BY <1>2, <1>5, <2>2
  <1>9. Len(c) \in {n, n + 1} \ {0} /\ (str # <<>> /\ str[n] = Sep => Len(c) = n)
    BY <1>1, <1>2, <1>5
  <1> QED
    BY <1>5, <1>6, <1>7, <1>8, <1>9 DEF b, c

LEMMA ReadStarts ==
  ASSUME NEW str \in Str PROVE ReadOf(str, <<>>, str)
  <1> DEFINE c == Closed(str)
  <1>1. c \in Str /\ Len(c) \in Nat /\ Len(str) \in Nat
    BY ClosedIs, StrLen
  <1>2. SubSeq(c, 1, 0) = <<>>
    BY <1>1, SubSeqEmpty
  <1>3. SubSeq(str, 1, Len(str)) = str
    BY SubSeqFull DEF Str
  <1>4. 0 \in 0 .. Len(c) /\ 0 + 1 = 1 /\ <<>> \in Seq(Str)
    BY <1>1
  <1> HIDE DEF c
  <1>5. IsLaid(<<>>, SubSeq(c, 1, 0)) /\ str = SubSeq(str, 0 + 1, Len(str))
    BY <1>2, <1>3, <1>4, LaidNone
  <1> QED
    BY <1>4, <1>5 DEF ReadOf, c

(* One getline() of a string. *)
LEMMA ReadGoesOn ==
  ASSUME NEW str, NEW toks, NEW ss, ReadOf(str, toks, ss), ss # <<>>
  PROVE  ReadOf(str, Append(toks, SubSeq(ss, 1, Stop(ss) - 1)),
                SubSeq(ss, Stop(ss) + 1, Len(ss)))
  <1> DEFINE c == Closed(str)
  <1>1. str \in Str /\ toks \in Seq(Str) /\ ss \in Str
    BY DEF ReadOf
  <1>2. PICK p \in 0 .. Len(c) : IsLaid(toks, SubSeq(c, 1, p)) /\ ss = SubSeq(str, p + 1, Len(str))
    BY DEF ReadOf
  <1>3. /\ c \in Str /\ Len(str) \in Nat
        /\ Len(c) \in {Len(str), Len(str) + 1} \ {0}
        /\ \A k \in 1 .. Len(str) : c[k] = str[k]
        /\ c[Len(c)] = Sep
    BY <1>1, ClosedIs, StrLen
  <1> HIDE DEF c
  <1>4. p < Len(str) /\ p \in Nat
    <2>1. Len(ss) # 0
      BY <1>1, EmptySeq DEF Str
    <2>2. Len(ss) = IF p + 1 <= Len(str) THEN Len(str) - (p + 1) + 1 ELSE 0
      <3>1. p + 1 \in Nat \ {0} /\ Len(str) \in 0 .. Len(str)
        BY <1>3
      <3> QED
        BY <1>1, <1>2, <3>1, Part
    <2> QED
      BY <1>3, <2>1, <2>2
  <1>5. Len(ss) = Len(str) - p /\ \A k \in 1 .. Len(str) - p : ss[k] = str[p + k]
    <2>1. p + 1 \in Nat \ {0} /\ Len(str) \in 0 .. Len(str) /\ Len(str) - (p + 1) + 1 = Len(str) - p
      BY <1>3, <1>4
    <2>2. /\ Len(ss) = IF p + 1 <= Len(str) THEN Len(str) - (p + 1) + 1 ELSE 0
          /\ \A k \in 1 .. Len(str) - (p + 1) + 1 : ss[k] = str[p + 1 + k - 1]
      BY <1>1, <1>2, <2>1, Part
    <2>3. ASSUME NEW k \in 1 .. Len(str) - p PROVE ss[k] = str[p + k]
      <3>1. k \in 1 .. Len(str) - (p + 1) + 1 /\ p + 1 + k - 1 = p + k
        BY <1>3, <1>4, <2>1, <2>3
      <3> QED
        BY <2>2, <3>1
    <2>4. Len(ss) = Len(str) - p
      <3>1. p + 1 <= Len(str)
        BY <1>3, <1>4
      <3>2. Len(ss) = Len(str) - (p + 1) + 1
        BY <2>2, <3>1
      <3> QED
        BY <2>1, <3>2
    <2> QED
      BY <2>3, <2>4
  <1>6. PICK n : n = Stop(ss)
    OBVIOUS
  <1>7. n \in 1 .. Len(ss) + 1 /\ (n <= Len(ss) => ss[n] = Sep) /\ \A k \in 1 .. n - 1 : ss[k] # Sep
    BY <1>1, <1>6, StopIs DEF StopsAt
  <1> DEFINE tok == SubSeq(ss, 1, n - 1)
  <1>8. tok \in Str /\ Len(tok) = n - 1 /\ \A k \in 1 .. n - 1 : tok[k] = ss[k]
    <2>1. n - 1 \in 0 .. Len(ss)
      BY <1>3, <1>4, <1>5, <1>7
    <2> QED
      BY <1>1, <2>1, Prefix
  <1>9. p + n \in 1 .. Len(c) /\ c[p + n] = Sep
    <2>1. CASE n <= Len(ss)
      BY <1>3, <1>4, <1>5, <1>7, <2>1
    <2>2. CASE n = Len(ss) + 1
      <3>1. p + n = Len(str) + 1
        BY <1>3, <1>4, <1>5, <2>2
      <3>2. str[Len(str)] # Sep
        <4>1. Len(ss) \in 1 .. n - 1 /\ p + Len(ss) = Len(str) /\ Len(ss) \in 1 .. Len(str) - p
          BY <1>3, <1>4, <1>5, <2>2
        <4>2. ss[Len(ss)] # Sep
          BY <1>7, <4>1
        <4>3. ss[Len(ss)] = str[Len(str)]
          BY <1>5, <4>1
        <4> QED
          BY <4>2, <4>3
      <3>3. Len(c) # Len(str)
        BY <1>3, <1>4, <3>2
      <3> QED
        BY <1>3, <1>4, <3>1, <3>3
    <2> QED
      BY <1>3, <1>4, <1>5, <1>7, <2>1, <2>2
  <1> DEFINE s == SubSeq(c, 1, p)
             text == s \o tok \o <<Sep>>
             t == SubSeq(c, 1, p + n)
  <1>10. s \in Str /\ Len(s) = p /\ \A k \in 1 .. p : s[k] = c[k]
    BY <1>3, Prefix
  <1>11. t \in Str /\ Len(t) = p + n /\ \A k \in 1 .. p + n : t[k] = c[k]
    <2>1. p + n \in 0 .. Len(c)
      BY <1>3, <1>9
    <2> QED
      BY <1>3, <2>1, Prefix
  <1>12. IsLaid(Append(toks, tok), text)
    BY <1>1, <1>2, <1>8, <1>10, LaidMore
  <1>13. /\ text \in Str /\ Len(text) = Len(s) + Len(tok) + 1
         /\ \A k \in 1 .. Len(s) : text[k] = s[k]
         /\ \A k \in 1 .. Len(tok) : text[Len(s) + k] = tok[k]
         /\ text[Len(s) + Len(tok) + 1] = Sep
    BY <1>8, <1>10, ThreeParts, StringAssumption
  <1> HIDE DEF tok, s, text, t
  <1>14. text = t
    <2>1. Len(text) = Len(t) /\ Len(text) = p + n
      BY <1>4, <1>7, <1>8, <1>10, <1>11, <1>13
    <2>2. ASSUME NEW k \in 1 .. p + n PROVE text[k] = c[k]
      <3>1. CASE k <= p
        BY <1>4, <1>10, <1>13, <2>2, <3>1
      <3>2. CASE k = p + n
        BY <1>4, <1>7, <1>8, <1>9, <1>10, <1>13, <3>2
      <3>3. CASE p < k /\ k < p + n
        <4>1. k - p \in 1 .. n - 1 /\ p + (k - p) = k /\ k - p \in 1 .. Len(str) - p /\ k \in 1 .. Len(str)
          BY <1>3, <1>4, <1>5, <1>7, <2>2, <3>3
        <4>2. text[Len(s) + (k - p)] = tok[k - p]
          BY <1>8, <1>13, <4>1
        <4>3. tok[k - p] = str[p + (k - p)]
          BY <1>5, <1>8, <4>1
        <4> QED
          BY <1>3, <1>10, <4>1, <4>2, <4>3
      <3> QED
        BY <1>4, <1>7, <2>2, <3>1, <3>2, <3>3
    <2> QED
      BY <1>11, <1>13, <2>1, <2>2, SeqEqual DEF Str
  <1>15. SubSeq(ss, n + 1, Len(ss)) = SubSeq(str, p + n + 1, Len(str)) /\ SubSeq(ss, n + 1, Len(ss)) \in Str
    <2> DEFINE x == SubSeq(ss, n + 1, Len(ss))
               y == SubSeq(str, p + n + 1, Len(str))
    <2>1. /\ n + 1 \in Nat \ {0} /\ Len(ss) \in 0 .. Len(ss)
          /\ p + n + 1 \in Nat \ {0} /\ Len(str) \in 0 .. Len(str)
      BY <1>3, <1>4, <1>5, <1>7
    <2>2. /\ x \in Str /\ Len(x) = IF n + 1 <= Len(ss) THEN Len(ss) - (n + 1) + 1 ELSE 0
          /\ \A k \in 1 .. Len(ss) - (n + 1) + 1 : x[k] = ss[n + 1 + k - 1]
      BY <1>1, <2>1, Part
    <2>3. /\ y \in Str /\ Len(y) = IF p + n + 1 <= Len(str) THEN Len(str) - (p + n + 1) + 1 ELSE 0
          /\ \A k \in 1 .. Len(str) - (p + n + 1) + 1 : y[k] = str[p + n + 1 + k - 1]
      BY <1>1, <2>1, Part
    <2> HIDE DEF x, y
    <2>4. Len(x) = Len(y)
      BY <1>3, <1>4, <1>5, <1>7, <2>2, <2>3
    <2>5. ASSUME NEW k \in 1 .. Len(x) PROVE x[k] = y[k]
      <3>1. /\ k \in 1 .. Len(ss) - (n + 1) + 1 /\ k \in 1 .. Len(str) - (p + n + 1) + 1
            /\ n + 1 + k - 1 \in 1 .. Len(str) - p
            /\ p + (n + 1 + k - 1) = p + n + 1 + k - 1
        BY <1>3, <1>4, <1>5, <1>7, <2>2, <2>5
      <3> QED
        BY <1>5, <2>2, <2>3, <3>1
    <2>6. x = y
      BY <2>2, <2>3, <2>4, <2>5, SeqEqual DEF Str
    <2> QED
      BY <2>2, <2>6 DEF x, y
  <1>16. Append(toks, tok) \in Seq(Str)
    BY <1>1, <1>8, AppendProperties
  <1>17. /\ p + n \in 0 .. Len(c)
         /\ IsLaid(Append(toks, tok), SubSeq(c, 1, p + n))
    BY <1>3, <1>9, <1>12, <1>14 DEF t
  <1>18. ReadOf(str, Append(toks, tok), SubSeq(ss, n + 1, Len(ss)))
    BY <1>1, <1>15, <1>16, <1>17 DEF ReadOf, c
  <1> QED
    BY <1>6, <1>18 DEF tok

(* A token where it lies. *)
LEMMA LaidAt ==
  ASSUME NEW v \in Seq(Str), NEW off, NEW text, Len(text) \in Nat, Laid(v, off, text),
         NEW i \in 1 .. Len(v)
  PROVE  /\ Len(v) \in Nat /\ v[i] \in Str /\ Len(v[i]) \in Nat
         /\ off[i] \in Nat /\ off[i + 1] \in 1 .. Len(text)
         /\ off[i + 1] = off[i] + Len(v[i]) + 1
         /\ text[off[i + 1]] = Sep
         /\ \A j \in 1 .. Len(v[i]) : text[off[i] + j] = v[i][j]
  <1>1. v[i] \in Str /\ Len(v) \in Nat
    BY ElementOfSeq, LenProperties
  <1>2. Len(v[i]) \in Nat
    BY <1>1, StrLen
  <1>3. i \in 1 .. Len(v) + 1 /\ i + 1 \in 1 .. Len(v) + 1
    BY <1>1
  <1>4. /\ off[i] \in 0 .. Len(text) /\ off[i + 1] \in 0 .. Len(text)
        /\ off[i + 1] = off[i] + Len(v[i]) + 1
        /\ text[off[i + 1]] = Sep
        /\ \A j \in 1 .. Len(v[i]) : text[off[i] + j] = v[i][j]
    BY <1>3 DEF Laid
  <1>5. off[i] \in Nat /\ off[i + 1] \in 1 .. Len(text)
    BY <1>2, <1>4
  <1> QED
    BY <1>1, <1>2, <1>4, <1>5

(* A separator and a token more. *)
LEMMA Joined ==
  ASSUME NEW s \in Str, NEW tok \in Str
  PROVE  LET text == s \o <<Sep>> \o tok
         IN  /\ text \in Str
             /\ Len(text) = Len(s) + 1 + Len(tok)
             /\ \A k \in 1 .. Len(s) : text[k] = s[k]
             /\ text[Len(s) + 1] = Sep
             /\ \A k \in 1 .. Len(tok) : text[Len(s) + 1 + k] = tok[k]
             /\ text \o <<Sep>> = (s \o <<Sep>>) \o tok \o <<Sep>>
  <1> DEFINE b == <<Sep>>
             a == s \o b
             text == a \o tok
  <1>1. Len(s) \in Nat /\ Len(tok) \in Nat
    BY StrLen
  <1>2. b \in Str /\ Len(b) = 1 /\ b[1] = Sep
    BY StringAssumption DEF Str
  <1> HIDE DEF b
  <1>3. /\ a \in Str /\ Len(a) = Len(s) + Len(b)
        /\ \A k \in 1 .. Len(s) + Len(b) : a[k] = IF k <= Len(s) THEN s[k] ELSE b[k - Len(s)]
    BY <1>2, ConcatProperties DEF Str
  <1> HIDE DEF a
  <1>4. /\ text \in Str /\ Len(text) = Len(a) + Len(tok)
        /\ \A k \in 1 .. Len(a) + Len(tok) : text[k] = IF k <= Len(a) THEN a[k] ELSE tok[k - Len(a)]
    <2>1. a \in Seq(Char) /\ tok \in Seq(Char)
      BY <1>3 DEF Str
    <2> QED
      BY <2>1, ConcatProperties, Zenon DEF Str
  <1>5. text \o b = a \o tok \o b
    OBVIOUS
  <1> HIDE DEF text
  <1>6. Len(text) = Len(s) + 1 + Len(tok)
    BY <1>1, <1>2, <1>3, <1>4
  <1>7. \A k \in 1 .. Len(s) : text[k] = s[k]
    BY <1>1, <1>2, <1>3, <1>4
  <1>8. text[Len(s) + 1] = Sep
    BY <1>1, <1>2, <1>3, <1>4
  <1>9. \A k \in 1 .. Len(tok) : text[Len(s) + 1 + k] = tok[k]
    BY <1>1, <1>2, <1>3, <1>4
  <1> QED
    BY <1>4, <1>5, <1>6, <1>7, <1>8, <1>9 DEF text, a, b

(* getline() fails: the tokens cover the string, and pack() begins. *)
LEMMA ReadEnds ==
  ASSUME NEW str, NEW toks, ReadOf(str, toks, <<>>), toks # <<>>
  PROVE  WrittenBack(str, toks, 2, toks[1])
  <1> DEFINE c == Closed(str)
             m == Len(toks)
  <1>1. str \in Str /\ toks \in Seq(Str)
    BY DEF ReadOf
  <1>2. PICK p \in 0 .. Len(c) : IsLaid(toks, SubSeq(c, 1, p)) /\ <<>> = SubSeq(str, p + 1, Len(str))
    BY DEF ReadOf
  <1>3. /\ c \in Str /\ Len(str) \in Nat
        /\ Len(c) \in {Len(str), Len(str) + 1} \ {0}
        /\ \A k \in 1 .. Len(str) : c[k] = str[k]
        /\ str # <<>> /\ str[Len(str)] = Sep => Len(c) = Len(str)
    BY <1>1, ClosedIs, StrLen
  <1>4. m \in Nat /\ m > 0
    BY <1>1, LenProperties, EmptySeq
  <1> HIDE DEF c
  <1>5. p >= Len(str) /\ p \in Nat /\ p <= Len(c)
    <2>1. p + 1 \in Nat \ {0} /\ Len(str) \in 0 .. Len(str)
      BY <1>3
    <2>2. Len(SubSeq(str, p + 1, Len(str))) = IF p + 1 <= Len(str) THEN Len(str) - (p + 1) + 1 ELSE 0
      BY <1>1, <2>1, Part
    <2>3. Len(SubSeq(str, p + 1, Len(str))) = 0
      <3>1. Len(<<>>) = 0
        OBVIOUS
      <3> QED
        BY <1>2, <3>1
    <2> QED
      BY <1>3, <2>2, <2>3
  <1> DEFINE s == SubSeq(c, 1, p)
  <1>6. s \in Str /\ Len(s) = p /\ \A k \in 1 .. p : s[k] = c[k]
    BY <1>3, Prefix
  <1>7. PICK off \in [1 .. m + 1 -> 0 .. Len(s)] : Laid(toks, off, s)
    BY <1>2 DEF IsLaid
  <1> HIDE DEF s, m
  <1>8. p \in 1 .. Len(c) /\ s[p] = Sep
    <2>1. m \in 1 .. Len(toks) /\ off[Len(toks) + 1] = Len(s) /\ m = Len(toks)
      BY <1>4, <1>7 DEF Laid, m
    <2>2. off[m + 1] \in 1 .. Len(s) /\ s[off[m + 1]] = Sep
      BY <1>1, <1>5, <1>6, <1>7, <2>1, LaidAt
    <2> QED
      BY <1>3, <1>5, <1>6, <2>1, <2>2
  <1>9. p = Len(c)
    <2>1. SUFFICES ASSUME p # Len(c) PROVE FALSE
      OBVIOUS
    <2>2. p = Len(str) /\ Len(c) # Len(str)
      BY <1>3, <1>5, <2>1
    <2>3. str[Len(str)] = Sep
      BY <1>3, <1>6, <1>8, <2>2
    <2>4. str # <<>>
      BY <1>8, <2>2, EmptySeq
    <2> QED
      BY <1>3, <2>2, <2>3, <2>4
  <1>10. s = c
    BY <1>3, <1>9, SubSeqFull DEF s, Str
  <1>11. Laid(toks, off, c) /\ off \in [1 .. Len(toks) + 1 -> 0 .. Len(c)]
    BY <1>7, <1>10 DEF m
  <1>12. /\ off[1] = 0 /\ toks[1] \in Str /\ Len(toks[1]) \in Nat
         /\ off[2] \in 1 .. Len(c) /\ off[2] = Len(toks[1]) + 1
         /\ \A j \in 1 .. Len(toks[1]) : c[j] = toks[1][j]
    <2>1. off[1] = 0
      BY <1>11 DEF Laid
    <2>2. PICK i : i = 1
      OBVIOUS
    <2>3. i \in 1 .. Len(toks) /\ Len(c) \in Nat /\ i + 1 = 2
      BY <1>3, <1>4, <2>2 DEF m
    <2>4. /\ toks[i] \in Str /\ Len(toks[i]) \in Nat
          /\ off[i + 1] \in 1 .. Len(c) /\ off[i + 1] = off[i] + Len(toks[i]) + 1
          /\ \A j \in 1 .. Len(toks[i]) : c[off[i] + j] = toks[i][j]
      <3>1. Laid(toks, off, c) /\ Len(c) \in Nat /\ i \in 1 .. Len(toks) /\ toks \in Seq(Str)
        BY <1>1, <1>11, <2>3
      <3>2. toks[i] \in Str /\ Len(toks[i]) \in Nat
        BY <3>1, ElementOfSeq, StrLen
      <3>3. off[i + 1] = off[i] + Len(toks[i]) + 1
        BY <3>1 DEF Laid
      <3>4. off[i + 1] \in 1 .. Len(c)
        <4>1. 2 \in 1 .. Len(toks) + 1
          BY <1>4 DEF m
        <4>2. off[2] \in 0 .. Len(c)
          BY <1>11, <4>1
        <4> QED
          BY <2>1, <2>2, <2>3, <3>1, <3>2, <3>3, <4>2
      <3>5. \A j \in 1 .. Len(toks[i]) : c[off[i] + j] = toks[i][j]
        BY <3>1 DEF Laid
      <3> QED
        BY <3>2, <3>3, <3>4, <3>5
    <2>5. \A j \in 1 .. Len(toks[i]) : 0 + j = j
      BY <2>4
    <2> QED
      BY <2>1, <2>2, <2>3, <2>4, <2>5
  <1>13. toks[1] = SubSeq(c, 1, off[2] - 1)
    <2> DEFINE n == off[2] - 1
               x == SubSeq(c, 1, n)
    <2>1. n \in 0 .. Len(c) /\ n = Len(toks[1])
      BY <1>3, <1>12
    <2>2. x \in Str /\ Len(x) = n /\ \A k \in 1 .. n : x[k] = c[k]
      BY <1>3, <2>1, Prefix
    <2> HIDE DEF x, n
    <2>3. x = toks[1]
      BY <1>12, <2>1, <2>2, SeqEqual DEF Str
    <2> QED
      BY <2>3 DEF x, n
  <1>14. 2 \in 2 .. Len(toks) + 1
    BY <1>4 DEF m
  <1> QED
    BY <1>1, <1>11, <1>13, <1>14 DEF WrittenBack, c

(* One token more written back. *)
LEMMA WriteGoesOn ==
  ASSUME NEW str, NEW v, NEW i, NEW ss, WrittenBack(str, v, i, ss), i <= Len(v)
  PROVE  WrittenBack(str, v, i + 1, ss \o <<Sep>> \o v[i])
  <1> DEFINE c == Closed(str)
  <1>1. str \in Str /\ v \in Seq(Str) /\ i \in 2 .. Len(v) + 1 /\ Len(v) \in Nat
    BY LenProperties DEF WrittenBack
  <1>2. PICK off \in [1 .. Len(v) + 1 -> 0 .. Len(c)] : Laid(v, off, c) /\ ss = SubSeq(c, 1, off[i] - 1)
    BY DEF WrittenBack
  <1>3. c \in Str /\ Len(c) \in Nat
    BY <1>1, ClosedIs, StrLen
  <1> HIDE DEF c
  <1>4. i \in 1 .. Len(v) /\ i - 1 \in 1 .. Len(v) /\ i - 1 + 1 = i
    BY <1>1
  <1>5. off[i] \in 1 .. Len(c) /\ c[off[i]] = Sep
    <2>1. off[i - 1 + 1] \in 1 .. Len(c) /\ c[off[i - 1 + 1]] = Sep
      BY <1>1, <1>2, <1>3, <1>4, LaidAt
    <2> QED
      BY <1>4, <2>1
  <1>6. /\ v[i] \in Str /\ Len(v[i]) \in Nat
        /\ off[i + 1] \in 1 .. Len(c) /\ off[i + 1] = off[i] + Len(v[i]) + 1
        /\ \A j \in 1 .. Len(v[i]) : c[off[i] + j] = v[i][j]
    BY <1>1, <1>2, <1>3, <1>4, LaidAt
  <1>7. ss \in Str /\ Len(ss) = off[i] - 1 /\ \A k \in 1 .. off[i] - 1 : ss[k] = c[k]
    <2>1. off[i] - 1 \in 0 .. Len(c)
      BY <1>3, <1>5
    <2> QED
      BY <1>2, <1>3, <2>1, Prefix
  <1> DEFINE text == ss \o <<Sep>> \o v[i]
             x == SubSeq(c, 1, off[i + 1] - 1)
  <1>8. /\ text \in Str
        /\ Len(text) = Len(ss) + 1 + Len(v[i])
        /\ \A k \in 1 .. Len(ss) : text[k] = ss[k]
        /\ text[Len(ss) + 1] = Sep
        /\ \A k \in 1 .. Len(v[i]) : text[Len(ss) + 1 + k] = v[i][k]
    BY <1>6, <1>7, Joined
  <1>9. x \in Str /\ Len(x) = off[i + 1] - 1 /\ \A k \in 1 .. off[i + 1] - 1 : x[k] = c[k]
    <2>1. off[i + 1] - 1 \in 0 .. Len(c)
      BY <1>3, <1>6
    <2> QED
      BY <1>3, <2>1, Prefix
  <1> HIDE DEF text, x
  <1>10. text = x
    <2>1. Len(text) = Len(x)
      BY <1>5, <1>6, <1>7, <1>8, <1>9
    <2>2. ASSUME NEW k \in 1 .. off[i + 1] - 1 PROVE text[k] = c[k]
      <3>1. CASE k <= off[i] - 1
        BY <1>5, <1>7, <1>8, <2>2, <3>1
      <3>2. CASE k = off[i]
        BY <1>5, <1>7, <1>8, <3>2
      <3>3. CASE k > off[i]
        <4>1. k - off[i] \in 1 .. Len(v[i]) /\ off[i] + (k - off[i]) = k /\ Len(ss) + 1 = off[i]
          <5>1. off[i] \in Nat /\ off[i + 1] \in 0 .. Len(c) /\ Len(c) \in Nat
            BY <1>3, <1>5, <1>6
          <5>2. Len(ss) + 1 = off[i]
            BY <1>5, <1>7
          <5>3. off[i + 1] = off[i] + Len(v[i]) + 1 /\ Len(v[i]) \in Nat
            BY <1>6
          <5>4. PICK a, b, len : a = off[i] /\ b = off[i + 1] /\ len = Len(v[i])
            OBVIOUS
          <5>5. a \in Nat /\ len \in Nat /\ b = a + len + 1 /\ k \in 1 .. b - 1 /\ k > a
            BY <2>2, <3>3, <5>1, <5>3, <5>4, Zenon
          <5>6. k - a \in 1 .. len /\ a + (k - a) = k
            BY <5>5
          <5> QED
            BY <5>2, <5>4, <5>6, Zenon
        <4>2. text[off[i] + (k - off[i])] = v[i][k - off[i]] /\ c[off[i] + (k - off[i])] = v[i][k - off[i]]
          BY <1>6, <1>8, <4>1
        <4> QED
          BY <4>1, <4>2
      <3> QED
        BY <1>5, <2>2, <3>1, <3>2, <3>3
    <2> QED
      BY <1>8, <1>9, <2>1, <2>2, SeqEqual DEF Str
  <1>11. i + 1 \in 2 .. Len(v) + 1
    BY <1>1
  <1> QED
    BY <1>1, <1>2, <1>10, <1>11 DEF WrittenBack, c, text, x

(* All are written back: the string without a separator at its end.        *)
LEMMA WriteEnds ==
  ASSUME NEW str, NEW v, NEW i, NEW ss, WrittenBack(str, v, i, ss), ~(i <= Len(v))
  PROVE  ss = Bare(str)
  <1>1. str \in Str /\ v \in Seq(Str) /\ i \in 2 .. Len(v) + 1 /\ Len(v) \in Nat
    BY LenProperties DEF WrittenBack
  <1>2. PICK off \in [1 .. Len(v) + 1 -> 0 .. Len(Closed(str))] :
          Laid(v, off, Closed(str)) /\ ss = SubSeq(Closed(str), 1, off[i] - 1)
    BY DEF WrittenBack
  <1>3. i = Len(v) + 1
    BY <1>1
  <1>4. off[i] = Len(Closed(str))
    BY <1>2, <1>3 DEF Laid
  <1> QED
    BY <1>1, <1>2, <1>4, ClosedIs

(* Token lists. *)
LEMMA ListIs ==
  ASSUME NEW v \in TokenLists
  PROVE  /\ v \in Seq(Str) /\ Len(v) \in Nat \ {0}
         /\ \A i \in 1 .. Len(v) : /\ v[i] \in Str /\ Len(v[i]) \in Nat
                                   /\ \A k \in 1 .. Len(v[i]) : v[i][k] # Sep
  <1>1. v \in Seq(Str) /\ v # <<>> /\ \A i \in 1 .. Len(v) : ~Contains(v[i], Sep)
    BY StringAssumption
  <1>2. Len(v) \in Nat \ {0}
    BY <1>1, LenProperties, EmptySeq
  <1>3. ASSUME NEW i \in 1 .. Len(v)
        PROVE  v[i] \in Str /\ Len(v[i]) \in Nat /\ \A k \in 1 .. Len(v[i]) : v[i][k] # Sep
    <2>1. v[i] \in Str
      BY <1>1, ElementOfSeq
    <2>2. Len(v[i]) \in Nat
      BY <2>1, StrLen
    <2>3. \A k \in 1 .. Len(v[i]) : v[i][k] # Sep
      BY <1>1 DEF Contains
    <2> QED
      BY <2>1, <2>2, <2>3
  <1> QED
    BY <1>1, <1>2, <1>3

LEMMA FirstTokens ==
  ASSUME NEW v \in Seq(Str), NEW n \in 0 .. Len(v)
  PROVE  /\ SubSeq(v, 1, n) \in Seq(Str)
         /\ Len(SubSeq(v, 1, n)) = n
         /\ \A i \in 1 .. n : SubSeq(v, 1, n)[i] = v[i]
  <1>1. Len(v) \in Nat
    BY LenProperties
  <1>2. n \in Int /\ n - 1 + 1 = n /\ \A i \in 1 .. n : v[i] \in Str
    BY <1>1, ElementOfSeq
  <1>3. /\ SubSeq(v, 1, n) \in Seq(Str)
        /\ Len(SubSeq(v, 1, n)) = IF 1 <= n THEN n - 1 + 1 ELSE 0
        /\ \A i \in 1 .. n - 1 + 1 : SubSeq(v, 1, n)[i] = v[1 + i - 1]
    BY <1>2, SubSeqProperties
  <1>4. Len(SubSeq(v, 1, n)) = n
    BY <1>1, <1>2, <1>3
  <1>5. \A i \in 1 .. n : SubSeq(v, 1, n)[i] = v[i]
    BY <1>1, <1>2, <1>3
  <1> QED
    BY <1>3, <1>4, <1>5

LEMMA OneTokenMore ==
  ASSUME NEW v \in Seq(Str), NEW i \in 1 .. Len(v)
  PROVE  Append(SubSeq(v, 1, i - 1), v[i]) = SubSeq(v, 1, i)
  <1>1. Len(v) \in Nat /\ v[i] \in Str
    BY LenProperties, ElementOfSeq
  <1>2. i - 1 \in 0 .. Len(v) /\ i \in 0 .. Len(v) /\ i - 1 + 1 = i
    BY <1>1
  <1> DEFINE a == SubSeq(v, 1, i - 1)
             b == SubSeq(v, 1, i)
             x == Append(a, v[i])
  <1>3. a \in Seq(Str) /\ Len(a) = i - 1 /\ \A k \in 1 .. i - 1 : a[k] = v[k]
    BY <1>2, FirstTokens
  <1>4. b \in Seq(Str) /\ Len(b) = i /\ \A k \in 1 .. i : b[k] = v[k]
    BY <1>2, FirstTokens
  <1> HIDE DEF a, b
  <1>5. /\ x \in Seq(Str) /\ Len(x) = Len(a) + 1
        /\ (\A k \in 1 .. Len(a) : x[k] = a[k]) /\ x[Len(a) + 1] = v[i]
    BY <1>1, <1>3, AppendProperties
  <1> HIDE DEF x
  <1>6. Len(x) = Len(b) /\ \A k \in 1 .. Len(x) : x[k] = b[k]
    BY <1>1, <1>2, <1>3, <1>4, <1>5
  <1>7. x = b
    BY <1>4, <1>5, <1>6, SeqEqual
  <1> QED
    BY <1>7 DEF x, a, b

(* pack() begins with the first token ... *)
LEMMA PackStarts ==
  ASSUME NEW v \in TokenLists PROVE Written(v, 2, v[1])
  <1>1. v \in Seq(Str) /\ Len(v) \in Nat \ {0} /\ 1 \in 1 .. Len(v) /\ v[1] \in Str
    BY ListIs
  <1>2. SubSeq(v, 1, 1 - 1) = <<>>
    BY <1>1, SubSeqEmpty
  <1>3. Append(<<>>, v[1]) = SubSeq(v, 1, 1)
    BY <1>1, <1>2, OneTokenMore
  <1>4. <<>> \in Str /\ <<>> \in Seq(Str)
    BY DEF Str
  <1>5. IsLaid(Append(<<>>, v[1]), <<>> \o v[1] \o <<Sep>>)
    BY <1>1, <1>4, LaidNone, LaidMore
  <1>6. <<>> \o v[1] = v[1]
    BY <1>1, ConcatEmptySeq DEF Str
  <1>7. 2 \in 2 .. Len(v) + 1 /\ 2 - 1 = 1
    BY <1>1
  <1>8. IsLaid(SubSeq(v, 1, 2 - 1), v[1] \o <<Sep>>)
    BY <1>3, <1>5, <1>6, <1>7
  <1> QED
    BY <1>1, <1>7, <1>8 DEF Written

(* ... and goes on with the next. *)
LEMMA PackGoesOn ==
  ASSUME NEW v, NEW i, NEW ss, Written(v, i, ss), i <= Len(v)
  PROVE  Written(v, i + 1, ss \o <<Sep>> \o v[i])
  <1>1. v \in TokenLists /\ i \in 2 .. Len(v) + 1 /\ ss \in Str /\ IsLaid(SubSeq(v, 1, i - 1), ss \o <<Sep>>)
    BY DEF Written
  <1>2. v \in Seq(Str) /\ Len(v) \in Nat
    BY <1>1, ListIs
  <1>3. i \in 1 .. Len(v) /\ i + 1 \in 2 .. Len(v) + 1 /\ i + 1 - 1 = i /\ i - 1 \in 0 .. Len(v)
    BY <1>1, <1>2
  <1>4. v[i] \in Str /\ SubSeq(v, 1, i - 1) \in Seq(Str)
    BY <1>1, <1>2, <1>3, ListIs, FirstTokens
  <1>5. ss \o <<Sep>> \in Str
    BY <1>1, StringAssumption, ConcatProperties DEF Str
  <1>6. Append(SubSeq(v, 1, i - 1), v[i]) = SubSeq(v, 1, i)
    BY <1>2, <1>3, OneTokenMore
  <1>7. IsLaid(Append(SubSeq(v, 1, i - 1), v[i]), (ss \o <<Sep>>) \o v[i] \o <<Sep>>)
    BY <1>1, <1>4, <1>5, LaidMore
  <1>8. ss \o <<Sep>> \o v[i] \in Str
    BY <1>1, <1>4, Joined
  <1>9. IsLaid(SubSeq(v, 1, i + 1 - 1), (ss \o <<Sep>> \o v[i]) \o <<Sep>>)
    BY <1>3, <1>6, <1>7
  <1> QED
    BY <1>1, <1>3, <1>8, <1>9 DEF Written

(* What was packed is there to be read from its first token. *)
LEMMA PackEnds ==
  ASSUME NEW v, NEW i, NEW ss, Written(v, i, ss), ~(i <= Len(v))
  PROVE  ReadBack(v, <<>>, ss)
  <1>1. v \in TokenLists /\ i \in 2 .. Len(v) + 1 /\ ss \in Str /\ IsLaid(SubSeq(v, 1, i - 1), ss \o <<Sep>>)
    BY DEF Written
  <1>2. v \in Seq(Str) /\ Len(v) \in Nat /\ Len(ss) \in Nat
    BY <1>1, ListIs, StrLen
  <1>3. i - 1 = Len(v)
    BY <1>1, <1>2
  <1>4. IsLaid(v, ss \o <<Sep>>)
    BY <1>1, <1>2, <1>3, SubSeqFull
  <1>5. Len(ss \o <<Sep>>) = Len(ss) + 1
    BY <1>1, StringAssumption, ConcatProperties DEF Str
  <1>6. PICK off \in [1 .. Len(v) + 1 -> 0 .. Len(ss) + 1] : Laid(v, off, ss \o <<Sep>>)
    BY <1>4, <1>5 DEF IsLaid
  <1>7. off[1] = 0
    BY <1>6 DEF Laid
  <1>8. SubSeq(v, 1, 0) = <<>> /\ 0 \in 0 .. Len(v) /\ 0 + 1 = 1 /\ ~(0 > 0)
    BY <1>2, SubSeqEmpty
  <1>9. ss = SubSeq(ss, off[0 + 1] + 1, Len(ss))
    <2>1. SubSeq(ss, 1, Len(ss)) = ss
      BY <1>1, SubSeqFull DEF Str
    <2> QED
      BY <1>7, <1>8, <2>1
  <1> QED
    BY <1>1, <1>6, <1>8, <1>9 DEF ReadBack

(* One getline() of what was packed reads the next token. *)
LEMMA ReadBackGoesOn ==
  ASSUME NEW v, NEW toks, NEW ss, ReadBack(v, toks, ss), ss # <<>>
  PROVE  ReadBack(v, Append(toks, SubSeq(ss, 1, Stop(ss) - 1)),
                  SubSeq(ss, Stop(ss) + 1, Len(ss)))
  <1>1. v \in TokenLists
    BY DEF ReadBack
  <1>2. v \in Seq(Str) /\ Len(v) \in Nat
    BY <1>1, ListIs
  <1>3. PICK m \in 0 .. Len(v) :
          /\ toks = SubSeq(v, 1, m)
          /\ \E str \in Str : \E off \in [1 .. Len(v) + 1 -> 0 .. Len(str) + 1] :
                /\ Laid(v, off, str \o <<Sep>>)
                /\ ss = SubSeq(str, off[m + 1] + 1, Len(str))
                /\ m > 0 => off[m] < Len(str)
    BY DEF ReadBack
  <1>0. PICK str \in Str : \E off \in [1 .. Len(v) + 1 -> 0 .. Len(str) + 1] :
          /\ Laid(v, off, str \o <<Sep>>)
          /\ ss = SubSeq(str, off[m + 1] + 1, Len(str))
    BY <1>3
  <1>4. PICK off \in [1 .. Len(v) + 1 -> 0 .. Len(str) + 1] :
          /\ Laid(v, off, str \o <<Sep>>)
          /\ ss = SubSeq(str, off[m + 1] + 1, Len(str))
    BY <1>0
  <1> DEFINE text == str \o <<Sep>>
             L == Len(str)
  <1>5. /\ L \in Nat /\ Len(text) = L + 1 /\ text[L + 1] = Sep
        /\ \A k \in 1 .. L : text[k] = str[k]
    <2>1. <<Sep>> \in Str /\ Len(<<Sep>>) = 1 /\ <<Sep>>[1] = Sep
      BY StringAssumption DEF Str
    <2>2. /\ Len(text) = L + Len(<<Sep>>)
          /\ \A k \in 1 .. L + Len(<<Sep>>) : text[k] = IF k <= L THEN str[k] ELSE <<Sep>>[k - L]
      BY <2>1, ConcatProperties DEF Str
    <2>3. L \in Nat
      BY StrLen
    <2> HIDE DEF text, L
    <2> QED
      BY <2>1, <2>2, <2>3
  <1>6. Laid(v, off, text)
    BY <1>4
  <1> HIDE DEF text
  <1>7. PICK p : p = off[m + 1]
    OBVIOUS
  <1>8. p \in 0 .. L + 1 /\ p \in Nat
    <2>1. m + 1 \in 1 .. Len(v) + 1
      BY <1>2
    <2> QED
      BY <1>5, <1>7, <2>1
  <1>9. ss \in Str /\ Len(ss) = L - p /\ p < L /\ \A k \in 1 .. L - p : ss[k] = str[p + k]
    <2>1. p + 1 \in Nat \ {0} /\ L \in 0 .. Len(str)
      BY <1>5, <1>8
    <2>2. /\ ss \in Str /\ Len(ss) = IF p + 1 <= L THEN L - (p + 1) + 1 ELSE 0
          /\ \A k \in 1 .. L - (p + 1) + 1 : ss[k] = str[p + 1 + k - 1]
      BY <1>4, <1>7, <2>1, Part
    <2> HIDE DEF L
    <2>3. Len(ss) # 0
      BY <2>2, EmptySeq DEF Str
    <2>4. p < L
      BY <1>5, <1>8, <2>2, <2>3
    <2>5. p + 1 <= L /\ L - (p + 1) + 1 = L - p
      BY <1>5, <1>8, <2>4
    <2>6. Len(ss) = L - p
      BY <2>2, <2>5
    <2>7. ASSUME NEW k \in 1 .. L - p PROVE ss[k] = str[p + k]
      <3>1. k \in 1 .. L - (p + 1) + 1 /\ p + 1 + k - 1 = p + k
        BY <1>5, <1>8, <2>5, <2>7
      <3> QED
        BY <2>2, <3>1
    <2> QED
      BY <2>2, <2>4, <2>6, <2>7
  <1> HIDE DEF L
  <1>10. m < Len(v)
    <2>1. off[Len(v) + 1] = L + 1
      BY <1>5, <1>6 DEF Laid
    <2> QED
      BY <1>2, <1>5, <1>7, <1>8, <1>9, <2>1
  <1>11. PICK i : i = m + 1
    OBVIOUS
  <1>12. i \in 1 .. Len(v) /\ i \in 0 .. Len(v) /\ i - 1 = m /\ i > 0 /\ Len(text) \in Nat
    BY <1>2, <1>5, <1>10, <1>11
  <1>13. /\ v[i] \in Str /\ Len(v[i]) \in Nat /\ off[i] = p
         /\ off[i + 1] \in 1 .. L + 1 /\ off[i + 1] = p + Len(v[i]) + 1
         /\ text[off[i + 1]] = Sep
         /\ \A j \in 1 .. Len(v[i]) : text[p + j] = v[i][j]
    <2>1. off[i] = p
      BY <1>7, <1>11
    <2>2. /\ v[i] \in Str /\ Len(v[i]) \in Nat
          /\ off[i + 1] \in 1 .. Len(text) /\ off[i + 1] = off[i] + Len(v[i]) + 1
          /\ text[off[i + 1]] = Sep
      BY <1>2, <1>6, <1>12, LaidAt
    <2>3. \A j \in 1 .. Len(v[i]) : text[off[i] + j] = v[i][j]
      BY <1>6, <1>12 DEF Laid
    <2> QED
      BY <1>5, <2>1, <2>2, <2>3
  <1>14. \A k \in 1 .. Len(v[i]) : v[i][k] # Sep
    BY <1>1, <1>12, ListIs
  <1>15. PICK n : n = Len(v[i]) + 1
    OBVIOUS
  <1>16. n \in 1 .. Len(ss) + 1 /\ n \in Nat /\ off[i + 1] = p + n /\ n - 1 = Len(v[i])
    BY <1>5, <1>8, <1>9, <1>13, <1>15
  <1>17. \A k \in 1 .. n - 1 : ss[k] = v[i][k]
    <2> SUFFICES ASSUME NEW k \in 1 .. n - 1 PROVE ss[k] = v[i][k]
      OBVIOUS
    <2>1. k \in 1 .. L - p /\ p + k \in 1 .. L /\ k \in 1 .. Len(v[i])
      BY <1>5, <1>8, <1>9, <1>16
    <2> QED
      BY <1>5, <1>9, <1>13, <2>1
  <1>18. n = Stop(ss)
    <2>1. ASSUME n <= Len(ss) PROVE ss[n] = Sep
      <3>1. n \in 1 .. L - p /\ p + n \in 1 .. L
        BY <1>5, <1>8, <1>9, <1>16, <2>1
      <3>2. ss[n] = str[p + n] /\ text[p + n] = str[p + n]
        BY <1>5, <1>9, <3>1
      <3> QED
        BY <1>13, <1>16, <3>2
    <2>2. \A k \in 1 .. n - 1 : ss[k] # Sep
      BY <1>14, <1>16, <1>17
    <2>3. StopsAt(ss, n)
      BY <1>16, <2>1, <2>2 DEF StopsAt
    <2> QED
      BY <1>9, <2>3, StopIs
  <1>19. SubSeq(ss, 1, n - 1) = v[i]
    <2> DEFINE x == SubSeq(ss, 1, n - 1)
    <2>1. n - 1 \in 0 .. Len(ss)
      BY <1>5, <1>8, <1>9, <1>16
    <2>2. x \in Str /\ Len(x) = n - 1 /\ \A k \in 1 .. n - 1 : x[k] = ss[k]
      BY <1>9, <2>1, Prefix
    <2> HIDE DEF x
    <2>3. x = v[i]
      <3>1. x \in Seq(Char) /\ v[i] \in Seq(Char)
        BY <1>13, <2>2 DEF Str
      <3>2. Len(x) = Len(v[i]) /\ \A k \in 1 .. Len(x) : x[k] = v[i][k]
        BY <1>16, <1>17, <2>2
      <3> QED
        BY <3>1, <3>2, SeqEqual, Zenon
    <2> QED
      BY <2>3 DEF x
  <1>20. Append(toks, v[i]) = SubSeq(v, 1, i)
    BY <1>2, <1>3, <1>12, OneTokenMore
  <1>21. SubSeq(ss, n + 1, Len(ss)) = SubSeq(str, off[i + 1] + 1, Len(str))
    <2> DEFINE x == SubSeq(ss, n + 1, Len(ss))
               y == SubSeq(str, p + n + 1, L)
    <2>1. /\ n + 1 \in Nat \ {0} /\ Len(ss) \in 0 .. Len(ss)
          /\ p + n + 1 \in Nat \ {0} /\ L \in 0 .. Len(str)
      BY <1>5, <1>8, <1>9, <1>16 DEF L
    <2>2. /\ x \in Str /\ Len(x) = IF n + 1 <= Len(ss) THEN Len(ss) - (n + 1) + 1 ELSE 0
          /\ \A k \in 1 .. Len(ss) - (n + 1) + 1 : x[k] = ss[n + 1 + k - 1]
      BY <1>9, <2>1, Part
    <2>3. /\ y \in Str /\ Len(y) = IF p + n + 1 <= L THEN L - (p + n + 1) + 1 ELSE 0
          /\ \A k \in 1 .. L - (p + n + 1) + 1 : y[k] = str[p + n + 1 + k - 1]
      BY <2>1, Part
    <2> HIDE DEF x, y
    <2>4. Len(x) = Len(y)
      BY <1>5, <1>8, <1>9, <1>16, <2>2, <2>3
    <2>5. ASSUME NEW k \in 1 .. Len(x) PROVE x[k] = y[k]
      <3>1. /\ k \in 1 .. Len(ss) - (n + 1) + 1 /\ k \in 1 .. L - (p + n + 1) + 1
            /\ n + 1 + k - 1 \in 1 .. L - p
            /\ p + (n + 1 + k - 1) = p + n + 1 + k - 1
        BY <1>5, <1>8, <1>9, <1>16, <2>2, <2>5
      <3> QED
        BY <1>9, <2>2, <2>3, <3>1
    <2>6. x = y
      BY <2>2, <2>3, <2>4, <2>5, SeqEqual DEF Str
    <2> QED
      BY <1>16, <2>6 DEF x, y, L
  <1>22. off[i] < Len(str)
    BY <1>9, <1>13 DEF L
  <1>23. ReadBack(v, Append(toks, v[i]), SubSeq(ss, n + 1, Len(ss)))
    BY <1>1, <1>4, <1>12, <1>20, <1>21, <1>22 DEF ReadBack
  <1> QED
    BY <1>18, <1>19, <1>23

(* getline() fails: all were read, but for an empty token at the end. *)
LEMMA ReadBackEnds ==
  ASSUME NEW v, NEW toks, ReadBack(v, toks, <<>>)
  PROVE  toks = IF Last(v) = <<>> THEN Front(v) ELSE v
  <1>1. v \in TokenLists
    BY DEF ReadBack
  <1>2. v \in Seq(Str) /\ Len(v) \in Nat \ {0}
    BY <1>1, ListIs
  <1>3. PICK m \in 0 .. Len(v) :
          /\ toks = SubSeq(v, 1, m)
          /\ \E str \in Str : \E off \in [1 .. Len(v) + 1 -> 0 .. Len(str) + 1] :
                /\ Laid(v, off, str \o <<Sep>>)
                /\ <<>> = SubSeq(str, off[m + 1] + 1, Len(str))
                /\ m > 0 => off[m] < Len(str)
    BY DEF ReadBack
  <1>0. PICK str \in Str : \E off \in [1 .. Len(v) + 1 -> 0 .. Len(str) + 1] :
          /\ Laid(v, off, str \o <<Sep>>)
          /\ <<>> = SubSeq(str, off[m + 1] + 1, Len(str))
          /\ m > 0 => off[m] < Len(str)
    BY <1>3
  <1>4. PICK off \in [1 .. Len(v) + 1 -> 0 .. Len(str) + 1] :
          /\ Laid(v, off, str \o <<Sep>>)
          /\ <<>> = SubSeq(str, off[m + 1] + 1, Len(str))
          /\ m > 0 => off[m] < Len(str)
    BY <1>0
  <1> DEFINE L == Len(str)
             n == Len(v)
  <1>5. L \in Nat /\ Len(str \o <<Sep>>) = L + 1
    BY StrLen, StringAssumption, ConcatProperties DEF Str
  <1>6. off[m + 1] \in Nat /\ off[m + 1] >= L
    <2>1. m + 1 \in 1 .. Len(v) + 1
      BY <1>2
    <2>2. off[m + 1] \in 0 .. L + 1
      BY <2>1
    <2>3. off[m + 1] + 1 \in Nat \ {0} /\ L \in 0 .. Len(str)
      BY <1>5, <2>2
    <2>4. Len(SubSeq(str, off[m + 1] + 1, L)) = IF off[m + 1] + 1 <= L THEN L - (off[m + 1] + 1) + 1 ELSE 0
      BY <2>3, Part
    <2>5. Len(<<>>) = 0
      OBVIOUS
    <2>6. (IF off[m + 1] + 1 <= L THEN L - (off[m + 1] + 1) + 1 ELSE 0) = 0
      BY <1>4, <2>4, <2>5
    <2> HIDE DEF L
    <2> QED
      BY <1>5, <2>2, <2>6
  <1>7. /\ off[n + 1] = L + 1
        /\ \A i, j \in 1 .. n + 1 : i < j => off[i] < off[j]
        /\ \A i \in 1 .. n + 1 : off[i] \in 0 .. L + 1
    BY <1>4, <1>5 DEF Laid
  <1>8. ASSUME NEW i \in 1 .. n
        PROVE  v[i] \in Str /\ Len(v[i]) \in Nat /\ off[i + 1] = off[i] + Len(v[i]) + 1
    BY <1>1, <1>4, <1>8, ListIs DEF Laid
  <1>9. \A i \in 1 .. n : v[i] = <<>> <=> Len(v[i]) = 0
    BY <1>8, EmptySeq DEF Str
  <1> HIDE DEF L, n
  <1>10. n \in Nat \ {0} /\ m \in 0 .. n /\ n \in 1 .. n
    BY <1>2 DEF n
  <1>11. CASE m = n
    <2>1. off[n] < L
      BY <1>4, <1>10, <1>11 DEF L
    <2>2. off[n + 1] = off[n] + Len(v[n]) + 1 /\ Len(v[n]) \in Nat /\ off[n] \in 0 .. L + 1
      BY <1>7, <1>8, <1>10
    <2>3. Len(v[n]) # 0
      BY <1>5, <1>7, <2>1, <2>2
    <2>4. v[n] # <<>>
      BY <1>9, <1>10, <2>3
    <2>5. toks = v
      BY <1>2, <1>3, <1>11, SubSeqFull DEF n
    <2> QED
      BY <2>4, <2>5 DEF Last, n
  <1>12. CASE m < n
    <2>1. PICK i : i = m + 1
      OBVIOUS
    <2>2. i \in 1 .. n /\ i + 1 \in 1 .. n + 1 /\ n + 1 \in 1 .. n + 1
      BY <1>10, <1>12, <2>1
    <2>3. off[i + 1] = off[i] + Len(v[i]) + 1 /\ Len(v[i]) \in Nat /\ off[i + 1] \in 0 .. L + 1
      BY <1>7, <1>8, <2>2
    <2>4. off[i] >= L /\ off[i] \in Nat
      BY <1>6, <2>1
    <2>5. off[i + 1] = L + 1 /\ Len(v[i]) = 0
      <3>1. PICK a, b, len : a = off[i] /\ b = off[i + 1] /\ len = Len(v[i])
        OBVIOUS
      <3>2. b = a + len + 1 /\ len \in Nat /\ b \in 0 .. L + 1 /\ a >= L /\ a \in Nat
        BY <2>3, <2>4, <3>1, Zenon
      <3>3. b = L + 1 /\ len = 0
        BY <1>5, <3>2
      <3> QED
        BY <3>1, <3>3, Zenon
    <2>6. i = n
      <3>1. SUFFICES ASSUME i # n PROVE FALSE
        OBVIOUS
      <3>2. i + 1 < n + 1
        BY <1>10, <2>2, <3>1
      <3>3. off[i + 1] < off[n + 1]
        BY <1>7, <2>2, <3>2
      <3> QED
        BY <1>5, <1>7, <2>5, <3>3
    <2>7. v[n] = <<>>
      BY <1>9, <2>2, <2>5, <2>6
    <2>8. m = n - 1
      BY <1>10, <2>1, <2>6
    <2>9. toks = Front(v)
      BY <1>3, <2>8 DEF Front, n
    <2> QED
      BY <2>7, <2>9 DEF Last, n
  <1> QED
    BY <1>10, <1>11, <1>12

(* The results, said of a record so that a step can be argued about by the *)
(* record it leaves.                                                       *)
Results(c) ==
  /\ c.op = "string" => c.out = Bare(c.in)
  /\ c.op = "tokens" => c.out = IF Last(c.in) = <<>> THEN Front(c.in) ELSE c.in
  /\ c.op = "caught" => c.out = <<>>

LEMMA ResultsAre ==
  /\ StringRoundTrip /\ TokensRoundTrip <=> Results(conv)
  /\ (StringRoundTrip /\ TokensRoundTrip)' <=> Results(conv')
  BY DEF StringRoundTrip, TokensRoundTrip, Results, Bare

(* A step that leaves a record of no loop, of unpack() running or of       *)
(* pack() running.                                                         *)
LEMMA NoLoop ==
  ASSUME NEW c, c.op \notin {"pack", "unpack", "string", "tokens", "caught"}
  PROVE  Loops(c) /\ Results(c)
  BY DEF Loops, Results

LEMMA LoopUnpacks ==
  ASSUME NEW job, NEW given, NEW toks, NEW ss,
         job = "string" => ReadOf(given, toks, ss),
         job = "tokens" => ReadBack(given, toks, ss)
  PROVE  Loops(Unpacking(job, given, toks, ss)) /\ Results(Unpacking(job, given, toks, ss))
  <1> DEFINE c == Unpacking(job, given, toks, ss)
  <1>1. c.op = "unpack" /\ c.job = job /\ c.in = given /\ c.toks = toks /\ c.ss = ss
    BY DEF Unpacking
  <1> HIDE DEF c
  <1>2. Loops(c) /\ Results(c)
    BY <1>1 DEF Loops, Results
  <1> QED
    BY <1>2 DEF c

LEMMA LoopPacks ==
  ASSUME NEW job, NEW given, NEW toks, NEW v, NEW i, NEW ss,
         job = "string" => WrittenBack(given, v, i, ss),
         job = "tokens" => given = v /\ Written(v, i, ss)
  PROVE  /\ Loops(Packing(job, given, toks, v, i, ss))
         /\ Results(Packing(job, given, toks, v, i, ss))
  <1> DEFINE c == Packing(job, given, toks, v, i, ss)
  <1>1. c.op = "pack" /\ c.job = job /\ c.in = given /\ c.v = v /\ c.i = i /\ c.ss = ss
    BY DEF Packing
  <1> HIDE DEF c
  <1>2. Loops(c) /\ Results(c)
    BY <1>1 DEF Loops, Results
  <1> QED
    BY <1>2 DEF c

(* Every step, by the loop it is of.                                       *)
LEMMA AsciiNext ==
  ASSUME Loops(conv), Next PROVE Loops(conv') /\ Results(conv')
  <1>1. ASSUME NEW s \in Strings, ParseString(s) PROVE Loops(conv') /\ Results(conv')
    <2>1. s \in Str
      BY StringAssumption
    <2>2. conv' = Unpacking("string", s, <<>>, s)
      BY <1>1 DEF ParseString, Cleared
    <2>3. ReadOf(s, <<>>, s)
      BY <2>1, ReadStarts
    <2> QED
      BY <2>2, <2>3, LoopUnpacks
  <1>2. ASSUME NEW t, NEW v \in TokenLists, PrintTokens(t, v) PROVE Loops(conv') /\ Results(conv')
    <2>1. conv' = Packing("tokens", v, t, v, 2, v[1])
      BY <1>2 DEF PrintTokens
    <2>2. Written(v, 2, v[1])
      BY PackStarts
    <2> QED
      BY <2>1, <2>2, LoopPacks
  <1>3. CASE getline
    <2> DEFINE toks == Append(conv.toks, SubSeq(conv.ss, 1, Stop(conv.ss) - 1))
               ss == SubSeq(conv.ss, Stop(conv.ss) + 1, Len(conv.ss))
    <2>1. conv.op = "unpack" /\ conv.ss # <<>> /\ conv' = Unpacking(conv.job, conv.in, toks, ss)
      BY <1>3 DEF getline
    <2>2. conv.job = "string" => ReadOf(conv.in, toks, ss)
      BY <2>1, ReadGoesOn DEF Loops
    <2>3. conv.job = "tokens" => ReadBack(conv.in, toks, ss)
      BY <2>1, ReadBackGoesOn DEF Loops
    <2> HIDE DEF toks, ss
    <2> QED
      BY <2>1, <2>2, <2>3, LoopUnpacks
  <1>4. CASE Catch
    <2>1. conv'.op = "caught" /\ conv'.out = <<>>
      BY <1>4 DEF Catch, Cleared
    <2> QED
      BY <2>1 DEF Loops, Results
  <1>5. CASE UnpackReturns
    <2>1. conv.op = "unpack" /\ conv.ss = <<>>
      BY <1>5 DEF UnpackReturns
    <2>2. CASE conv.job = "tokens" /\ conv' = [op |-> "tokens", in |-> conv.in, out |-> conv.toks]
      <3>1. ReadBack(conv.in, conv.toks, <<>>)
        BY <2>1, <2>2 DEF Loops
      <3>2. conv.toks = IF Last(conv.in) = <<>> THEN Front(conv.in) ELSE conv.in
        BY <3>1, ReadBackEnds
      <3>3. conv'.op = "tokens" /\ conv'.in = conv.in /\ conv'.out = conv.toks
        BY <2>2
      <3> QED
        BY <3>2, <3>3 DEF Loops, Results
    <2>3. CASE /\ conv.job = "string" /\ conv.toks # <<>>
               /\ conv' = Packing("string", conv.in, conv.toks, conv.toks, 2, conv.toks[1])
      <3>1. ReadOf(conv.in, conv.toks, <<>>)
        BY <2>1, <2>3 DEF Loops
      <3>2. WrittenBack(conv.in, conv.toks, 2, conv.toks[1])
        BY <2>3, <3>1, ReadEnds
      <3> QED
        BY <2>3, <3>2, LoopPacks
    <2>4. CASE conv' = Nothing
      BY <2>4, NoLoop DEF Nothing
    <2> QED
      BY <1>5, <2>2, <2>3, <2>4 DEF UnpackReturns
  <1>6. CASE PackToken
    <2> DEFINE i == conv.i + 1
               ss == conv.ss \o <<Sep>> \o conv.v[conv.i]
    <2>1. /\ conv.op = "pack" /\ conv.i <= Len(conv.v)
          /\ conv' = Packing(conv.job, conv.in, conv.toks, conv.v, i, ss)
      BY <1>6 DEF PackToken, More
    <2>2. conv.job = "string" => WrittenBack(conv.in, conv.v, i, ss)
      BY <2>1, WriteGoesOn DEF Loops
    <2>3. conv.job = "tokens" => conv.in = conv.v /\ Written(conv.v, i, ss)
      BY <2>1, PackGoesOn DEF Loops
    <2> HIDE DEF i, ss
    <2> QED
      BY <2>1, <2>2, <2>3, LoopPacks
  <1>7. CASE PackReturns
    <2>1. conv.op = "pack" /\ ~(conv.i <= Len(conv.v))
      BY <1>7 DEF PackReturns, More
    <2>2. CASE conv.job = "tokens" /\ conv' = Unpacking("tokens", conv.in, Cleared(conv.toks), conv.ss)
      <3>1. conv.in = conv.v /\ ReadBack(conv.v, <<>>, conv.ss)
        BY <2>1, <2>2, PackEnds DEF Loops
      <3>2. conv' = Unpacking("tokens", conv.in, <<>>, conv.ss)
        BY <2>2 DEF Cleared
      <3> QED
        BY <3>1, <3>2, LoopUnpacks
    <2>3. CASE conv.job = "string" /\ conv' = [op |-> "string", in |-> conv.in, out |-> conv.ss]
      <3>1. conv.ss = Bare(conv.in)
        BY <2>1, <2>3, WriteEnds DEF Loops
      <3>2. conv'.op = "string" /\ conv'.in = conv.in /\ conv'.out = conv.ss
        BY <2>3
      <3> QED
        BY <3>1, <3>2 DEF Loops, Results
    <2> QED
      BY <1>7, <2>2, <2>3 DEF PackReturns
  <1>8. CASE Convert
    <2>1. CASE conv'.op \notin {"pack", "unpack"}
      BY <1>8, <2>1, ByOp, NoLoop
    <2>2. CASE conv'.op = "unpack"
      BY <1>1, <1>8, <2>2, ByOp
    <2>3. CASE conv'.op = "pack"
      BY <1>2, <1>8, <2>3, ByOp
    <2> QED
      BY <2>1, <2>2, <2>3
  <1>9. CASE conv' = Nothing
    BY <1>9, NoLoop DEF Nothing
  <1> QED
    BY <1>2, <1>3, <1>4, <1>5, <1>6, <1>7, <1>8, <1>9 DEF Next, AsciiStep

-----------------------------------------------------------------------------
(* A property of the last result holds of every result if it holds of what *)
(* Convert makes: at first, and between two conversions, there is none.    *)

(* settimeout(), for every timeout: the kernel takes it if it is not       *)
(* negative, no receive waits longer than asked, whole seconds are exact   *)
(* and only 0 means for ever.                                              *)
THEOREM TimeoutKept == Spec => []TimeoutNeverLonger
  <1>1. Init => TimeoutNeverLonger
    BY DEF Init, Nothing, TimeoutNeverLonger
  <1>2. TimeoutNeverLonger /\ [Next]_vars => TimeoutNeverLonger'
    <2> SUFFICES ASSUME TimeoutNeverLonger, [Next]_vars PROVE TimeoutNeverLonger'
      OBVIOUS
    <2>1. CASE Convert
      BY <2>1, ConvertTimeout
    <2>2. CASE conv'.op \in AsciiOps
      BY <2>2 DEF AsciiOps, TimeoutNeverLonger
    <2>3. CASE UNCHANGED vars
      BY <2>3 DEF vars, TimeoutNeverLonger, ValidTimeval, Wait
    <2> QED
      BY <2>1, <2>2, <2>3, OtherSteps
  <1> QED
    BY <1>1, <1>2, PTL DEF Spec

(* pack(), a datagram and unpack(), for every struct and every msg_size:   *)
(* the struct survives exactly when msg_size is its size.                  *)
THEOREM StructKept == Spec => []StructSurvives
  <1>1. Init => StructSurvives
    BY DEF Init, Nothing, StructSurvives
  <1>2. StructSurvives /\ [Next]_vars => StructSurvives'
    <2> SUFFICES ASSUME StructSurvives, [Next]_vars PROVE StructSurvives'
      OBVIOUS
    <2>1. CASE Convert
      BY <2>1, ConvertStruct
    <2>2. CASE conv'.op \in AsciiOps
      BY <2>2 DEF AsciiOps, StructSurvives
    <2>3. CASE UNCHANGED vars
      BY <2>3 DEF vars, StructSurvives
    <2> QED
      BY <2>1, <2>2, <2>3, OtherSteps
  <1> QED
    BY <1>1, <1>2, PTL DEF Spec

(* simple.cpp prints a datagram as it was sent exactly when it has no zero *)
(* byte and leaves room for a terminator, whatever the buffer's size.      *)
THEOREM BufferKept == Spec => []BufferPrinted
  <1>1. Init => BufferPrinted
    BY DEF Init, Nothing, BufferPrinted
  <1>2. BufferPrinted /\ [Next]_vars => BufferPrinted'
    <2> SUFFICES ASSUME BufferPrinted, [Next]_vars PROVE BufferPrinted'
      OBVIOUS
    <2>1. CASE Convert
      BY <2>1, ConvertBuffer
    <2>2. CASE conv'.op \in AsciiOps
      BY <2>2 DEF AsciiOps, BufferPrinted
    <2>3. CASE UNCHANGED vars
      BY <2>3 DEF vars, BufferPrinted, Contains
    <2> QED
      BY <2>1, <2>2, <2>3, OtherSteps
  <1> QED
    BY <1>1, <1>2, PTL DEF Spec

(* filter() and the printing of addresses, for every address text: exactly *)
(* the plain addresses print as they were written, and what an inet        *)
(* address prints as is read back as the same address.                     *)
THEOREM AddressKept == Spec => []AddressRoundTrip
  <1>1. Init => AddressRoundTrip
    BY DEF Init, Nothing, AddressRoundTrip
  <1>2. AddressRoundTrip /\ [Next]_vars => AddressRoundTrip'
    <2> SUFFICES ASSUME AddressRoundTrip, [Next]_vars PROVE AddressRoundTrip'
      OBVIOUS
    <2>1. CASE Convert
      BY <2>1, ConvertAddress
    <2>2. CASE conv'.op \in AsciiOps
      BY <2>2 DEF AsciiOps, AddressRoundTrip
    <2>3. CASE UNCHANGED vars
      BY <2>3 DEF vars, AddressRoundTrip
    <2> QED
      BY <2>1, <2>2, <2>3, OtherSteps
  <1> QED
    BY <1>1, <1>2, PTL DEF Spec

(* The library's parser, that of regex.cpp and that of simple.cpp agree,   *)
(* and differ, as the property says, on every address text.                *)
THEOREM ParsersAgree == Spec => []FiltersAgree
  <1>1. Init => FiltersAgree
    BY DEF Init, Nothing, FiltersAgree
  <1>2. FiltersAgree /\ [Next]_vars => FiltersAgree'
    <2> SUFFICES ASSUME FiltersAgree, [Next]_vars PROVE FiltersAgree'
      OBVIOUS
    <2>1. CASE Convert
      BY <2>1, ConvertExample
    <2>2. CASE conv'.op \in AsciiOps
      BY <2>2 DEF AsciiOps, FiltersAgree
    <2>3. CASE UNCHANGED vars
      BY <2>3 DEF vars, FiltersAgree
    <2> QED
      BY <2>1, <2>2, <2>3, OtherSteps
  <1> QED
    BY <1>1, <1>2, PTL DEF Spec

(* SocketInfo's lines, for every socket: an option that fits a byte is     *)
(* printed right, a buffer size beyond it is not.                          *)
THEOREM InfoRight == Spec => []InfoTruthful
  <1>1. Init => InfoTruthful
    BY DEF Init, Nothing, InfoTruthful
  <1>2. InfoTruthful /\ [Next]_vars => InfoTruthful'
    <2> SUFFICES ASSUME InfoTruthful, [Next]_vars PROVE InfoTruthful'
      OBVIOUS
    <2>1. CASE Convert
      BY <2>1, ConvertInfo
    <2>2. CASE conv'.op \in AsciiOps
      BY <2>2 DEF AsciiOps, InfoTruthful
    <2>3. CASE UNCHANGED vars
      BY <2>3 DEF vars, InfoTruthful
    <2> QED
      BY <2>1, <2>2, <2>3, OtherSteps
  <1> QED
    BY <1>1, <1>2, PTL DEF Spec

(* Ascii's loops keep their invariant, whatever the strings, the token     *)
(* lists and the separator: what was read and what was written are laid    *)
(* over each other.                                                        *)
THEOREM AsciiKept == Spec => []AsciiInv
  <1>1. Init => AsciiInv
    BY NoLoop, ResultsAre DEF Init, Nothing, AsciiInv
  <1>2. AsciiInv /\ [Next]_vars => AsciiInv'
    <2> SUFFICES ASSUME AsciiInv, [Next]_vars PROVE AsciiInv'
      OBVIOUS
    <2>1. Loops(conv) /\ Results(conv)
      BY ResultsAre DEF AsciiInv
    <2>2. Loops(conv') /\ Results(conv')
      <3>1. CASE Next
        BY <2>1, <3>1, AsciiNext
      <3>2. CASE UNCHANGED vars
        <4>1. conv' = conv
          BY <3>2 DEF vars
        <4> QED
          BY <2>1, <4>1
      <3> QED
        BY <3>1, <3>2
    <2> QED
      BY <2>2, ResultsAre DEF AsciiInv, Loops, ReadOf, WrittenBack, Written, ReadBack
  <1> QED
    BY <1>1, <1>2, PTL DEF Spec

(* pack() undoes unpack() on every string, of any length, but for a        *)
(* separator at its end.                                                   *)
THEOREM StringKept == Spec => []StringRoundTrip
  <1>1. AsciiInv => StringRoundTrip
    BY DEF AsciiInv
  <1> QED
    BY <1>1, AsciiKept, PTL

(* unpack() undoes pack() on every list of tokens without a separator, but *)
(* for an empty token at its end, however often the object was used        *)
(* before.                                                                 *)
THEOREM TokensKept == Spec => []TokensRoundTrip
  <1>1. AsciiInv => TokensRoundTrip
    BY DEF AsciiInv
  <1> QED
    BY <1>1, AsciiKept, PTL
=============================================================================
