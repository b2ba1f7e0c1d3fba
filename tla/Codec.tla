-------------------------------- MODULE Codec --------------------------------
(***************************************************************************)
(* The conversions of marko: get_time() (time.hpp), pack() and unpack()    *)
(* (message.hpp), Ascii (ascii.hpp), filter() and inet2string()            *)
(* (sockaddr.hpp), what SocketInfo prints (info.hpp), and the conversions  *)
(* that examples/simple.cpp and regex.cpp make themselves.                 *)
(*                                                                         *)
(* Each action but Ascii's, which are steps of its loops, makes one        *)
(* conversion there and back, or one conversion and what the kernel makes  *)
(* of it, and the properties compare the result with what a caller         *)
(* expects.  Characters are model strings; only the separator is told from *)
(* the others.  A host is a name for what the regex matched, an address    *)
(* the number the kernel is given.                                         *)
(***************************************************************************)
EXTENDS Primitives, SocketInfo, SequencesExt

CONSTANTS Timeouts,   \* arguments of settimeout()
          Structs,    \* structs a program packs, as their bytes
          BufSizes,   \* msg_size or data_size of a receiver
          Garbage,    \* what uninitialised memory may hold
          Strings,    \* strings given to Ascii::unpack
          TokenLists, \* token lists given to Ascii::pack
          Sep,        \* the separator
          Addresses,  \* address texts
          SunPath,    \* size of sun_path: 108
          IntMax,     \* INT_MAX
          Datagrams,  \* what examples/simple.cpp receives
          Sockets     \* sockets to print: [addr, opts]

ASSUME TimeoutAssumption == Timeouts \subseteq Int
(* A struct has a byte at least, and uninitialised memory may hold this or  *)
(* that.                                                                   *)
ASSUME BytesAssumption ==
    /\ Structs \subseteq Seq(0 .. 255) \ {<<>>}
    /\ Datagrams \subseteq Seq(0 .. 255)
    /\ BufSizes \subseteq Nat \ {0}
    /\ \E g, h \in Garbage : g # h
ASSUME SunPathAssumption == SunPath \in Nat \ {0}

(* The characters of Ascii's strings, and its strings.                     *)
Char == STRING
Str == Seq(Char)
ASSUME StringAssumption ==
    /\ Sep \in Char
    /\ Strings \subseteq Str
    /\ TokenLists \subseteq Seq(Str) \ {<<>>}
    /\ \A v \in TokenLists : \A i \in 1 .. Len(v) : ~Contains(v[i], Sep)

(* An address text is [proto, host, port] or, for unix, [proto, path]; a   *)
(* path is a sequence of characters.                                       *)
AnyPort == -1       \* the port is "*"
NoPort == -2        \* no ":port" follows the host
BadPort == -3       \* the port is "," or such: no digit begins it
ASSUME AddressAssumption ==
    \A a \in Addresses :
        IF a.proto = "unix" THEN a.path \in Seq(STRING)
        ELSE a.port \in Nat \cup {AnyPort, NoPort, BadPort}
(* An int holds every port.                                                *)
ASSUME IntAssumption == IntMax \in Nat /\ IntMax > 65535

(* Of a socket's options only these can be beyond a byte: the others are   *)
(* flags, a socket type, an error number and the TTLs.                     *)
Sizes == {"SO_RCVBUF", "SO_RCVLOWAT", "SO_SNDBUF", "SO_SNDLOWAT"}
ASSUME SocketAssumption ==
    \A s \in Sockets : \A o \in DOMAIN s.opts :
        s.opts[o] \in Nat /\ (o \notin Sizes => s.opts[o] < 256)

VARIABLE conv    \* the last conversion: [op, in, out], or one that runs

vars == <<conv>>

Nothing == [op |-> "none"]

-----------------------------------------------------------------------------
(* message.hpp: pack() copies the bytes of a struct, unpack<T>() copies    *)
(* m.size() bytes into an uninitialised T.  The set of structs unpack may  *)
(* return; empty if it writes beyond the struct.                           *)
\* Mutant: pack() leaves out the last byte.
MutPackShort(d) == Front(d)

pack(d) == d

unpack(size, m) ==
    IF Len(m) > size THEN {}
    ELSE {[i \in 1 .. size |-> IF i <= Len(m) THEN m[i] ELSE g[i]] :
             g \in [1 .. size -> Garbage]}

(* A struct is packed, sent, received into msg_size bytes and unpacked.    *)
SendStruct(d, msg_size) ==
    conv' = [op |-> "struct", in |-> [struct |-> d, msg_size |-> msg_size],
             out |-> unpack(Len(d), Delivered(msg_size, pack(d)))]

(* main() of examples/msg.cpp: there and back without a socket.            *)
PackUnpack(d) ==
    conv' = [op |-> "struct", in |-> [struct |-> d, msg_size |-> Len(d)],
             out |-> unpack(Len(d), pack(d))]

-----------------------------------------------------------------------------
(* Ascii, by the iterations of its two loops.  conv holds the member toks  *)
(* of the object and the stringstream ss of the call that runs; job is     *)
(* what the caller does with the result, in what it began with.            *)

\* Mutant: unpack() does not clear the member.
MutNoClear(toks) == toks

(* toks.clear()                                                            *)
Cleared(toks) == <<>>

(* unpack() running: ss holds what it has not read yet.                    *)
Unpacking(job, given, toks, ss) ==
    [op |-> "unpack", job |-> job, in |-> given, toks |-> toks, ss |-> ss]

(* pack(v) running: ss holds what it has written, i is the next token.     *)
Packing(job, given, toks, v, i, ss) ==
    [op |-> "pack", job |-> job, in |-> given, toks |-> toks, v |-> v, i |-> i, ss |-> ss]

(* A new object parses a string, and its tokens are packed again.          *)
ParseString(str) == conv' = Unpacking("string", str, Cleared(<<>>), str)

(* Tokens are packed and parsed by an object whose member is toks: a new   *)
(* one, or one that has parsed before.                                     *)
PrintTokens(toks, v) == conv' = Packing("tokens", v, toks, v, 2, v[1])

(* Where getline() stops: at the next separator, or after the last         *)
(* character.                                                              *)
Stop(ss) == Min({n \in 1 .. Len(ss) : ss[n] = Sep} \cup {Len(ss) + 1})

(* getline() takes a token and the separator after it, if there is one;    *)
(* it fails when nothing is left.                                          *)
getline ==
    /\ conv.op = "unpack" /\ conv.ss # <<>>
    /\ conv' = Unpacking(conv.job, conv.in,
                         Append(conv.toks, SubSeq(conv.ss, 1, Stop(conv.ss) - 1)),
                         SubSeq(conv.ss, Stop(conv.ss) + 1, Len(conv.ss)))

(* push_back() throws: the catch block clears toks and returns it.         *)
Catch ==
    /\ conv.op = "unpack" /\ conv.ss # <<>>
    /\ conv' = [op |-> "caught", in |-> conv.in, out |-> Cleared(conv.toks)]

(* unpack() returns a reference to toks; its caller packs no empty list.   *)
UnpackReturns ==
    /\ conv.op = "unpack" /\ conv.ss = <<>>
    /\ \/ /\ conv.job = "tokens"
          /\ conv' = [op |-> "tokens", in |-> conv.in, out |-> conv.toks]
       \/ /\ conv.job = "string" /\ conv.toks # <<>>
          /\ conv' = Packing("string", conv.in, conv.toks, conv.toks, 2, conv.toks[1])
       \/ /\ conv.job = "string" /\ conv.toks = <<>>
          /\ conv' = Nothing

\* Mutant: the loop of pack() stops one short.
MutOneShort(i, v) == i < Len(v)

(* i < v.size()                                                            *)
More(i, v) == i <= Len(v)

(* ss << sep << v[i]                                                       *)
PackToken ==
    /\ conv.op = "pack" /\ More(conv.i, conv.v)
    /\ conv' = Packing(conv.job, conv.in, conv.toks, conv.v, conv.i + 1,
                       conv.ss \o <<Sep>> \o conv.v[conv.i])

(* pack() returns ss.str().                                                *)
PackReturns ==
    /\ conv.op = "pack" /\ ~More(conv.i, conv.v)
    /\ \/ /\ conv.job = "tokens"
          /\ conv' = Unpacking("tokens", conv.in, Cleared(conv.toks), conv.ss)
       \/ /\ conv.job = "string"
          /\ conv' = [op |-> "string", in |-> conv.in, out |-> conv.ss]

AsciiStep == getline \/ Catch \/ UnpackReturns \/ PackToken \/ PackReturns

-----------------------------------------------------------------------------
(* sockaddr.hpp.                                                           *)
INADDR_ANY == "0.0.0.0"
INADDR_BROADCAST == "255.255.255.255"
INADDR_NONE == INADDR_BROADCAST

(* Hosts the regex matches that are no dotted address; "name" stands for   *)
(* them all but the two that filter() knows.                               *)
NotDotted == {"*", "bc", "name"}

(* inet_addr() (external).                                                 *)
inet_addr(host) == IF host \in NotDotted THEN INADDR_NONE ELSE host

(* What the regex proto matches of a path: its class lists "-" as the      *)
(* range ",-,", so the match ends before the first "-".                    *)
Matching(path) ==
    LET NoDash(n) == \A i \in 1 .. n : path[i] # "-"
    IN  SubSeq(path, 1, CHOOSE n \in 0 .. Len(path) :
                            NoDash(n) /\ (n = Len(path) \/ path[n + 1] = "-"))

\* Mutant: the port is stored in one byte.
MutPortByte(n) == n % 256

(* stoi() gives an int, port is a uint16_t.                                *)
Port16(n) == n % 65536

(* stoi() throws for a text that no digit begins ("*", "" and the like)    *)
(* and for a number beyond int.                                            *)
stoiThrows(port) == port \notin 0 .. IntMax

\* Mutant: filter() does not know "*".
MutNoWildcard(host) ==
    IF host = "bc" THEN INADDR_BROADCAST ELSE inet_addr(host)

(* The address filter() takes a host for.                                  *)
Resolved(host) ==
    CASE host = "*"  -> INADDR_ANY
      [] host = "bc" -> INADDR_BROADCAST
      [] OTHER       -> inet_addr(host)

(* stoi()'s exception leaves filter(), and its caller.                     *)
Threw == [family |-> "threw"]

(* filter(): the value it builds in ans (it returns a reference to ans).   *)
filter(a) ==
    CASE a.proto = "unix" /\ Matching(a.path) # <<>> ->
            [family |-> "AF_UNIX", sun_path |-> Matching(a.path)]
      [] a.proto \in {"tcp", "udp"} /\ a.port # NoPort ->
            IF a.port # AnyPort /\ stoiThrows(a.port) THEN Threw
            ELSE [family   |-> "AF_INET",
                  sin_addr |-> Resolved(a.host),
                  sin_port |-> IF a.port = AnyPort THEN 0 ELSE Port16(a.port)]
      [] OTHER -> [family |-> "AF_ERROR"]

(* The two ways to leave an array: strncpy() writes beyond sun_path, or    *)
(* the text in it has no terminator and a reader goes on.                  *)
Beyond == [error |-> "beyond the array"]

(* operator<< on a SockAddr, with inet2string() and sun_path: what the     *)
(* address prints as, but for the protocol.                                *)
Printed(s) ==
    CASE s.family = "AF_INET" -> [host |-> s.sin_addr, port |-> s.sin_port]
      [] s.family = "AF_UNIX" /\ Len(s.sun_path) < SunPath -> [path |-> s.sun_path]
      [] s.family = "AF_UNIX" /\ Len(s.sun_path) >= SunPath -> Beyond
      [] OTHER -> [error |-> s.family]

ParseAddress(a) ==
    conv' = [op |-> "address", in |-> a, out |-> Printed(filter(a))]

-----------------------------------------------------------------------------
(* examples/regex.cpp and examples/simple.cpp.                             *)

(* SockAddress::filter() of regex.cpp: what it has in hand at its end.  It *)
(* knows no "*", and goes on to stoi("") after printing that no port was   *)
(* found.                                                                  *)
regex_filter(a) ==
    CASE a.proto = "unix" /\ Matching(a.path) # <<>> -> [path |-> Matching(a.path)]
      [] a.proto \in {"tcp", "udp"} ->
            IF stoiThrows(a.port) THEN [error |-> "throws"]
            ELSE [ip |-> a.host, port |-> Port16(a.port)]
      [] OTHER -> [error |-> "No matches!!"]

(* The two getUdpAddr() of simple.cpp: (ip, port), and (port) alone.       *)
getUdpAddr(ip, port) ==
    [family |-> "AF_INET", sin_addr |-> inet_addr(ip), sin_port |-> Port16(port)]

getUdpAddrAny(port) ==
    [family |-> "AF_INET", sin_addr |-> INADDR_ANY, sin_port |-> Port16(port)]

(* get_ip_port() of simple.cpp does not look at the family.                *)
get_ip_port(s) == [host |-> s.sin_addr, port |-> s.sin_port]

(* simple.cpp has an int for its port, and makes one address of it with a  *)
(* host and one without.                                                   *)
simple_addr(a) ==
    IF a.proto = "unix" \/ stoiThrows(a.port) THEN [error |-> "no int"]
    ELSE [to  |-> get_ip_port(getUdpAddr(a.host, a.port)),
          any |-> get_ip_port(getUdpAddrAny(a.port))]

ParseExample(a) ==
    conv' = [op |-> "example", in |-> a, regex |-> regex_filter(a),
             simple |-> simple_addr(a)]

\* Mutant: the whole buffer is printed.
MutPrintAll(buffer) == [text |-> buffer]

(* What operator<< prints of a byte array: up to the first zero.           *)
Text(buffer) ==
    LET zeros == {i \in 1 .. Len(buffer) : buffer[i] = 0}
    IN  IF zeros = {} THEN Beyond ELSE [text |-> SubSeq(buffer, 1, Min(zeros) - 1)]

(* sub() of simple.cpp clears its buffer of size bytes, receives into it   *)
(* and prints it.                                                          *)
PrintBuffer(d, size) ==
    conv' = [op |-> "buffer", in |-> d, size |-> size, out |-> Text(Fill(size, d))]

-----------------------------------------------------------------------------
(* SocketInfo.                                                             *)

(* getsockname(): "" for a closed descriptor and a Unix socket.            *)
getsockname(addr) ==
    IF addr.family = "AF_INET" THEN Printed(addr) ELSE [error |-> ""]

PrintInfo(s, g, t) ==
    conv' = [op |-> "info", in |-> s, name |-> getsockname(s.addr),
             out |-> info(s.opts, g, t), simple |-> info_simple(s.opts, g)]

-----------------------------------------------------------------------------
(* settimeout(): how long, in microseconds, a receive waits; get_time()'s  *)
(* result goes to the kernel if the kernel takes it.                       *)
Wait(tv) == tv.tv_sec * 1000 * 1000 + tv.tv_usec

SetTimeout(ms) ==
    conv' = [op |-> "timeout", in |-> ms, out |-> get_time(ms)]

Init == conv = Nothing

Convert ==
    \/ \E d \in Structs, n \in BufSizes : SendStruct(d, n)
    \/ \E d \in Structs : PackUnpack(d)
    \/ \E s \in Strings : ParseString(s)
    \/ \E v \in TokenLists : PrintTokens(<<>>, v)
    \/ \E a \in Addresses : ParseAddress(a)
    \/ \E a \in Addresses : ParseExample(a)
    \/ \E d \in Datagrams, n \in BufSizes : PrintBuffer(d, n)
    \/ \E s \in Sockets, g, n \in Garbage : PrintInfo(s, g, n)
    \/ \E ms \in Timeouts : SetTimeout(ms)

(* The conversions share nothing, each begins afresh, but for an Ascii     *)
(* object that parses once more.                                           *)
Next ==
    \/ conv.op = "none" /\ Convert
    \/ AsciiStep
    \/ conv.op = "tokens" /\ \E v \in TokenLists : PrintTokens(conv.out, v)
    \/ conv.op \notin {"none", "pack", "unpack"} /\ conv' = Nothing

Spec == Init /\ [][Next]_vars

-----------------------------------------------------------------------------
(* Properties.                                                             *)

(* A struct survives the way through pack(), a datagram, the receiver's    *)
(* buffer and unpack() exactly when the receiver's msg_size is its size: a *)
(* smaller buffer leaves fields uninitialised, a larger one makes unpack() *)
(* write beyond the struct.                                                *)
StructSurvives ==
    conv.op = "struct" =>
        (conv.out = {conv.in.struct} <=> conv.in.msg_size = Len(conv.in.struct))

(* pack() undoes unpack() on every string that does not end in a           *)
(* separator.                                                              *)
StringRoundTrip ==
    conv.op = "string" =>
        conv.out = IF conv.in # <<>> /\ Last(conv.in) = Sep
                   THEN Front(conv.in) ELSE conv.in

(* unpack() undoes pack(), empty tokens included, but for an empty token   *)
(* at the end; what the same object parsed before leaves no trace, so that *)
(* a reference kept from the first call now shows the second's tokens, and *)
(* an exception leaves none of the tokens read.                            *)
TokensRoundTrip ==
    /\ conv.op = "tokens" =>
          conv.out = IF Last(conv.in) = <<>> THEN Front(conv.in) ELSE conv.in
    /\ conv.op = "caught" => conv.out = <<>>

(* The addresses whose text filter() keeps: a path with no "-" that leaves *)
(* room for a terminator, a dotted host with a port of 16 bits.            *)
Plain(a) ==
    IF a.proto = "unix"
    THEN a.path # <<>> /\ ~Contains(a.path, "-") /\ Len(a.path) < SunPath
    ELSE /\ a.proto \in {"tcp", "udp"} /\ a.host \notin NotDotted
         /\ 0 <= a.port /\ a.port < 65536

AsWritten(a) ==
    IF a.proto = "unix" THEN [path |-> a.path] ELSE [host |-> a.host, port |-> a.port]

(* Exactly such an address prints as it was written: a port above 65535    *)
(* has become another port, and a path that fills sun_path has lost its    *)
(* end.  What an inet address prints as is read back as the same address.  *)
AddressRoundTrip ==
    conv.op = "address" =>
        /\ conv.out = AsWritten(conv.in) <=> Plain(conv.in)
        /\ "host" \in DOMAIN conv.out =>
              Printed(filter([proto |-> conv.in.proto, host |-> conv.out.host,
                              port |-> conv.out.port])) = conv.out

(* Three pieces of code make an address of a text.  For a tcp or udp       *)
(* address whose port is an int, regex.cpp and the library agree on host   *)
(* and port; simple.cpp agrees with the library exactly on the hosts other *)
(* than "*", which its inet_addr() takes for the broadcast address, and    *)
(* its address without a host is the library's for "*" and 0.0.0.0.  For   *)
(* any other port regex.cpp throws, the library only if it is neither "*"  *)
(* nor missing.  On a unix path regex.cpp and the library agree.           *)
FiltersAgree ==
    conv.op = "example" =>
        LET a == conv.in
            lib == filter(a)
            inet == a.proto \in {"tcp", "udp"}
        IN  CASE a.proto = "unix" /\ lib.family = "AF_UNIX" ->
                    conv.regex = [path |-> lib.sun_path]
              [] inet /\ a.port \in 0 .. IntMax ->
                    /\ conv.regex = [ip |-> a.host, port |-> lib.sin_port]
                    /\ conv.simple.to = Printed(lib) <=> a.host # "*"
                    /\ conv.simple.any = Printed(lib) <=> a.host \in {"*", INADDR_ANY}
              [] inet /\ a.port \notin 0 .. IntMax ->
                    /\ conv.regex = [error |-> "throws"]
                    /\ lib = Threw <=> a.port \notin {AnyPort, NoPort}
              [] OTHER -> lib.family = "AF_ERROR" /\ "error" \in DOMAIN conv.regex

(* simple.cpp prints a datagram as it was sent exactly when it has no zero *)
(* byte and is shorter than the buffer: one that fills the buffer leaves   *)
(* no terminator.                                                          *)
BufferPrinted ==
    conv.op = "buffer" =>
        (conv.out = [text |-> conv.in] <=> ~Contains(conv.in, 0) /\ Len(conv.in) < conv.size)

(* What info() prints of an option the socket has is right, except that of *)
(* a number it prints the low byte; so on an inet socket every flag and    *)
(* the TTLs are right and buffer sizes are not.                            *)
InfoTruthful ==
    conv.op = "info" =>
        LET opts == conv.in.opts
            Right(o, shown) ==
                o.val \in DOMAIN opts =>
                    (shown = Shown(o.type, opts[o.val])
                        <=> (o.type = "Int" => opts[o.val] < 256))
        IN  /\ \A k \in 1 .. Len(conv.out.so) : Right(socketOptsSOL[k], conv.out.so[k])
            /\ \A k \in 1 .. Len(conv.out.ip) : Right(IpOptions[k], conv.out.ip[k])
            /\ \A k \in 1 .. Len(conv.simple) : Right(SimpleOptions[k], conv.simple[k])

(* A receive never waits longer than settimeout() was told, the kernel     *)
(* takes every timeout that is not negative, whole seconds are exact, and  *)
(* only 0 means for ever.                                                  *)
TimeoutNeverLonger ==
    conv.op = "timeout" /\ conv.in >= 0 =>
        /\ ValidTimeval(conv.out)
        /\ Wait(conv.out) <= 1000 * conv.in
        /\ conv.in % 1000 = 0 => Wait(conv.out) = 1000 * conv.in
        /\ conv.out = NoTimeout <=> conv.in = 0

(* notes.md: "tv.tv_usec = msec * 1000", "this is usec (1000usec =         *)
(* 1msec)".  Not so: get_time() stores the milliseconds as microseconds.   *)
TimeoutExact ==
    conv.op = "timeout" /\ conv.in >= 0 => Wait(conv.out) = 1000 * conv.in
=============================================================================
