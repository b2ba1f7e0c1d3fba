# A TLA+ model of marko

marko is a small header-only C++ messaging library: datagram sockets (UDP and
Unix domain), request/reply and publish/subscribe classes on top of them, an
`Event` that stops receive loops, and a few helpers for signals, timeouts,
messages and addresses. All of it is under `src/include/marko` (in
`PROJECT.json`: `src/src/include/marko`); `examples/` holds small programs that
use it. These modules model what the code
does, check it with TLC on small instances, and prove the main results with
TLAPS for every value of the constants.

## Inventory

| component | state | operations | interacts with | correct means |
|---|---|---|---|---|
| `Socket` (socket.hpp) | `socket_fd`, kernel options, name, socket file | constructor, `close`, `settimeout`, `setnonblocking`, `setsockopt`, `reuseSocket`, `bind`, `connect`, `guard` | kernel; every other object through descriptor numbers and paths | no descriptor leaked, shared or closed twice, on exception paths too; a restarted server can bind |
| `SocketUDP`, `SocketUnix` | none of their own | `recvfrom`, `recv`, `sendto` | kernel, network | failures and timeouts are reported as documented |
| `SocketBC` | `bc_addr` | constructor, `cast` | `SocketUDP` | as `Socket` |
| `Request`, `Reply` (request_reply.hpp) | `callback`, `msg_size` | `request`; `register_cb`, `once`, `loop` | each other by datagrams; the callback | a call returns the answer to its own request, or gives up |
| `Publisher`, `Subscriber` (pub_sub.hpp) | `clientaddrs`; `callbacks` | `register_addr`, `publish`; `register_cb`, `once`, `loop` | each other by datagrams | order, delivery, every callback called |
| `Event` (event.hpp) | an atomic flag | `set`, `clear`, `is_set`, `wait` | loops, waiting threads, signal handlers | a loop ends after `clear`, a waiter wakes after `set` |
| `SignalFunc` (signals.hpp) | `enabled`, the process's signal dispositions | `enable` | `Event`, blocked receives | SIGKILL and SIGSTOP refused |
| time, message, ascii, sockaddr | none (`Ascii` keeps `toks`) | `get_time`, `pack`, `unpack`, `Ascii::pack/unpack`, `filter`, printing | `Socket` | conversions lose nothing |
| `SocketInfo` (info.hpp) | `socket_fd` | `info` | kernel options | what is printed is what is set |
| `get_host_ip` (sockaddr.hpp) | none | itself | the programs' `HOST` | an address, no descriptor left |
| examples rr, ps, bc, simple | a loop counter, a socket, `HOST` | `main` and the two sides | each other by datagrams; bc's threads through `join` | each side gets through its loop |
| examples regex, msg | none | an address parser, a round trip | as the library's | agree with the library |

Hard behaviours: threads whose socket calls interleave at the descriptor table
and the file system; servers and subscribers that die with queued datagrams and
start again; lost, repeated, late and reordered datagrams; a timeout that races
a late reply; a flag read before a blocking call and cleared during it; signals;
one `sendto` of several failing; exceptions thrown by `guard` half-way through a
constructor; programs that wait for each other without a timeout. `PROJECT.json` lists each one as a hazard, with its line and the
properties that would catch it.

## Modules

* `Primitives`: what `guard`, `get_time`, the tail of `recv`/`recvfrom` and the
  guard in `sendto` do to values. `Socket`, `RequestReply`, `PubSub`, `EventLoop` and `Codec` use it, so the odd cases
  (a bool passed to `guard`, a receive buffer that keeps its size, `recv` that
  throws on a Unix socket) are stated once.
* `Socket`: socket objects on different threads, with the kernel's descriptor
  table, options, names and socket files. `close()` is two steps (`close`, then
  `CloseReset`) and `setSocket()` on a path is two (`setSocketUnlink`, then
  `setSocketUnix` or `setSocketUnixFails`), because another thread can act
  between them; every other call is one step. `guard` is part of each `...Fails`
  action. `unlink` may fail unnoticed (`setSocketUnlinkFails`, remembered in
  `kept`), `stoi` may throw past `guard` and leave the object as it was
  (`setSocketThrows`), and a constructor that throws has its base destroyed
  (`Unwind`), which calls `close()` once more.
* `RequestReply`: clients (`request`, `Receive`, `TimeOut`) and a server
  (`register_cb`, `onceReceive`, `onceAnswer`, `onceNoCallback`, `Start`,
  `Stop`). Datagrams carry the number of the call as history only. The
  constants say how the network behaves (`Ordered`, `Lossy`, `Duplicating`) and
  whether receives may give up (`MayTimeOut`).
* `RemoteCall`: the abstract specification of `request()`. Its `Spec` is the
  property `ImplementsRemoteCall` of `RequestReply`.
* `PubSub`: `publish` one address per step, `once` one callback per step,
  subscribers that start and stop at any point. The variable `net` says what the
  sockets and the network below them keep to, the order and a single delivery:
  Unix sockets both; UDP what `Nets` allows, and otherwise `Overtake` and `Repeat`
  reorder and repeat what is queued or on its way.
* `Topic`: the abstract specification of the two together: messages, with gaps,
  in order of publication if the network keeps it, and at most as often as an
  address is registered if the network repeats nothing. A message
  counts as received when `recv` returns it. Its `Spec` is the property
  `ImplementsTopic` of `PubSub`.
* `EventLoop`: `Event`, `loop(event)` of both classes on both sockets, threads in
  `wait`, `SignalFunc` and the signals. `once` is one callback per step here too
  (`onceReceive`, `onceNext`, `onceReturn`), because `clear()` may run between two.
* `SocketInfo`: what `info()` prints of a socket, given as the options the kernel
  supports for it. Every option goes through one `u_char` that keeps its value
  when `getsockopt` fails. Operators only.
* `Codec`: one action per conversion, there and back, or one conversion against
  another piece of code that makes the same one (`filter()` of the library and of
  regex.cpp, the two `getUdpAddr` of simple.cpp), or what is printed (`PrintBuffer`,
  `PrintInfo`). What leaves an array is a value of its own, `Beyond`, and so is the
  exception of `stoi` that leaves `filter()`, `Threw`. `Ascii`'s two
  loops are steps: one `getline` and `push_back`, or one `ss << sep << v[i]`, at a
  time (`getline`, `Catch`, `UnpackReturns`, `PackToken`, `PackReturns`); `conv`
  then holds the member `toks` and what is left of, or written to, `ss`. An object
  that has parsed may be used again, with the `toks` it has.
* `Examples`: rr, ps, bc and simple as one specification. The record `prog` says
  how they differ (whether they use `get_host_ip`, share the port, broadcast,
  reply, check results, run as threads); receivers and senders start, bind, fail,
  send, receive and finish one by one. `lost` tells whether a datagram has
  reached nobody, as history: it is what `HangMeansLoss` and the liveness
  properties are relative to.
* `SocketProofs`, `RequestReplyProofs`, `PubSubProofs`, `EventLoopProofs`,
  `CodecProofs`, `ExamplesProofs`: theorems. The inductive invariant `IInv` of a
  component stands at the end of the component's own module.
* `MC...`: instances for TLC.

Left out of the data: message contents beyond a few bytes, texts, printing. The
`Mut...` operators beside a definition are wrong versions of it, used to show
that the properties can fail.

## Runs

Passing:

| run | instance | shows |
|---|---|---|
| `socket` | 2 objects of any class (symmetric), 2 descriptors, 1 path, 1 port, a refused and an accepted timeout; 198,564 states | descriptor ownership, closed after `guard` throws, restart binds unless `unlink` fails, no foreign close, paths kept |
| `rr_udp` | 2 clients, 2 calls each, 2 callbacks, a short and a full request, ordered lossy network, timeouts, restarts; 297,700 states | own replies, bounded lag, matched without timeouts, refinement of `RemoteCall`, calls return |
| `rr_unix` | 2 clients, bound or not, 2 calls each, with empty requests, no loss, no timeouts; 31,876 states | matched, refinement, a queued request is answered |
| `pubsub` | 2 subscribers, 2 registrations, 2 messages (one empty), queues of 2, one subscriber with up to 2 callbacks; Unix, UDP that repeats and UDP that reorders; 466,569 states | order, no loss by others' failures, every callback, `publish` returns, messages arrive on Unix sockets, refinement of `Topic` |
| `event_loop` | 1 waiter, 3 signals, 3 changes, 3 datagrams, up to 2 callbacks, both classes, both sockets; 244,944 states | one late message at most, `clear` stops the loop |
| `codec` | all strings of up to 7 characters, lists of up to 3 tokens on a new or a used object, structs of 3 bytes, buffers of 1 to 4 bytes and datagrams of up to 5, `sun_path` scaled to 3 characters and `INT_MAX` to 100,000, the ports and timeouts around each boundary, inet, Unix and closed sockets; 6,823 states | the round trips, where the parsers agree and throw, what `info` and simple.cpp print |
| `examples` | 2 receivers, 2 senders, loops of 2, all four programs, UDP loses datagrams; 198,863 states | responses match, a hang has a reason, descriptors, senders and bc's `main` get through |

Two of everything is enough for the interesting cases: a second object that
takes a freed descriptor number or an unlinked path, a second call that meets
the first call's reply, a second client whose request is queued behind, a second
address after a failed one, two datagrams that wait together, a second callback
that begins after `clear()`, a full queue, a client that finds the server gone
after another client has used up its turns. An array's size, and `INT_MAX`, is scaled down
because only below, equal and above matter.

Violations, each a disagreement between the code and what the repository says:

| run | the repository says | the code does |
|---|---|---|
| `unix_timeout` | socket_uds.hpp:44 "timeout gives -1, so set size=0" | the guard above it closes the socket and throws |
| `send_failure` | socket_udp.hpp:61 "sendto() sent incorrect number of bytes" | the guard is given a bool and never throws |
| `reply_callbacks` | rr.cpp:68, test_rr.cpp:58 and :100 "you can have more than 1 callback" | `Reply::register_cb` replaces the one it has |
| `event_wakeup` | event.hpp:12 "A version of python's Event class" | `set` notifies nobody |
| `timeout_units` | notes.md:65 and :82, milliseconds times 1000 | `get_time` stores milliseconds as microseconds |

One more needs no run: event.hpp:22 says of `wait(val)` "block until value met",
and `std::atomic_flag::wait(val)` blocks while the flag equals `val`, as `waitCheck`
has it.

Deadlock checking is off where the bounds, not the code, end a behaviour
(`rr_*`, `pubsub`, `event_*`), and in `examples`, whose programs end or hang:
`HangMeansLoss` says when.

## Fairness

Weak fairness of the steps of threads that run: a receive that can return does
(`Receive`, `TimeOut`, `onceReceive`), and a thread between two calls goes on
(`onceAnswer`, `onceCall`, `onceNext`, `publishNext`, `loopTest`, ...). The code justifies it
by calling `once()` in a loop and by blocking only in `recv` and `sendto`.
In `Examples` every process or thread that has been started goes on, and bc's
`main` too; nobody has to start a program, and no call has to fail.
Nothing is assumed about the network, about `Start`, `Stop`, signals, or a
spurious wake-up of `wait`. `TimedCallReturns` needs a client whose receives may
give up; `QueuedCallReturns` needs a server with a callback that stays up;
`PublishReturns` needs subscribers that are up to keep calling `once()`, and a
publisher that blocks for ever on a full Unix queue otherwise; `ClearStopsLoop`
claims nothing for a loop asleep in a receive without a timeout, since
`clear()` does not wake it; `UnixArrives` needs a subscriber that neither leaves
nor times out; `SendersFinish` and `MainReturns` claim nothing once a datagram is
lost, since the programs set no timeout.

## Proofs

Assumptions are the named `ASSUME`s of the modules: disjoint names, sizes that
are positive numbers, callbacks that return messages; in `Codec` that structs
have at least a byte, that uninitialised memory may hold two different things,
that strings are sequences of characters and a list given to `Ascii::pack` is not
empty and has no separator in its tokens,
that a path is a sequence of characters and a port a number, `*`, some other
text or absent, that an int holds every port, and
that of a socket's options only the buffer sizes can be beyond a byte; in
`Examples` that the sets of processes are finite (which only `HangExplained`
needs) and that there is a sender. The number of objects, clients, subscribers,
processes, descriptors, calls and turns is arbitrary.

* `SocketProofs`. The inductive invariant `Socket!IInv` adds to the properties
  that an object that does not exist holds no descriptor (`NoObjectNoFd`), that
  an object in the middle of `close()` has already given its descriptor back
  (`ClosingGaveBack`: without it `CloseReset` could drop a number that leads
  somewhere), that paths lead to open sockets bound to them (`NamesAreHeld`) and
  that `pend` is set exactly between unlink and bind (`UnlinkedHasPath`).
  `ThrownIsClosed` is about the exceptions of `guard` alone, since those of `stoi`
  leave the socket open, and `RestartSucceeds` names the two ways a file can be in
  the way: another object's `bind()`, and an `unlink()` that failed. From it
  follow `TypeCorrect`, `DescriptorsOwned`, `ThrownIsClosed`, `RestartSucceeds`
  and the action properties `ClosesAreOwn` and `PathsKept`.
* `RequestReplyProofs`. `RequestReply!IInv` says that each datagram carries what
  the program put into it (`RequestsAreSent`, `RepliesAreAnswers`, `CurIsFull`)
  and, on an ordered network without duplicates, that each request is in one
  place only and nothing overtakes the last reply received (`Queued`). From it
  follow `TypeCorrect`, `RepliesAreOwn` (for every kind of network),
  `LagIsBounded`, `UntimedCallsMatch` and `Refinement`: each step is a step of
  `RemoteCall` or a stutter.
* `EventLoopProofs`. `LateOnlyAfterRecv` ties the counts of late datagrams and late
  callbacks to where the loop's thread is and to the place of the callback that
  runs; `TypeCorrect` and `AtMostOneLate` follow for any number of callbacks.
* `PubSubProofs`. `PubSub!IInv` adds how often a message may have come so far,
  counted by the places of `clientaddrs` at which `publish()` has tried it
  (`CopiesTried`: the bound of `InOrderOnce` alone says nothing half-way through
  `publish()`; it is claimed where the network repeats nothing), that the reliable subscribers it has come to have the message
  (`HalfPublished`), who is reliable (`Listening`) and with what `once()` calls
  back (`CallingBack`). The lemmas before it are about sequences and counting:
  appending to a queue, taking from it, and a callback's list that grows by the
  message just received (`SeenOneMore`). From it follow `TypeCorrect`,
  `OrderAndOnce`, `UnixIsReliable`, `CallbacksComplete`, and `Refinement`: a
  receive is a step of `Topic` because, as far as `net` says so, what it returns is
  no earlier than what was returned before and has not yet come as often as it
  may; every other step
  is `Topic`'s publish or a stutter.
* `CodecProofs`. A conversion of one action leaves nothing behind, so there is no
  invariant to strengthen: each theorem rests on a lemma about what the action's
  operators compute (`WaitOfTimeout`, `UnpackExact` and `UnpackShort`,
  `PrintedWhole` and `PrintedOnly`, `FilterInet`, `MatchingAll`, `LinesRight`, ...).
  The first zero of a buffer, the first `-` of a path and the next separator exist
  by `LeastPlace`, the one induction, over a set of places.
  `Ascii`'s loops have an inductive invariant, `AsciiInv`. The round trips say
  nothing until both loops are over, and what they rest on in between is a
  relation between a list of tokens and a text: `Laid`, the tokens lie one after
  the other in the text, at given offsets, each with a separator behind it. While a
  string is unpacked its tokens are laid over what was read (`ReadOf`); while they
  are packed again what is written is the string up to the next token
  (`WrittenBack`); while a list is packed its first tokens are laid over what was
  written (`Written`); while that is unpacked the tokens read are the list's first
  ones and the rest begins where the next one lies (`ReadBack`). A token more keeps
  the tokens laid (`LaidMore`), so that the steps do the induction over the string.
  `StringKept` and `TokensKept` follow from it for strings and lists of any length.
* `ExamplesProofs`. `Examples!IInv` says where a process can be with how many
  turns (`Locations`, `MainAt`), that what a receiver has seen and what is in its
  queue form one increasing stream of each sender (`Streams`), that an rr client
  has one request outstanding, in one queue or answered (`Requests`), and that
  without a loss all that was sent is in a history or a queue (`Reached`).
  `TypeCorrect`, `NoDescriptorLeft` and `ResponsesRight` follow at once.
  `HangExplained` needs one argument more: at a hang all queues are empty, so every
  datagram of a sender that got through is at a place of its own in the history
  of a receiver; a receiver that waits has a place free, so by the pigeonhole
  principle there are fewer such senders than receivers (`FewerSenders`). For bc
  every receiver has got what the one sender sent (`BroadcastEnds`), and no rr
  client is left waiting (`ClientsGoOn`).

Only model-checked: all liveness (`TimedCallReturns`, `QueuedCallReturns`,
`PublishReturns`, `UnixArrives`, `ClearStopsLoop`, `SendersFinish`,
`MainReturns`), which the prover does not do under fairness, and that `Ascii`'s
loops end, which the run shows by exploring them to their results. `AsciiInv` stands
in `CodecProofs` and quantifies over all strings: TLC can evaluate it only with
`Str` bounded, and with strings of up to 5 characters finds it to hold. Only proved: `OwnReply` on networks that
reorder and duplicate; the runs of `RequestReply` use ordered ones.

## Not modelled

* `filter()` returns a reference to its local variable. What a caller reads
  depends on compiler and inlining; `Codec` models the value that is built, and
  in `Socket` every `bind()` may fail.
* Texts that the regular expressions only partly match, except for a `-` in a
  path, and port texts such as `12,3`, of which `stoi` takes the first number. Dotted
  hosts are whole ones: `inet_addr` also takes `1.2` for 1.0.0.2.
* `available()` on a closed socket, which hands `FD_SET` a -1; what lies beyond an
  array that is overrun.
* A second `enable()` of the same `SignalFunc` returns 0 and installs nothing:
  modelled, but the repository says nothing to compare it with.
* Copies of a `Socket` object: the class allows them, no code makes one.
* A program that goes on with a socket after `guard` has closed it: no code in the
  repository catches the exception, so the loops and programs end with it.
* `get_hostname` (one resolver call, used nowhere; it says that its 256 characters
  are 265), `usleep` and `sleep`, the wording of what is printed, the
  commented-out classes, examples/dev.cpp (all comments), dev/module (a greeting),
  the tests.
* A publisher whose socket is non-blocking or interrupted by a signal.

## Plan

1. Done, modelled: `Primitives`, `Socket`, `RequestReply` with `RemoteCall`,
   `PubSub` with `Topic`, `EventLoop`, `Codec` with `SocketInfo`, `Examples`.
2. Done, proved: every safety property that a passing run checks, and both
   refinements.
3. Left: liveness, which needs a prover for fairness and `ENABLED`, and what "Not
   modelled" lists.
