-------------------------------- MODULE Socket --------------------------------
(***************************************************************************)
(* The life of marko's socket objects: class Socket (socket.hpp) and the   *)
(* constructors of SocketUDP, SocketUnix and SocketBC.                     *)
(*                                                                         *)
(* Each object is used by one thread at a time; different objects are used *)
(* by different threads, so the steps of their calls interleave.  A call   *)
(* is one step except where another thread can see it half done: close()   *)
(* (the descriptor is free before socket_fd is reset) and setSocket() on a *)
(* unix:// address (the path is unlinked before ::bind runs).              *)
(*                                                                         *)
(* The kernel (external) is the descriptor table, the socket files and the *)
(* name and options of each kernel socket.  A kernel socket is identified  *)
(* by the object whose constructor made it.                                *)
(***************************************************************************)
EXTENDS Primitives, FiniteSets

CONSTANTS Obj,      \* socket objects of the program
          Fd,       \* descriptors the process may have open
          Path,     \* unix:// addresses
          Port,     \* udp:// and tcp:// addresses
          Millis,   \* arguments of settimeout()
          Free,     \* a descriptor that is not in use
          Absent,   \* a path with no file
          Stale,    \* a path whose file is left over from a closed socket
          NoName    \* a socket that is not bound; an address of no known form

ASSUME FdAssumption == Fd \subseteq Nat

ASSUME NameAssumption ==
    /\ Path \cap Port = {}
    /\ NoName \notin Path \cup Port
    /\ Free \notin Obj
    /\ {Absent, Stale} \cap Obj = {}
    /\ Absent # Stale
    /\ Free \notin {Absent, Stale}

ASSUME MillisAssumption == Millis \subseteq Int

VARIABLES
    kind,    \* [Obj -> Kind]: the class of the object
    life,    \* [Obj -> Life]: how far the object's thread is
    fd,      \* [Obj -> Fd or SOCKET_ERR]: the member socket_fd
    after,   \* [Obj -> Life]: where an unfinished close() returns to
    pend,    \* [Obj -> name]: the unix path setSocket() has just unlinked
    ret,     \* [Obj -> outcome]: how the last call on the object ended
    fdt,     \* [Fd -> Obj or Free]: descriptor table, by kernel socket
    addr,    \* [Obj -> name]: the name the kernel socket is bound to
    opts,    \* [Obj -> options]: the kernel socket's options
    file,    \* [Path -> Obj, Stale or Absent]: what the path leads to
    raced,   \* [Obj -> BOOLEAN], history: another object's file appeared
             \* at pend[o] after o's unlink()
    kept     \* [Obj -> BOOLEAN], history: o's unlink() of pend[o] failed

objVars == <<kind, life, fd, after, pend, ret, raced, kept>>
kernelVars == <<fdt, addr, opts, file>>
vars == <<kind, life, fd, after, pend, ret, fdt, addr, opts, file, raced, kept>>

Kind == {"Base", "UDP", "Unix", "BC"}
Life == {"none", "building", "ready", "unlinked", "unwinding", "closing"}
Outcome == {"ok",       \* the call returned
            "threw",    \* the runtime_error of guard()
            "stoi"}     \* what stoi() threw through filter() and setSocket()
Name == Path \cup Port
Options == [reuse : BOOLEAN, nonblocking : BOOLEAN, broadcast : BOOLEAN,
            timeo : [tv_sec : Int, tv_usec : Usec]]
NewOptions == [reuse |-> FALSE, nonblocking |-> FALSE, broadcast |-> FALSE,
               timeo |-> NoTimeout]

(* The type invariant: every variable has the form its comment gives.      *)
TypeOK ==
    /\ kind \in [Obj -> Kind]
    /\ life \in [Obj -> Life]
    /\ fd \in [Obj -> Fd \cup {SOCKET_ERR}]
    /\ after \in [Obj -> {"none", "ready", "unwinding"}]
    /\ pend \in [Obj -> Path \cup {NoName}]
    /\ ret \in [Obj -> Outcome]
    /\ fdt \in [Fd -> Obj \cup {Free}]
    /\ addr \in [Obj -> Name \cup {NoName}]
    /\ opts \in [Obj -> Options]
    /\ file \in [Path -> Obj \cup {Stale, Absent}]
    /\ raced \in [Obj -> BOOLEAN]
    /\ kept \in [Obj -> BOOLEAN]

Init ==
    /\ kind = [o \in Obj |-> "Base"]
    /\ life = [o \in Obj |-> "none"]
    /\ fd = [o \in Obj |-> SOCKET_ERR]
    /\ after = [o \in Obj |-> "none"]
    /\ pend = [o \in Obj |-> NoName]
    /\ ret = [o \in Obj |-> "ok"]
    /\ fdt = [f \in Fd |-> Free]
    /\ addr = [o \in Obj |-> NoName]
    /\ opts = [o \in Obj |-> NewOptions]
    /\ file \in [Path -> {Stale, Absent}]   \* files of earlier processes
    /\ raced = [o \in Obj |-> FALSE]
    /\ kept = [o \in Obj |-> FALSE]

(* The kernel socket that a system call on o's descriptor reaches; Free    *)
(* stands for EBADF.                                                       *)
Target(o) == IF fd[o] = SOCKET_ERR THEN Free ELSE fdt[fd[o]]

-----------------------------------------------------------------------------
(* close(), guard() and the destructor.                                    *)

(* The kernel drops the descriptor and the socket it leads to; the socket's *)
(* file stays behind.                                                      *)
KernelClose(f) ==
    /\ fdt' = [fdt EXCEPT ![f] = Free]
    /\ addr' = [q \in Obj |-> IF q = fdt[f] THEN NoName ELSE addr[q]]
    /\ file' = [p \in Path |-> IF file[p] = fdt[f] THEN Stale ELSE file[p]]
    /\ opts' = [q \in Obj |-> IF q = fdt[f] THEN NewOptions ELSE opts[q]]

\* Mutant: close() also removes the file of the path the socket was bound to.
MutCloseUnlinks(o, next) ==
    IF fd[o] = SOCKET_ERR
    THEN /\ life' = [life EXCEPT ![o] = next]
         /\ UNCHANGED <<after, kernelVars>>
    ELSE /\ life' = [life EXCEPT ![o] = "closing"]
         /\ after' = [after EXCEPT ![o] = next]
         /\ fdt' = [fdt EXCEPT ![fd[o]] = Free]
         /\ addr' = [addr EXCEPT ![o] = NoName]
         /\ file' = [p \in Path |-> IF addr[o] = p THEN Absent ELSE file[p]]
         /\ opts' = [opts EXCEPT ![o] = NewOptions]

(* Socket::close() as far as ::close(); the object goes on to "next".      *)
close(o, next) ==
    IF fd[o] = SOCKET_ERR
    THEN /\ life' = [life EXCEPT ![o] = next]
         /\ UNCHANGED <<after, kernelVars>>
    ELSE /\ life' = [life EXCEPT ![o] = "closing"]
         /\ after' = [after EXCEPT ![o] = next]
         /\ KernelClose(fd[o])

\* Mutant: the member keeps the number of the closed descriptor.
MutCloseKeepsFd(o) ==
    /\ life[o] = "closing"
    /\ life' = [life EXCEPT ![o] = after[o]]
    /\ UNCHANGED <<kind, fd, after, pend, ret, raced, kept, kernelVars>>

\* Mutant: the member is given what ::close returns, 0 (stdin), and so passes
\* for a descriptor.
MutCloseStoresResult(o) ==
    /\ life[o] = "closing"
    /\ fd' = [fd EXCEPT ![o] = 0]
    /\ life' = [life EXCEPT ![o] = after[o]]
    /\ after' = [after EXCEPT ![o] = "none"]
    /\ UNCHANGED <<kind, pend, ret, raced, kept, kernelVars>>

(* The rest of close(): socket_fd = SOCKET_ERR, and back to the caller.    *)
CloseReset(o) ==
    /\ life[o] = "closing"
    /\ fd' = [fd EXCEPT ![o] = SOCKET_ERR]
    /\ life' = [life EXCEPT ![o] = after[o]]
    /\ after' = [after EXCEPT ![o] = "none"]
    /\ UNCHANGED <<kind, pend, ret, raced, kept, kernelVars>>

\* Mutant: guard throws without closing the socket.
MutGuardLeavesOpen(o, next) ==
    /\ life' = [life EXCEPT ![o] = next]
    /\ ret' = [ret EXCEPT ![o] = "threw"]
    /\ pend' = [pend EXCEPT ![o] = NoName]
    /\ raced' = [raced EXCEPT ![o] = FALSE]
    /\ kept' = [kept EXCEPT ![o] = FALSE]
    /\ UNCHANGED <<kind, fd, after, kernelVars>>

(* guard(err, msg) with err < 0: close, then throw to "next".              *)
guard(o, next) ==
    /\ close(o, next)
    /\ ret' = [ret EXCEPT ![o] = "threw"]
    /\ pend' = [pend EXCEPT ![o] = NoName]
    /\ raced' = [raced EXCEPT ![o] = FALSE]
    /\ kept' = [kept EXCEPT ![o] = FALSE]
    /\ UNCHANGED <<kind, fd>>

(* The program calls close().                                              *)
Close(o) ==
    /\ life[o] = "ready"
    /\ close(o, "ready")
    /\ ret' = [ret EXCEPT ![o] = "ok"]
    /\ UNCHANGED <<kind, fd, pend, raced, kept>>

\* Mutant: the destructor does not close.
MutDestroyLeaks(o) ==
    /\ life[o] = "ready"
    /\ life' = [life EXCEPT ![o] = "none"]
    /\ ret' = [ret EXCEPT ![o] = "ok"]
    /\ UNCHANGED <<kind, fd, after, pend, raced, kept, kernelVars>>

(* ~Socket(): the object's scope ends.                                     *)
Destroy(o) ==
    /\ life[o] = "ready"
    /\ close(o, "none")
    /\ ret' = [ret EXCEPT ![o] = "ok"]
    /\ UNCHANGED <<kind, fd, pend, raced, kept>>

(* ~SocketUDP() and ~Socket() of a constructor that has thrown: the base   *)
(* of the half-made object is destroyed, which calls close() once more.    *)
Unwind(o) ==
    /\ life[o] = "unwinding"
    /\ close(o, "none")
    /\ UNCHANGED <<kind, fd, pend, ret, raced, kept>>

-----------------------------------------------------------------------------
(* Constructors.                                                           *)

(* Socket(): no descriptor.                                                *)
ConstructBase(o) ==
    /\ life[o] = "none"
    /\ kind' = [kind EXCEPT ![o] = "Base"]
    /\ life' = [life EXCEPT ![o] = "ready"]
    /\ ret' = [ret EXCEPT ![o] = "ok"]
    /\ UNCHANGED <<fd, after, pend, raced, kept, kernelVars>>

(* makeSocket() from the constructor of SocketUDP, SocketUnix or SocketBC. *)
makeSocket(o, k) ==
    /\ life[o] = "none"
    /\ k # "Base"
    /\ \E f \in Fd :
        /\ fdt[f] = Free
        /\ fdt' = [fdt EXCEPT ![f] = o]
        /\ fd' = [fd EXCEPT ![o] = f]
    /\ kind' = [kind EXCEPT ![o] = k]
    /\ life' = [life EXCEPT ![o] = IF k = "BC" THEN "building" ELSE "ready"]
    /\ opts' = [opts EXCEPT ![o] = NewOptions]
    /\ ret' = [ret EXCEPT ![o] = "ok"]
    /\ UNCHANGED <<after, pend, addr, file, raced, kept>>

(* ::socket() fails: guard closes nothing and throws out of the            *)
(* constructor, whose base Socket is destroyed.                            *)
makeSocketFails(o) ==
    /\ life[o] = "none"
    /\ guard(o, "unwinding")

(* SocketBC(port) after makeSocket(): SO_BROADCAST and IP_MULTICAST_LOOP.  *)
SetBroadcast(o) ==
    /\ life[o] = "building"
    /\ Target(o) # Free
    /\ opts' = [opts EXCEPT ![Target(o)].broadcast = TRUE]
    /\ life' = [life EXCEPT ![o] = "ready"]
    /\ UNCHANGED <<kind, fd, after, pend, ret, raced, kept, fdt, addr, file>>

(* One of them fails: guard closes and throws out of the constructor.      *)
SetBroadcastFails(o) ==
    /\ life[o] = "building"
    /\ guard(o, "unwinding")

-----------------------------------------------------------------------------
(* Options and queries.                                                    *)

SetOption(o, new) ==
    /\ life[o] = "ready"
    /\ Target(o) # Free
    /\ opts' = [opts EXCEPT ![Target(o)] = new]
    /\ ret' = [ret EXCEPT ![o] = "ok"]
    /\ UNCHANGED <<kind, life, fd, after, pend, raced, kept, fdt, addr, file>>

settimeout(o, timeout_msec) ==
    /\ ValidTimeval(get_time(timeout_msec))
    /\ SetOption(o, [opts[Target(o)] EXCEPT !.timeo = get_time(timeout_msec)])

setnonblocking(o, val) ==
    SetOption(o, [opts[Target(o)] EXCEPT !.nonblocking = val])

reuseSocket(o, enable) ==
    SetOption(o, [opts[Target(o)] EXCEPT !.reuse = enable])

(* A guarded call on a ready object returns a negative value: settimeout,  *)
(* setnonblocking, setsockopt, getsockname or the select of available().   *)
CallFails(o) ==
    /\ life[o] = "ready"
    /\ guard(o, "ready")

-----------------------------------------------------------------------------
(* bind() and connect(): setSocket().                                      *)

(* SocketUDP, SocketUnix and SocketBC delete connect, SocketBC bind too.   *)
MayCall(o, conType) ==
    \/ kind[o] = "Base"
    \/ conType = "BIND" /\ kind[o] \in {"UDP", "Unix"}

(* May ::bind give o's socket the name a (external)?                       *)
CanBind(o, a) ==
    LET s == Target(o)
    IN  /\ s # Free
        /\ addr[s] = NoName
        /\ \/ kind[s] = "Unix" /\ a \in Path /\ file[a] = Absent
           \/ /\ kind[s] = "UDP" /\ a \in Port
              /\ \A q \in Obj : addr[q] = a => opts[q].reuse /\ opts[s].reuse

(* ::bind succeeds.                                                        *)
BindOK(o, a) ==
    /\ CanBind(o, a)
    /\ addr' = [addr EXCEPT ![Target(o)] = a]
    /\ file' = [p \in Path |-> IF p = a THEN Target(o) ELSE file[p]]
    /\ raced' = [q \in Obj |-> q # o /\ (raced[q] \/ pend[q] = a)]
    /\ pend' = [pend EXCEPT ![o] = NoName]
    /\ life' = [life EXCEPT ![o] = "ready"]
    /\ kept' = [kept EXCEPT ![o] = FALSE]
    /\ ret' = [ret EXCEPT ![o] = "ok"]
    /\ UNCHANGED <<kind, fd, after, fdt, opts>>

(* setSocket() on an address that does not match the regular expression,   *)
(* or whose sockaddr ::bind or ::connect refuses: the kernel may refuse,   *)
(* and filter() returns a reference to its own local, so the sockaddr it   *)
(* reads may not be the one that was parsed.                               *)
setSocketFails(o, conType) ==
    /\ life[o] = "ready"
    /\ MayCall(o, conType)
    /\ guard(o, "ready")

(* setSocket() on a udp:// or tcp:// address whose port text stoi() does   *)
(* not take ("," or a number beyond int): stoi's invalid_argument or       *)
(* out_of_range leaves filter() and bind() or connect() past guard(), and  *)
(* the object keeps the socket it had.                                     *)
setSocketThrows(o, conType) ==
    /\ life[o] = "ready"
    /\ MayCall(o, conType)
    /\ ret' = [ret EXCEPT ![o] = "stoi"]
    /\ UNCHANGED <<kind, life, fd, after, pend, raced, kept, kernelVars>>

(* bind() on a udp:// or tcp:// address.                                   *)
setSocketInet(o, a) ==
    /\ life[o] = "ready"
    /\ MayCall(o, "BIND")
    /\ a \in Port
    /\ BindOK(o, a)

(* bind() or connect() on a unix:// address has come as far as unlink().   *)
AtUnlink(o, conType, a) ==
    /\ life[o] = "ready"
    /\ MayCall(o, conType)
    /\ a \in Path
    /\ pend' = [pend EXCEPT ![o] = a]
    /\ raced' = [raced EXCEPT ![o] = FALSE]
    /\ life' = [life EXCEPT ![o] = "unlinked"]
    /\ UNCHANGED <<kind, fd, after, ret, fdt, addr, opts>>

\* Mutant: the old file is not removed before ::bind.
MutNoUnlink(o, conType, a) ==
    /\ AtUnlink(o, conType, a)
    /\ kept' = [kept EXCEPT ![o] = FALSE]
    /\ UNCHANGED file

(* unlink(path): whatever the path led to is gone, whoever it belonged to. *)
setSocketUnlink(o, conType, a) ==
    /\ AtUnlink(o, conType, a)
    /\ file' = [file EXCEPT ![a] = Absent]
    /\ kept' = [kept EXCEPT ![o] = FALSE]

(* unlink(path) fails (a directory that may not be written, another        *)
(* user's file): its result is not looked at and the file stays.           *)
setSocketUnlinkFails(o, conType, a) ==
    /\ AtUnlink(o, conType, a)
    /\ file[a] # Absent
    /\ kept' = [kept EXCEPT ![o] = TRUE]
    /\ UNCHANGED file

(* ... then ::bind.  A "Base" object has no descriptor, so its ::bind and  *)
(* its ::connect both end in setSocketUnixFails.                           *)
setSocketUnix(o) ==
    /\ life[o] = "unlinked"
    /\ BindOK(o, pend[o])

setSocketUnixFails(o) ==
    /\ life[o] = "unlinked"
    /\ guard(o, "ready")

-----------------------------------------------------------------------------
Step(o) ==
    \/ ConstructBase(o)
    \/ \E k \in Kind : makeSocket(o, k)
    \/ makeSocketFails(o)
    \/ SetBroadcast(o)
    \/ SetBroadcastFails(o)
    \/ Close(o)
    \/ Destroy(o)
    \/ Unwind(o)
    \/ CloseReset(o)
    \/ \E ms \in Millis : settimeout(o, ms)
    \/ \E b \in BOOLEAN : setnonblocking(o, b)
    \/ \E b \in BOOLEAN : reuseSocket(o, b)
    \/ CallFails(o)
    \/ \E c \in {"BIND", "CONNECT"} : setSocketFails(o, c)
    \/ \E c \in {"BIND", "CONNECT"} : setSocketThrows(o, c)
    \/ \E a \in Port : setSocketInet(o, a)
    \/ \E c \in {"BIND", "CONNECT"}, a \in Path : setSocketUnlink(o, c, a)
    \/ \E c \in {"BIND", "CONNECT"}, a \in Path : setSocketUnlinkFails(o, c, a)
    \/ setSocketUnix(o)
    \/ setSocketUnixFails(o)

Next == \E o \in Obj : Step(o)

Spec == Init /\ [][Next]_vars

-----------------------------------------------------------------------------
(* Properties.                                                             *)

(* Descriptor ownership: outside close() the member socket_fd is SOCKET_ERR *)
(* or the descriptor of the object's own socket, no descriptor belongs to  *)
(* two objects, and none outlives its object, on the paths where guard()   *)
(* throws out of a call or out of a constructor too.                       *)
FdOwnership ==
    /\ \A o \in Obj :
        life[o] # "closing" => fd[o] = SOCKET_ERR \/ fdt[fd[o]] = o
    /\ \A f \in Fd :
        fdt[f] # Free => fd[fdt[f]] = f /\ life[fdt[f]] # "none"

(* An exception of guard() leaves the object without a socket: close() ran *)
(* to its end before the exception reached the caller, whichever call      *)
(* failed.  Only guard()'s: what stoi() throws through setSocket() leaves  *)
(* the object as it was (setSocketThrows).                                 *)
ThrewMeansClosed ==
    \A o \in Obj : ret[o] = "threw" /\ life[o] # "closing" => fd[o] = SOCKET_ERR

(* ::bind on a unix path meets an existing file only if another object's   *)
(* bind() created it after this one's unlink(), or if that unlink()        *)
(* failed: no other file left behind by a socket that was closed, or by a  *)
(* process that died, stands in the way of a server that starts again.     *)
RestartBinds ==
    \A o \in Obj :
        life[o] = "unlinked" /\ file[pend[o]] # Absent => raced[o] \/ kept[o]

(* ::close on a descriptor is only ever run by the object whose socket it  *)
(* is: no second close() of a number that a new socket has been given.     *)
NoForeignClose ==
    [][\A f \in Fd : fdt[f] # Free /\ fdt'[f] # fdt[f]
                        => fdt'[f] = Free /\ life'[fdt[f]] = "closing"]_vars

(* A path stops leading to the socket bound to it only when that socket is *)
(* closed or when some setSocket() call unlinks that very path; closing a  *)
(* server whose path was taken over does not cut off its successor.        *)
PathKept ==
    [][\A p \in Path : file[p] \in Obj /\ file'[p] # file[p] =>
          \/ life'[file[p]] = "closing" /\ file'[p] = Stale
          \/ \E o \in Obj : /\ life[o] = "ready" /\ life'[o] = "unlinked"
                            /\ pend'[o] = p]_vars

-----------------------------------------------------------------------------
(* The inductive invariant behind the properties above.  What they leave   *)
(* out: an object that does not exist holds no descriptor, an object in    *)
(* the middle of close() still holds the number it has given back, and a   *)
(* path leads only to an open socket that is bound to it.                  *)
NoObjectNoFd ==
    \A o \in Obj : life[o] = "none" => fd[o] = SOCKET_ERR

ClosingGaveBack ==
    \A o \in Obj : life[o] = "closing" => \A f \in Fd : fdt[f] # o

NamesAreHeld ==
    /\ \A p \in Path : file[p] \in Obj => addr[file[p]] = p
    /\ \A o \in Obj : addr[o] # NoName => \E f \in Fd : fdt[f] = o

UnlinkedHasPath ==
    \A o \in Obj : life[o] = "unlinked" <=> pend[o] \in Path

IInv ==
    /\ TypeOK
    /\ FdOwnership
    /\ ThrewMeansClosed
    /\ RestartBinds
    /\ NoObjectNoFd
    /\ ClosingGaveBack
    /\ NamesAreHeld
    /\ UnlinkedHasPath
=============================================================================
