----------------------------- MODULE SocketProofs -----------------------------
(***************************************************************************)
(* Socket's invariants and action properties, for any number of objects,   *)
(* descriptors, paths and ports.                                           *)
(*                                                                         *)
(* The argument: IInv is inductive.  A step of one object changes the      *)
(* members of that object only and the kernel state of the one socket its  *)
(* descriptor leads to, which FdOwnership says is its own.                 *)
(***************************************************************************)
EXTENDS Socket, TLAPS

(* SOCKET_ERR is no descriptor. *)
LEMMA ErrNotFd == SOCKET_ERR \notin Fd
  BY FdAssumption DEF SOCKET_ERR

LEMMA ZeroUsec == 0 \in Usec
  BY SMT DEF Usec

(* What the kernel accepts of get_time() is a timeval. *)
LEMMA TimevalType ==
  ASSUME NEW ms \in Int, ValidTimeval(get_time(ms))
  PROVE  get_time(ms) \in [tv_sec : Int, tv_usec : Usec]
  <1>1. TruncDiv(ms, 1000) \in Int
    BY DEF TruncDiv
  <1> QED
    BY <1>1 DEF get_time, ValidTimeval

(* Outside close() a call on an object reaches its own socket or none. *)
LEMMA OwnTarget ==
  ASSUME IInv, NEW o \in Obj, life[o] # "closing"
  PROVE  /\ Target(o) = (IF fd[o] = SOCKET_ERR THEN Free ELSE o)
         /\ Target(o) # Free => fd[o] \in Fd /\ Target(o) = o
  BY ErrNotFd, NameAssumption DEF IInv, TypeOK, FdOwnership, Target

(* Init establishes the invariant: no object, no descriptor, no name. *)
LEMMA InitIInv == Init => IInv
  <1> SUFFICES ASSUME Init PROVE IInv
    OBVIOUS
  <1>1. NewOptions \in Options
    BY ZeroUsec DEF NewOptions, Options, NoTimeout
  <1>2. TypeOK
    BY <1>1 DEF Init, TypeOK, Kind, Life, Outcome, Name
  <1>3. FdOwnership /\ ThrewMeansClosed /\ RestartBinds /\ NoObjectNoFd
    BY DEF Init, FdOwnership, ThrewMeansClosed, RestartBinds, NoObjectNoFd
  <1>4. ClosingGaveBack /\ NamesAreHeld /\ UnlinkedHasPath
    BY NameAssumption DEF Init, ClosingGaveBack, NamesAreHeld, UnlinkedHasPath
  <1> QED
    BY <1>2, <1>3, <1>4 DEF IInv

(* close() up to ::close, called by o on its way to "next", where o is the *)
(* only object whose state moves and it ends with no name pending.         *)
LEMMA ClosePreserves ==
  ASSUME IInv,
         NEW o \in Obj, life[o] # "closing",
         NEW next \in {"none", "ready", "unwinding"},
         close(o, next),
         fd' = fd, kind' = kind,
         NEW r \in Outcome, ret' = [ret EXCEPT ![o] = r],
         pend' = [pend EXCEPT ![o] = NoName],
         raced' \in [Obj -> BOOLEAN], \A q \in Obj \ {o} : raced'[q] = raced[q],
         kept' \in [Obj -> BOOLEAN], \A q \in Obj \ {o} : kept'[q] = kept[q]
  PROVE  IInv'
  <1> USE NameAssumption, ErrNotFd
  <1> USE DEF IInv
  <1>0. NewOptions \in Options
    BY ZeroUsec DEF NewOptions, Options, NoTimeout
  <1>1. CASE fd[o] = SOCKET_ERR
    <2>0. /\ life' = [life EXCEPT ![o] = next]
          /\ UNCHANGED <<after, fdt, addr, opts, file>>
      BY <1>1 DEF close, kernelVars
    <2>1. TypeOK'
      BY <1>1, <2>0 DEF TypeOK, Life
    <2>2. FdOwnership'
      BY <1>1, <2>0 DEF TypeOK, FdOwnership
    <2>3. ThrewMeansClosed' /\ NoObjectNoFd'
      BY <1>1, <2>0 DEF TypeOK, ThrewMeansClosed, NoObjectNoFd
    <2>4. RestartBinds' /\ UnlinkedHasPath'
      BY <1>1, <2>0 DEF TypeOK, RestartBinds, UnlinkedHasPath
    <2>5. ClosingGaveBack' /\ NamesAreHeld'
      BY <1>1, <2>0 DEF TypeOK, ClosingGaveBack, NamesAreHeld
    <2> QED
      BY <2>1, <2>2, <2>3, <2>4, <2>5
  <1>2. CASE fd[o] # SOCKET_ERR
    <2>0. fd[o] \in Fd /\ fdt[fd[o]] = o
      BY <1>2 DEF TypeOK, FdOwnership
    <2>1. /\ life' = [life EXCEPT ![o] = "closing"]
          /\ after' = [after EXCEPT ![o] = next]
          /\ fdt' = [fdt EXCEPT ![fd[o]] = Free]
          /\ addr' = [q \in Obj |-> IF q = o THEN NoName ELSE addr[q]]
          /\ file' = [p \in Path |-> IF file[p] = o THEN Stale ELSE file[p]]
          /\ opts' = [q \in Obj |-> IF q = o THEN NewOptions ELSE opts[q]]
      BY <1>2, <2>0 DEF close, KernelClose
    <2>2. TypeOK'
      BY <1>0, <2>0, <2>1 DEF TypeOK, Life
    <2>3. FdOwnership'
      BY <2>0, <2>1 DEF TypeOK, FdOwnership
    <2>4. ThrewMeansClosed' /\ NoObjectNoFd'
      BY <2>0, <2>1 DEF TypeOK, ThrewMeansClosed, NoObjectNoFd
    <2>5. RestartBinds'
      BY <2>0, <2>1 DEF TypeOK, RestartBinds, UnlinkedHasPath
    <2>6. UnlinkedHasPath'
      BY <2>0, <2>1 DEF TypeOK, UnlinkedHasPath
    <2>7. ClosingGaveBack'
      BY <2>0, <2>1 DEF TypeOK, ClosingGaveBack, FdOwnership
    <2>8. NamesAreHeld'
      BY <2>0, <2>1 DEF TypeOK, NamesAreHeld, FdOwnership
    <2> QED
      BY <2>2, <2>3, <2>4, <2>5, <2>6, <2>7, <2>8
  <1> QED
    BY <1>1, <1>2

(* guard() on a failed call: the same, with an exception. *)
LEMMA GuardPreserves ==
  ASSUME IInv,
         NEW o \in Obj, life[o] # "closing",
         NEW next \in {"ready", "unwinding"},
         guard(o, next)
  PROVE  IInv'
  <1>1. /\ close(o, next)
        /\ ret' = [ret EXCEPT ![o] = "threw"]
        /\ pend' = [pend EXCEPT ![o] = NoName]
        /\ raced' = [raced EXCEPT ![o] = FALSE]
        /\ kept' = [kept EXCEPT ![o] = FALSE]
        /\ fd' = fd /\ kind' = kind
    BY DEF guard
  <1>2. raced' \in [Obj -> BOOLEAN] /\ \A q \in Obj \ {o} : raced'[q] = raced[q]
    BY <1>1 DEF IInv, TypeOK
  <1>3. kept' \in [Obj -> BOOLEAN] /\ \A q \in Obj \ {o} : kept'[q] = kept[q]
    BY <1>1 DEF IInv, TypeOK
  <1>4. "threw" \in Outcome
    BY DEF Outcome
  <1> QED
    BY <1>1, <1>2, <1>3, <1>4, ClosePreserves

(* close() called by the program or by a destructor. *)
LEMMA CloseCallPreserves ==
  ASSUME IInv,
         NEW o \in Obj,
         Close(o) \/ Destroy(o) \/ Unwind(o)
  PROVE  IInv'
  <1>1. PICK next \in {"none", "ready", "unwinding"} : close(o, next)
    BY DEF Close, Destroy, Unwind
  <1>2. /\ life[o] \in {"ready", "unwinding"}
        /\ ret' = [ret EXCEPT ![o] = "ok"] \/ ret' = ret
        /\ UNCHANGED <<kind, fd, pend, raced, kept>>
    BY DEF Close, Destroy, Unwind
  <1>3. PICK r \in Outcome : ret' = [ret EXCEPT ![o] = r]
    <2>1. "ok" \in Outcome
      BY DEF Outcome
    <2>2. ret[o] \in Outcome /\ ret = [ret EXCEPT ![o] = ret[o]]
      BY DEF IInv, TypeOK
    <2> QED
      BY <1>2, <2>1, <2>2
  <1>4. pend' = [pend EXCEPT ![o] = NoName]
    BY <1>2, NameAssumption DEF IInv, TypeOK, UnlinkedHasPath
  <1>5. raced' \in [Obj -> BOOLEAN] /\ \A q \in Obj \ {o} : raced'[q] = raced[q]
    BY <1>2 DEF IInv, TypeOK
  <1>6. kept' \in [Obj -> BOOLEAN] /\ \A q \in Obj \ {o} : kept'[q] = kept[q]
    BY <1>2 DEF IInv, TypeOK
  <1> QED
    BY <1>1, <1>2, <1>3, <1>4, <1>5, <1>6, ClosePreserves

(* The second half of close(). *)
LEMMA CloseResetPreserves ==
  ASSUME IInv, NEW o \in Obj, CloseReset(o)
  PROVE  IInv'
  <1> USE NameAssumption, ErrNotFd DEF IInv, CloseReset, kernelVars
  <1>1. TypeOK'
    BY DEF TypeOK, Life
  <1>2. FdOwnership'
    BY DEF TypeOK, FdOwnership, ClosingGaveBack
  <1>3. ThrewMeansClosed' /\ NoObjectNoFd'
    BY DEF TypeOK, ThrewMeansClosed, NoObjectNoFd
  <1>4. RestartBinds' /\ UnlinkedHasPath'
    BY DEF TypeOK, RestartBinds, UnlinkedHasPath
  <1>5. ClosingGaveBack' /\ NamesAreHeld'
    BY DEF TypeOK, ClosingGaveBack, NamesAreHeld
  <1> QED
    BY <1>1, <1>2, <1>3, <1>4, <1>5

(* Construction of an object without a descriptor. *)
LEMMA ConstructBasePreserves ==
  ASSUME IInv, NEW o \in Obj, ConstructBase(o)
  PROVE  IInv'
  <1> USE NameAssumption, ErrNotFd DEF IInv, ConstructBase, kernelVars
  <1>1. TypeOK'
    BY DEF TypeOK, Life, Kind, Outcome
  <1>2. FdOwnership'
    BY DEF TypeOK, FdOwnership
  <1>3. ThrewMeansClosed' /\ NoObjectNoFd'
    BY DEF TypeOK, ThrewMeansClosed, NoObjectNoFd
  <1>4. RestartBinds' /\ UnlinkedHasPath'
    BY DEF TypeOK, RestartBinds, UnlinkedHasPath
  <1>5. ClosingGaveBack' /\ NamesAreHeld'
    BY DEF TypeOK, ClosingGaveBack, NamesAreHeld
  <1> QED
    BY <1>1, <1>2, <1>3, <1>4, <1>5

(* Construction of an object with a descriptor that was free. *)
LEMMA MakeSocketPreserves ==
  ASSUME IInv, NEW o \in Obj, NEW k \in Kind, makeSocket(o, k)
  PROVE  IInv'
  <1> USE NameAssumption, ErrNotFd DEF IInv
  <1>1. PICK f \in Fd :
          /\ fdt[f] = Free
          /\ fdt' = [fdt EXCEPT ![f] = o]
          /\ fd' = [fd EXCEPT ![o] = f]
    BY DEF makeSocket
  <1>2. PICK l \in {"building", "ready"} :
          /\ life[o] = "none"
          /\ kind' = [kind EXCEPT ![o] = k]
          /\ life' = [life EXCEPT ![o] = l]
          /\ opts' = [opts EXCEPT ![o] = NewOptions]
          /\ ret' = [ret EXCEPT ![o] = "ok"]
          /\ UNCHANGED <<after, pend, addr, file, raced, kept>>
    BY DEF makeSocket
  <1>3. NewOptions \in Options
    BY ZeroUsec DEF NewOptions, Options, NoTimeout
  <1>4. TypeOK'
    BY <1>1, <1>2, <1>3 DEF TypeOK, Life, Outcome
  <1>5. \A g \in Fd : fdt[g] # o
    BY <1>2 DEF TypeOK, FdOwnership
  <1>6. FdOwnership'
    BY <1>1, <1>2, <1>5 DEF TypeOK, FdOwnership
  <1>7. ThrewMeansClosed' /\ NoObjectNoFd'
    BY <1>1, <1>2 DEF TypeOK, ThrewMeansClosed, NoObjectNoFd
  <1>8. RestartBinds' /\ UnlinkedHasPath'
    BY <1>2 DEF TypeOK, RestartBinds, UnlinkedHasPath
  <1>9. ClosingGaveBack'
    BY <1>1, <1>2 DEF TypeOK, ClosingGaveBack
  <1>10. NamesAreHeld'
    BY <1>1, <1>2 DEF TypeOK, NamesAreHeld
  <1> QED
    BY <1>4, <1>6, <1>7, <1>8, <1>9, <1>10

(* A step that changes only the options of o's socket, and what the caller *)
(* is told, keeps the invariant.                                           *)
LEMMA OptionsPreserve ==
  ASSUME IInv, NEW o \in Obj, life[o] \in {"building", "ready"},
         Target(o) # Free,
         NEW new \in Options,
         opts' = [opts EXCEPT ![Target(o)] = new],
         ret' = [ret EXCEPT ![o] = "ok"] \/ ret' = ret,
         life' = [life EXCEPT ![o] = "ready"],
         UNCHANGED <<kind, fd, after, pend, raced, kept, fdt, addr, file>>
  PROVE  IInv'
  <1> USE NameAssumption, ErrNotFd DEF IInv
  <1>1. Target(o) = o /\ fd[o] \in Fd
    BY OwnTarget
  <1>2. TypeOK'
    BY <1>1 DEF TypeOK, Life, Outcome
  <1>3. FdOwnership'
    BY DEF TypeOK, FdOwnership
  <1>4. ThrewMeansClosed' /\ NoObjectNoFd'
    BY DEF TypeOK, ThrewMeansClosed, NoObjectNoFd
  <1>5. RestartBinds' /\ UnlinkedHasPath'
    BY DEF TypeOK, RestartBinds, UnlinkedHasPath
  <1>6. ClosingGaveBack' /\ NamesAreHeld'
    BY DEF TypeOK, ClosingGaveBack, NamesAreHeld
  <1> QED
    BY <1>2, <1>3, <1>4, <1>5, <1>6

(* SocketBC's constructor, settimeout(), setnonblocking(), reuseSocket(). *)
LEMMA SettersPreserve ==
  ASSUME IInv, NEW o \in Obj,
         \/ SetBroadcast(o)
         \/ \E ms \in Millis : settimeout(o, ms)
         \/ \E b \in BOOLEAN : setnonblocking(o, b)
         \/ \E b \in BOOLEAN : reuseSocket(o, b)
  PROVE  IInv'
  <1>1. CASE SetBroadcast(o)
    <2>1. Target(o) = o /\ Target(o) # Free
      BY <1>1, OwnTarget DEF SetBroadcast
    <2> DEFINE new == [opts[o] EXCEPT !.broadcast = TRUE]
    <2>2. new \in Options
      BY DEF IInv, TypeOK, Options
    <2>3. opts' = [opts EXCEPT ![Target(o)] = new]
      BY <1>1, <2>1 DEF SetBroadcast
    <2> HIDE DEF new
    <2> QED
      BY <1>1, <2>1, <2>2, <2>3, OptionsPreserve DEF SetBroadcast
  <1>2. ASSUME NEW new \in Options, SetOption(o, new)
        PROVE  IInv'
    <2>1. life' = [life EXCEPT ![o] = "ready"]
      BY <1>2 DEF SetOption, IInv, TypeOK
    <2> QED
      BY <1>2, <2>1, OptionsPreserve DEF SetOption
  <1>3. ASSUME life[o] = "ready", Target(o) # Free
        PROVE  opts[Target(o)] \in Options
    BY <1>3, OwnTarget DEF IInv, TypeOK
  <1>4. CASE \E ms \in Millis : settimeout(o, ms)
    <2>1. PICK ms \in Millis : settimeout(o, ms)
      BY <1>4
    <2> DEFINE new == [opts[Target(o)] EXCEPT !.timeo = get_time(ms)]
    <2>2. SetOption(o, new)
      BY <2>1 DEF settimeout
    <2>3. get_time(ms) \in [tv_sec : Int, tv_usec : Usec]
      BY <2>1, TimevalType, MillisAssumption DEF settimeout
    <2>4. new \in Options
      BY <2>2, <2>3, <1>3 DEF SetOption, Options
    <2> QED
      BY <2>2, <2>4, <1>2
  <1>5. CASE \E b \in BOOLEAN : setnonblocking(o, b)
    <2>1. PICK b \in BOOLEAN : setnonblocking(o, b)
      BY <1>5
    <2> DEFINE new == [opts[Target(o)] EXCEPT !.nonblocking = b]
    <2>2. SetOption(o, new)
      BY <2>1 DEF setnonblocking
    <2>3. new \in Options
      BY <2>2, <1>3 DEF SetOption, Options
    <2> QED
      BY <2>2, <2>3, <1>2
  <1>6. CASE \E b \in BOOLEAN : reuseSocket(o, b)
    <2>1. PICK b \in BOOLEAN : reuseSocket(o, b)
      BY <1>6
    <2> DEFINE new == [opts[Target(o)] EXCEPT !.reuse = b]
    <2>2. SetOption(o, new)
      BY <2>1 DEF reuseSocket
    <2>3. new \in Options
      BY <2>2, <1>3 DEF SetOption, Options
    <2> QED
      BY <2>2, <2>3, <1>2
  <1> QED
    BY <1>1, <1>4, <1>5, <1>6

(* ::bind succeeds: the only socket that gets the name is o's own, and the *)
(* path, if it is one, led nowhere before.                                 *)
LEMMA BindPreserves ==
  ASSUME IInv, NEW o \in Obj, NEW a \in Name,
         \/ life[o] = "ready"
         \/ life[o] = "unlinked" /\ a = pend[o],
         BindOK(o, a)
  PROVE  IInv'
  <1> USE NameAssumption, ErrNotFd DEF IInv
  <1>1. Target(o) = o /\ fd[o] \in Fd /\ fdt[fd[o]] = o
    BY OwnTarget DEF BindOK, CanBind, TypeOK, FdOwnership
  <1>2. /\ addr' = [addr EXCEPT ![o] = a]
        /\ file' = [p \in Path |-> IF p = a THEN o ELSE file[p]]
        /\ raced' = [q \in Obj |-> q # o /\ (raced[q] \/ pend[q] = a)]
        /\ pend' = [pend EXCEPT ![o] = NoName]
        /\ life' = [life EXCEPT ![o] = "ready"]
        /\ kept' = [kept EXCEPT ![o] = FALSE]
        /\ ret' = [ret EXCEPT ![o] = "ok"]
        /\ UNCHANGED <<kind, fd, after, fdt, opts>>
    BY <1>1 DEF BindOK
  <1>3. addr[o] = NoName /\ (a \in Path => file[a] = Absent)
    BY <1>1 DEF BindOK, CanBind
  <1>4. TypeOK'
    <2>1. raced' \in [Obj -> BOOLEAN] /\ kept' \in [Obj -> BOOLEAN]
      BY <1>2, Zenon DEF TypeOK
    <2>2. /\ kind' \in [Obj -> Kind]
          /\ life' \in [Obj -> Life]
          /\ fd' \in [Obj -> Fd \cup {SOCKET_ERR}]
          /\ after' \in [Obj -> {"none", "ready", "unwinding"}]
          /\ pend' \in [Obj -> Path \cup {NoName}]
          /\ ret' \in [Obj -> Outcome]
          /\ fdt' \in [Fd -> Obj \cup {Free}]
          /\ addr' \in [Obj -> Name \cup {NoName}]
          /\ opts' \in [Obj -> Options]
          /\ file' \in [Path -> Obj \cup {Stale, Absent}]
      BY <1>2 DEF TypeOK, Life, Outcome, Name
    <2> QED
      BY <2>1, <2>2 DEF TypeOK
  <1>5. FdOwnership'
    BY <1>1, <1>2 DEF TypeOK, FdOwnership
  <1>6. ThrewMeansClosed' /\ NoObjectNoFd'
    BY <1>1, <1>2 DEF TypeOK, ThrewMeansClosed, NoObjectNoFd
  <1>7. UnlinkedHasPath'
    BY <1>2 DEF TypeOK, UnlinkedHasPath
  <1>8. RestartBinds'
    <2> SUFFICES ASSUME NEW q \in Obj, life'[q] = "unlinked",
                        file'[pend'[q]] # Absent
                 PROVE  raced'[q] \/ kept'[q]
      BY DEF RestartBinds
    <2>1. q # o /\ life[q] = "unlinked" /\ pend'[q] = pend[q] /\ pend[q] \in Path
      BY <1>2 DEF TypeOK, UnlinkedHasPath
    <2>2. pend[q] = a \/ file[pend[q]] # Absent
      BY <1>2, <2>1
    <2>3. kept'[q] = kept[q] /\ (raced[q] \/ pend[q] = a => raced'[q])
      BY <1>2, <2>1 DEF TypeOK
    <2> QED
      BY <2>1, <2>2, <2>3 DEF RestartBinds
  <1>9. ClosingGaveBack'
    BY <1>1, <1>2 DEF TypeOK, ClosingGaveBack
  <1>10. NamesAreHeld'
    BY <1>1, <1>2, <1>3 DEF TypeOK, NamesAreHeld, Name
  <1> QED
    BY <1>4, <1>5, <1>6, <1>7, <1>8, <1>9, <1>10

(* unlink(path), done or refused: a path that still leads somewhere is one *)
(* the object knows it could not unlink.                                   *)
LEMMA UnlinkPreserves ==
  ASSUME IInv, NEW o \in Obj, NEW c, NEW a \in Path,
         setSocketUnlink(o, c, a) \/ setSocketUnlinkFails(o, c, a)
  PROVE  IInv'
  <1> USE NameAssumption, ErrNotFd DEF IInv
  <1>1. /\ life[o] = "ready"
        /\ pend' = [pend EXCEPT ![o] = a]
        /\ raced' = [raced EXCEPT ![o] = FALSE]
        /\ life' = [life EXCEPT ![o] = "unlinked"]
        /\ UNCHANGED <<kind, fd, after, ret, fdt, addr, opts>>
    BY DEF setSocketUnlink, setSocketUnlinkFails, AtUnlink
  <1>2. PICK k \in BOOLEAN : /\ kept' = [kept EXCEPT ![o] = k]
                             /\ \/ ~k /\ file' = [file EXCEPT ![a] = Absent]
                                \/ k /\ file' = file
    BY DEF setSocketUnlink, setSocketUnlinkFails
  <1>3. TypeOK'
    BY <1>1, <1>2 DEF TypeOK, Life
  <1>4. FdOwnership'
    BY <1>1 DEF TypeOK, FdOwnership
  <1>5. ThrewMeansClosed' /\ NoObjectNoFd'
    BY <1>1 DEF TypeOK, ThrewMeansClosed, NoObjectNoFd
  <1>6. UnlinkedHasPath'
    BY <1>1 DEF TypeOK, UnlinkedHasPath
  <1>7. RestartBinds'
    BY <1>1, <1>2 DEF TypeOK, RestartBinds, UnlinkedHasPath
  <1>8. ClosingGaveBack' /\ NamesAreHeld'
    BY <1>1, <1>2 DEF TypeOK, ClosingGaveBack, NamesAreHeld
  <1> QED
    BY <1>3, <1>4, <1>5, <1>6, <1>7, <1>8

(* stoi() throws through setSocket(): nothing but the outcome changes. *)
LEMMA ThrowsPreserves ==
  ASSUME IInv, NEW o \in Obj, NEW c, setSocketThrows(o, c)
  PROVE  IInv'
  <1> USE NameAssumption, ErrNotFd DEF IInv, setSocketThrows, kernelVars
  <1>1. TypeOK'
    BY DEF TypeOK, Outcome
  <1>2. FdOwnership' /\ NoObjectNoFd' /\ ClosingGaveBack'
    BY DEF FdOwnership, NoObjectNoFd, ClosingGaveBack
  <1>3. ThrewMeansClosed'
    BY DEF TypeOK, ThrewMeansClosed
  <1>4. RestartBinds' /\ UnlinkedHasPath' /\ NamesAreHeld'
    BY DEF RestartBinds, UnlinkedHasPath, NamesAreHeld
  <1> QED
    BY <1>1, <1>2, <1>3, <1>4

(* Every step keeps the invariant, one case per action. *)
LEMMA NextIInv == IInv /\ [Next]_vars => IInv'
  <1> SUFFICES ASSUME IInv, [Next]_vars PROVE IInv'
    OBVIOUS
  <1>1. CASE UNCHANGED vars
    BY <1>1 DEF vars, IInv, TypeOK, FdOwnership, ThrewMeansClosed, RestartBinds,
                NoObjectNoFd, ClosingGaveBack, NamesAreHeld, UnlinkedHasPath
  <1>2. CASE Next
    <2>1. PICK o \in Obj : Step(o)
      BY <1>2 DEF Next
    <2>2. CASE ConstructBase(o)
      BY <2>2, ConstructBasePreserves
    <2>3. CASE \E k \in Kind : makeSocket(o, k)
      BY <2>3, MakeSocketPreserves
    <2>4. CASE makeSocketFails(o)
      BY <2>4, GuardPreserves DEF makeSocketFails
    <2>5. CASE SetBroadcastFails(o)
      BY <2>5, GuardPreserves DEF SetBroadcastFails
    <2>6. CASE Close(o) \/ Destroy(o) \/ Unwind(o)
      BY <2>6, CloseCallPreserves
    <2>7. CASE CloseReset(o)
      BY <2>7, CloseResetPreserves
    <2>8. CASE \/ SetBroadcast(o)
               \/ \E ms \in Millis : settimeout(o, ms)
               \/ \E b \in BOOLEAN : setnonblocking(o, b)
               \/ \E b \in BOOLEAN : reuseSocket(o, b)
      BY <2>8, SettersPreserve
    <2>9. CASE CallFails(o)
      BY <2>9, GuardPreserves DEF CallFails
    <2>10. CASE \E c \in {"BIND", "CONNECT"} : setSocketFails(o, c)
      BY <2>10, GuardPreserves DEF setSocketFails
    <2>11. CASE \E a \in Port : setSocketInet(o, a)
      BY <2>11, BindPreserves DEF setSocketInet, Name
    <2>12. CASE \E c \in {"BIND", "CONNECT"}, a \in Path :
                   setSocketUnlink(o, c, a) \/ setSocketUnlinkFails(o, c, a)
      BY <2>12, UnlinkPreserves
    <2>13. CASE setSocketUnix(o)
      <3>1. pend[o] \in Name
        BY <2>13 DEF setSocketUnix, IInv, UnlinkedHasPath, Name
      <3> QED
        BY <2>13, <3>1, BindPreserves DEF setSocketUnix
    <2>14. CASE setSocketUnixFails(o)
      BY <2>14, GuardPreserves DEF setSocketUnixFails
    <2>15. CASE \E c \in {"BIND", "CONNECT"} : setSocketThrows(o, c)
      BY <2>15, ThrowsPreserves
    <2> QED
      BY <2>1, <2>2, <2>3, <2>4, <2>5, <2>6, <2>7, <2>8, <2>9, <2>10, <2>11,
         <2>12, <2>13, <2>14, <2>15 DEF Step
  <1> QED
    BY <1>1, <1>2

(* The inductive invariant holds throughout. *)
THEOREM Invariance == Spec => []IInv
  BY InitIInv, NextIInv, PTL DEF Spec

(* Type correctness of the socket objects and of the kernel's tables. *)
THEOREM TypeCorrect == Spec => []TypeOK
  <1>1. IInv => TypeOK
    BY DEF IInv
  <1> QED
    BY <1>1, Invariance, PTL

(* No descriptor is shared, lost or kept beyond its object: what close(),  *)
(* guard(), the constructors and the destructor do with socket_fd.         *)
THEOREM DescriptorsOwned == Spec => []FdOwnership
  <1>1. IInv => FdOwnership
    BY DEF IInv
  <1> QED
    BY <1>1, Invariance, PTL

(* An exception of guard() leaves the object without a socket, also where  *)
(* calls that end in an exception of stoi(), and so keep it, come between. *)
THEOREM ThrownIsClosed == Spec => []ThrewMeansClosed
  <1>1. IInv => ThrewMeansClosed
    BY DEF IInv
  <1> QED
    BY <1>1, Invariance, PTL

(* What a restarted server's ::bind can meet: the file of a bind() that    *)
(* raced with this one, or the file its own unlink() could not remove.     *)
THEOREM RestartSucceeds == Spec => []RestartBinds
  <1>1. IInv => RestartBinds
    BY DEF IInv
  <1> QED
    BY <1>1, Invariance, PTL

(* close(), seen from one descriptor: it is o's own, and o is in close(). *)
LEMMA CloseIsOwn ==
  ASSUME IInv, NEW o \in Obj, life[o] # "closing",
         NEW next, close(o, next),
         NEW f \in Fd, fdt[f] # Free, fdt'[f] # fdt[f]
  PROVE  fdt'[f] = Free /\ life'[fdt[f]] = "closing"
  BY NameAssumption, ErrNotFd
     DEF IInv, TypeOK, FdOwnership, close, KernelClose, kernelVars

(* ... and seen from one path: it was o's own, and only becomes stale. *)
LEMMA CloseLeavesFile ==
  ASSUME IInv, NEW o \in Obj, life[o] # "closing",
         NEW next, close(o, next),
         NEW p \in Path, file[p] \in Obj, file'[p] # file[p]
  PROVE  life'[file[p]] = "closing" /\ file'[p] = Stale
  BY NameAssumption, ErrNotFd
     DEF IInv, TypeOK, FdOwnership, close, KernelClose, kernelVars

(* The steps that change neither descriptor table nor files, the ones that *)
(* close, and the rest.                                                    *)
LEMMA StepKinds ==
  ASSUME IInv, NEW o \in Obj, Step(o)
  PROVE  \/ UNCHANGED <<fdt, file>>
         \/ /\ life[o] # "closing"
            /\ \E next \in {"none", "ready", "unwinding"} : close(o, next)
         \/ \E k \in Kind : makeSocket(o, k)
         \/ \E a \in Name : BindOK(o, a)
         \/ \E c \in {"BIND", "CONNECT"}, a \in Path : setSocketUnlink(o, c, a)
  <1>1. CASE \/ ConstructBase(o) \/ CloseReset(o) \/ SetBroadcast(o)
             \/ \E c \in {"BIND", "CONNECT"} : setSocketThrows(o, c)
             \/ \E c \in {"BIND", "CONNECT"}, a \in Path :
                   setSocketUnlinkFails(o, c, a)
    BY <1>1 DEF ConstructBase, CloseReset, SetBroadcast, setSocketThrows,
                setSocketUnlinkFails, AtUnlink, kernelVars
  <1>2. CASE \/ \E ms \in Millis : settimeout(o, ms)
             \/ \E b \in BOOLEAN : setnonblocking(o, b)
             \/ \E b \in BOOLEAN : reuseSocket(o, b)
    BY <1>2 DEF settimeout, setnonblocking, reuseSocket, SetOption
  <1>3. CASE \/ makeSocketFails(o) \/ SetBroadcastFails(o) \/ CallFails(o)
             \/ \E c \in {"BIND", "CONNECT"} : setSocketFails(o, c)
             \/ setSocketUnixFails(o) \/ Close(o) \/ Destroy(o) \/ Unwind(o)
    BY <1>3 DEF makeSocketFails, SetBroadcastFails, CallFails, setSocketFails,
                setSocketUnixFails, guard, Close, Destroy, Unwind
  <1>4. CASE \E a \in Port : setSocketInet(o, a)
    BY <1>4 DEF setSocketInet, Name
  <1>5. CASE setSocketUnix(o)
    BY <1>5 DEF setSocketUnix, IInv, UnlinkedHasPath, Name
  <1> QED
    BY <1>1, <1>2, <1>3, <1>4, <1>5 DEF Step

(* No object ever closes a descriptor that leads to another's socket. *)
THEOREM ClosesAreOwn == Spec => NoForeignClose
  <1> DEFINE P == \A f \in Fd : fdt[f] # Free /\ fdt'[f] # fdt[f]
                        => fdt'[f] = Free /\ life'[fdt[f]] = "closing"
  <1>1. ASSUME IInv, [Next]_vars PROVE [P]_vars
    <2> SUFFICES ASSUME Next, NEW f \in Fd, fdt[f] # Free, fdt'[f] # fdt[f]
                 PROVE  fdt'[f] = Free /\ life'[fdt[f]] = "closing"
      BY <1>1
    <2>1. PICK o \in Obj : Step(o)
      BY DEF Next
    <2>2. ~UNCHANGED <<fdt, file>>
      OBVIOUS
    <2>3. ~\E k \in Kind : makeSocket(o, k)
      BY <1>1 DEF makeSocket, IInv, TypeOK
    <2>4. ~\E a \in Name : BindOK(o, a)
      BY DEF BindOK
    <2>5. ~\E c \in {"BIND", "CONNECT"}, a \in Path : setSocketUnlink(o, c, a)
      BY DEF setSocketUnlink, AtUnlink
    <2> QED
      BY <1>1, <2>1, <2>2, <2>3, <2>4, <2>5, StepKinds, CloseIsOwn
  <1>2. IInv /\ [Next]_vars => [P]_vars
    BY <1>1
  <1> QED
    BY <1>2, Invariance, PTL DEF Spec, NoForeignClose

(* A live path is lost only to its own socket's close() or to an unlink()  *)
(* of that path by some setSocket().                                       *)
THEOREM PathsKept == Spec => PathKept
  <1> DEFINE P == \A p \in Path : file[p] \in Obj /\ file'[p] # file[p] =>
          \/ life'[file[p]] = "closing" /\ file'[p] = Stale
          \/ \E o \in Obj : /\ life[o] = "ready" /\ life'[o] = "unlinked"
                            /\ pend'[o] = p
  <1>1. ASSUME IInv, [Next]_vars PROVE [P]_vars
    <2> SUFFICES ASSUME Next, NEW p \in Path, file[p] \in Obj, file'[p] # file[p]
                 PROVE  \/ life'[file[p]] = "closing" /\ file'[p] = Stale
                        \/ \E o \in Obj : /\ life[o] = "ready"
                                          /\ life'[o] = "unlinked"
                                          /\ pend'[o] = p
      BY <1>1
    <2>1. PICK o \in Obj : Step(o)
      BY DEF Next
    <2>2. ~UNCHANGED <<fdt, file>>
      OBVIOUS
    <2>3. ~\E k \in Kind : makeSocket(o, k)
      BY DEF makeSocket
    <2>4. ~\E a \in Name : BindOK(o, a)
      BY <1>1, NameAssumption DEF BindOK, CanBind, IInv, TypeOK, Name
    <2>5. CASE \E c \in {"BIND", "CONNECT"}, a \in Path : setSocketUnlink(o, c, a)
      <3>1. PICK c \in {"BIND", "CONNECT"}, a \in Path : setSocketUnlink(o, c, a)
        BY <2>5
      <3>2. a = p
        BY <1>1, <3>1 DEF setSocketUnlink, AtUnlink, IInv, TypeOK
      <3> QED
        BY <1>1, <3>1, <3>2 DEF setSocketUnlink, AtUnlink, IInv, TypeOK
    <2> QED
      BY <1>1, <2>1, <2>2, <2>3, <2>4, <2>5, StepKinds, CloseLeavesFile
  <1>2. IInv /\ [Next]_vars => [P]_vars
    BY <1>1
  <1> QED
    BY <1>2, Invariance, PTL DEF Spec, PathKept
=============================================================================
