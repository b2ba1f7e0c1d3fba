------------------------------ MODULE EventLoop ------------------------------
(***************************************************************************)
(* How a program stops a receive loop: Event (event.hpp), the loop(event)  *)
(* of Reply and Subscriber, and SignalFunc (signals.hpp) with a handler    *)
(* that calls event.clear().                                               *)
(*                                                                         *)
(* The loop's thread, the threads in event.wait(), the thread that calls   *)
(* set() and clear(), and the signals of the process interleave.  The      *)
(* flag is a std::atomic_flag, so each access is one step.                 *)
(***************************************************************************)
EXTENDS Primitives

CONSTANTS Waiter,      \* threads that call event.wait()
          Classes,     \* which loops: a subset of {"Reply", "Subscriber"}
          SockKinds,   \* over which sockets: a subset of {"UDP", "Unix"}
          Signal,      \* signals of the process
          Uncatchable, \* SIGKILL and SIGSTOP
          MaxCallbacks, \* bound on the callbacks of a Subscriber
          MaxChanges,  \* bound on set() and clear() calls of the program
          MaxData      \* bound on datagrams

ASSUME LoopAssumption ==
    /\ Classes \subseteq {"Reply", "Subscriber"}
    /\ SockKinds \subseteq {"UDP", "Unix"}
    /\ Uncatchable \subseteq Signal
ASSUME LoopBounds ==
    MaxCallbacks \in Nat /\ MaxChanges \in Nat /\ MaxData \in Nat

VARIABLES
    class, kind, \* the class whose loop runs, and its socket
    timed,       \* did the program call settimeout() or setnonblocking()?
    callbacks,   \* how many callbacks register_cb() was given before loop()
    flag,        \* the member flag of Event
    loop,        \* where the loop's thread is
    turn,        \* the callback that runs, by its place; 0 when none does
    queue,       \* datagrams in the socket's receive queue
    taken,       \* history: datagrams received since the flag was cleared
    late,        \* history: callbacks begun since the flag was cleared
    waiter,      \* [Waiter -> where the thread is in wait()]
    val,         \* [Waiter -> BOOLEAN]: wait()'s argument
    enabled,     \* the member of SignalFunc
    caught,      \* signals whose disposition is the handler
    changes,     \* set() and clear() calls so far
    arrived      \* datagrams so far

vars == <<class, kind, timed, callbacks, flag, loop, turn, queue, taken, late,
          waiter, val, enabled, caught, changes, arrived>>
fixed == <<class, kind, timed, callbacks>>
history == <<taken, late>>
waitVars == <<waiter, val>>
signalVars == <<enabled, caught>>

LoopAt == {"outside", "test", "entering", "recv", "callback", "done", "threw", "killed"}
Running == loop \in {"test", "entering", "recv", "callback"}
Ended == loop \in {"done", "threw", "killed"}

(* Reply keeps one callback, if any; Subscriber all it is given.           *)
MayRegister(c) == IF c = "Reply" THEN {0, 1} ELSE 0 .. MaxCallbacks

(* The type invariant: every variable has the form its comment gives.      *)
TypeOK ==
    /\ class \in Classes /\ kind \in SockKinds /\ timed \in BOOLEAN
    /\ callbacks \in MayRegister(class)
    /\ flag \in BOOLEAN
    /\ loop \in LoopAt
    /\ turn \in 0 .. callbacks
    /\ queue \in 0 .. arrived
    /\ taken \in Nat /\ late \in Nat
    /\ waiter \in [Waiter -> {"outside", "check", "parked", "returned"}]
    /\ val \in [Waiter -> BOOLEAN]
    /\ enabled \in BOOLEAN
    /\ caught \subseteq Signal \ Uncatchable
    /\ changes \in 0 .. MaxChanges
    /\ arrived \in 0 .. MaxData

Init ==
    /\ class \in Classes /\ kind \in SockKinds /\ timed \in BOOLEAN
    /\ callbacks \in MayRegister(class)
    /\ flag = FALSE
    /\ loop = "outside"
    /\ turn = 0
    /\ queue = 0
    /\ taken = 0 /\ late = 0
    /\ waiter = [w \in Waiter |-> "outside"]
    /\ val = [w \in Waiter |-> FALSE]
    /\ enabled = FALSE
    /\ caught = {}
    /\ changes = 0
    /\ arrived = 0

Alive == loop # "killed"

-----------------------------------------------------------------------------
(* Event.                                                                  *)

(* flag.test_and_set() and flag.clear(): neither notifies a waiter.        *)
set ==
    /\ flag' = TRUE
    /\ taken' = 0 /\ late' = 0

clear ==
    /\ flag' = FALSE
    /\ UNCHANGED history

(* Some thread of the program calls set() or clear().                      *)
Change ==
    /\ Alive
    /\ changes < MaxChanges
    /\ set \/ clear
    /\ changes' = changes + 1
    /\ UNCHANGED <<fixed, loop, turn, queue, waitVars, signalVars, arrived>>

(* wait(val): flag.wait(val) of the standard library (external).  It       *)
(* returns when it finds the flag different from val, and sleeps otherwise.*)
(* So val is the value not to wait for, although event.hpp comments it     *)
(* with "block until value met".                                           *)
wait(w, v) ==
    /\ Alive
    /\ waiter[w] = "outside"
    /\ waiter' = [waiter EXCEPT ![w] = "check"]
    /\ val' = [val EXCEPT ![w] = v]
    /\ UNCHANGED <<fixed, flag, loop, turn, queue, history, signalVars, changes,
                   arrived>>

waitCheck(w) ==
    /\ Alive
    /\ waiter[w] = "check"
    /\ waiter' = [waiter EXCEPT ![w] = IF flag # val[w] THEN "returned" ELSE "parked"]
    /\ UNCHANGED <<fixed, flag, loop, turn, queue, history, val, signalVars, changes,
                   arrived>>

(* A sleeping thread may wake for no reason; nothing in marko wakes it.    *)
waitSpurious(w) ==
    /\ Alive
    /\ waiter[w] = "parked"
    /\ waiter' = [waiter EXCEPT ![w] = "check"]
    /\ UNCHANGED <<fixed, flag, loop, turn, queue, history, val, signalVars, changes,
                   arrived>>

(* The caller of wait() goes on.                                           *)
waitReturn(w) ==
    /\ Alive
    /\ waiter[w] = "returned"
    /\ waiter' = [waiter EXCEPT ![w] = "outside"]
    /\ UNCHANGED <<fixed, flag, loop, turn, queue, history, val, signalVars, changes,
                   arrived>>

-----------------------------------------------------------------------------
(* loop(event): while (event.is_set()) once();                             *)

LoopTo(at) ==
    /\ loop' = at
    /\ UNCHANGED <<fixed, flag, waitVars, signalVars, changes, arrived>>

loopCall ==
    /\ loop = "outside"
    /\ LoopTo("test")
    /\ UNCHANGED <<turn, queue, history>>

\* Mutant: the flag is tested once, when the loop is entered.
MutTestOnce ==
    /\ loop = "test"
    /\ LoopTo("entering")
    /\ UNCHANGED <<turn, queue, history>>

(* The thread has read the flag when it enters the receive.                *)
loopTest ==
    /\ loop = "test"
    /\ LoopTo(IF flag THEN "entering" ELSE "done")
    /\ UNCHANGED <<turn, queue, history>>

onceEnter ==
    /\ loop = "entering"
    /\ LoopTo("recv")
    /\ UNCHANGED <<turn, queue, history>>

(* The i-th callback begins; nothing looks at the flag before it.          *)
Begin(i) ==
    /\ turn' = i
    /\ late' = IF flag THEN 0 ELSE late + 1

Take ==
    /\ loop = "recv"
    /\ queue > 0
    /\ queue' = queue - 1
    /\ taken' = IF flag THEN 0 ELSE taken + 1

(* The receive returns a message and the first callback begins.            *)
onceReceive ==
    /\ Take
    /\ callbacks > 0
    /\ Begin(1)
    /\ LoopTo("callback")

(* No callback is registered: Subscriber's loop over them is over at once, *)
(* Reply's empty std::function throws bad_function_call.                   *)
onceNoCallback ==
    /\ Take
    /\ callbacks = 0
    /\ LoopTo(IF class = "Reply" THEN "threw" ELSE "test")
    /\ UNCHANGED <<turn, late>>

(* The datagram is empty: once() returns.                                  *)
onceEmpty ==
    /\ Take
    /\ LoopTo("test")
    /\ UNCHANGED <<turn, late>>

(* What a receive that returns -1 makes of the loop.  Reply calls          *)
(* recvfrom(), Subscriber recv(): SocketUnix::recv throws.                 *)
AfterError ==
    IF RecvThrows(kind, IF class = "Subscriber" THEN "recv" ELSE "recvfrom",
                  SOCKET_TIMEOUT)
    THEN "threw" ELSE "test"

(* The receive times out.                                                  *)
onceTimeOut ==
    /\ loop = "recv"
    /\ timed
    /\ queue = 0
    /\ LoopTo(AfterError)
    /\ UNCHANGED <<turn, queue, history>>

(* The callback returns and the next one begins, with the same message.    *)
onceNext ==
    /\ loop = "callback"
    /\ turn < callbacks
    /\ Begin(turn + 1)
    /\ UNCHANGED <<queue, taken>>
    /\ LoopTo("callback")

\* Mutant: once() handles all that is queued before it returns.
MutDrain ==
    /\ loop = "callback"
    /\ turn = callbacks
    /\ turn' = 0
    /\ LoopTo(IF queue > 0 THEN "recv" ELSE "test")
    /\ UNCHANGED <<queue, history>>

(* The last callback returns; Reply sends its answer, which cannot throw   *)
(* (SendtoThrows).                                                         *)
onceReturn ==
    /\ loop = "callback"
    /\ turn = callbacks
    /\ turn' = 0
    /\ LoopTo("test")
    /\ UNCHANGED <<queue, history>>

(* A datagram arrives (external).                                          *)
Arrive ==
    /\ Alive
    /\ arrived < MaxData
    /\ arrived' = arrived + 1
    /\ queue' = queue + 1
    /\ UNCHANGED <<fixed, flag, loop, turn, history, waitVars, signalVars, changes>>

-----------------------------------------------------------------------------
(* Signals.                                                                *)

\* Mutant: SIGKILL and SIGSTOP are not refused.
MutAnySignal(signum) ==
    /\ Alive
    /\ ~enabled
    /\ enabled' = TRUE
    /\ caught' = caught \cup {signum}
    /\ UNCHANGED <<fixed, flag, loop, turn, queue, history, waitVars, changes, arrived>>

(* SignalFunc::enable(f, signum).  Once enabled the object ignores further *)
(* calls; SIGKILL and SIGSTOP throw.  Neither changes anything.            *)
enable(signum) ==
    /\ Alive
    /\ ~enabled
    /\ signum \notin Uncatchable
    /\ enabled' = TRUE
    /\ caught' = caught \cup {signum}
    /\ UNCHANGED <<fixed, flag, loop, turn, queue, history, waitVars, changes, arrived>>

(* A signal with the handler installed: f calls event.clear().  If the     *)
(* loop's thread runs the handler while it sleeps in the receive, sa_flags *)
(* = 0 makes that return -1 (EINTR); a thread that has only tested the     *)
(* flag goes on into the receive.                                          *)
HandlerElsewhere ==
    /\ Alive
    /\ caught # {}
    /\ clear
    /\ UNCHANGED <<fixed, loop, turn, queue, waitVars, signalVars, changes, arrived>>

HandlerInRecv ==
    /\ loop = "recv"
    /\ queue = 0
    /\ caught # {}
    /\ clear
    /\ loop' = AfterError
    /\ UNCHANGED <<fixed, turn, queue, waitVars, signalVars, changes, arrived>>

(* A signal that is not caught ends the process.                           *)
Kill ==
    /\ Alive
    /\ Signal \ caught # {}
    /\ loop' = "killed"
    /\ UNCHANGED <<fixed, flag, turn, queue, history, waitVars, signalVars, changes,
                   arrived>>

-----------------------------------------------------------------------------
Next ==
    \/ Change
    \/ \E w \in Waiter, v \in BOOLEAN : wait(w, v)
    \/ \E w \in Waiter : waitCheck(w)
    \/ \E w \in Waiter : waitSpurious(w)
    \/ \E w \in Waiter : waitReturn(w)
    \/ loopCall
    \/ loopTest
    \/ onceEnter
    \/ onceReceive
    \/ onceNoCallback
    \/ onceEmpty
    \/ onceTimeOut
    \/ onceNext
    \/ onceReturn
    \/ Arrive
    \/ \E g \in Signal : enable(g)
    \/ HandlerElsewhere
    \/ HandlerInRecv
    \/ Kill

(* Threads that can run do.  A spurious wake-up need not happen.           *)
Fairness ==
    /\ WF_vars(loopTest)
    /\ WF_vars(onceEnter)
    /\ WF_vars(onceReceive \/ onceNoCallback \/ onceEmpty \/ onceTimeOut)
    /\ WF_vars(onceNext \/ onceReturn)
    /\ \A w \in Waiter : WF_vars(waitCheck(w))

Spec == Init /\ [][Next]_vars

FairSpec == Spec /\ Fairness

-----------------------------------------------------------------------------
(* Properties.                                                             *)

(* After clear() and before set() is called, at most one more datagram is  *)
(* received, by the receive that had passed the test of the flag, and the  *)
(* callbacks that begin are those of one message: all that are registered  *)
(* if it was received after clear(), all but the first if it was received  *)
(* before.                                                                 *)
OneLateMessage ==
    ~flag => /\ taken <= 1
             /\ late > 0 => late < callbacks + taken

(* clear() ends the loop unless it sleeps in a receive without a timeout:  *)
(* with one the loop ends from wherever it is, and without one it ends if  *)
(* the flag is clear when it is awake and past the receive.                *)
ClearStopsLoop ==
    (~flag /\ (loop \in {"test", "callback"} \/ (Running /\ timed)))
        ~> (Ended \/ flag)

(* The inductive invariant behind OneLateMessage: nothing is late before   *)
(* clear(), nor while the thread is between its test of the flag and the   *)
(* datagram it waits for, and of the callbacks begun with a message those  *)
(* that are late are at most the ones up to the one that runs.             *)
LateOnlyAfterRecv ==
    /\ taken <= 1
    /\ flag \/ loop \in {"entering", "recv"} => late = 0 /\ taken = 0
    /\ loop = "callback" => turn > 0 /\ late < turn + taken
    /\ late > 0 => late < callbacks + taken

IInv == TypeOK /\ LateOnlyAfterRecv

-----------------------------------------------------------------------------
(* What the repository says of the program and the code does not do.       *)

(* event.hpp: "A version of python's Event class", whose wait() returns    *)
(* once set() is called.  Not so: a thread that sleeps in wait(false) is   *)
(* not woken, although the flag stays set.                                 *)
SetWakesWaiter ==
    \A w \in Waiter :
        (waiter[w] = "parked" /\ ~val[w] /\ flag)
            ~> (waiter[w] # "parked" \/ ~flag \/ ~Alive)
=============================================================================
