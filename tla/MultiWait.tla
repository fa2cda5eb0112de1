----------------------------- MODULE MultiWait -----------------------------
(***************************************************************************)
(* kernel/wait.c, wait.h, uevent.c and utimer.c: threads wait with         *)
(* waitObjects on arrays of kernel handles, user-mode events and user-mode *)
(* timers, while other threads signal, clear, start and stop them.         *)
(*                                                                         *)
(* A waitable has a mutex (its critical sections are one step each, which  *)
(* MutexCondVar justifies, except the walk over its listeners) and a       *)
(* circular list of WaiterNodes that live on the stacks of the waiting     *)
(* threads.  The list is kept at the level of its pointers: the head of    *)
(* the list of waitable w is w, the node of element k of the array thread  *)
(* t waits on is <<t, k>>.                                                 *)
(*                                                                         *)
(* svcWaitSynchronization, svcCancelSynchronization and svcResetSignal are *)
(* not part of the repository and are modelled from their use.             *)
(***************************************************************************)
EXTENDS Integers, Sequences, FiniteSets

CONSTANTS
  Threads,     (* threads that wait                                        *)
  Signallers,  (* threads that signal                                      *)
  Nobody,      (* owner of a free mutex                                    *)
  Events,      (* UEvents                                                  *)
  Timers,      (* UTimers                                                  *)
  Handles,     (* kernel handles                                           *)
  AutoClear,   (* UEvents with auto_clear, and handles that are waited on  *)
               (* as WaiterType_HandleWithClear                            *)
  Repeating,   (* timers of type TimerType_Repeating                       *)
  Interval,    (* interval of each timer, in ticks                         *)
  WaitArrays,  (* the arrays of objects a thread passes to waitObjects     *)
  Timeouts,    (* the timeouts passed, in ticks; Forever is UINT64_MAX     *)
  Forever,
  MaxWaitObjects, (* MAX_WAIT_OBJECTS                                      *)
  Shared,      (* may two waits listen on one waitable at the same time?   *)
  WeakFails,   (* may the weak compare-exchange fail spuriously?           *)
  MaxTime      (* bound on the system tick                                 *)

Waitables == Events \cup Timers
Objects == Waitables \cup Handles

(* What a list is made of: its head and the nodes in the frames. *)
Nodes == Threads \X (1 .. MaxWaitObjects)
Links == Waitables \cup Nodes

ASSUME MultiWaitAssumption ==
  /\ Nobody \notin Threads \cup Signallers
  /\ Threads \cap Signallers = {}
  /\ Events \cap Timers = {} /\ Handles \cap Waitables = {}
  /\ Waitables \cap Nodes = {} /\ Nobody \notin Waitables \cup Nodes
  /\ AutoClear \subseteq Events \cup Handles /\ Repeating \subseteq Timers
  /\ Interval \in [Timers -> Nat \ {0}]
  /\ WaitArrays \subseteq Seq(Objects)
  /\ Timeouts \subseteq Nat \cup {Forever} /\ Forever \notin Int
  /\ MaxWaitObjects \in Nat /\ MaxTime \in Nat
  /\ Shared \in BOOLEAN /\ WeakFails \in BOOLEAN

VARIABLES
  now,       (* armGetSystemTick()                                         *)
  pc,        (* where each waiting thread is                               *)
  frame,     (* its local variables                                        *)
  trig,      (* its triggered_idx, written by other threads; 0 is -1       *)
  cancel,    (* a svcCancelSynchronization has come while it did not wait  *)
  signal,    (* UEvent.signal                                              *)
  started,   (* UTimer.started                                             *)
  nextTick,  (* UTimer.next_tick                                           *)
  hsig,      (* kernel objects that are signalled                          *)
  mutex,     (* owner of the mutex of each waitable                        *)
  next,      (* WaitableNode.next and .prev of list heads and nodes        *)
  prev,
  walker     (* what each signalling thread is doing                       *)

waiting == <<pc, frame, trig, cancel>>
objects == <<signal, started, nextTick>>
lists == <<next, prev>>
vars == <<now, waiting, objects, hsig, mutex, lists, walker>>

(* Local variables of _waitLoop (deadline) and _waitObjectsImpl, with      *)
(* indices from 1.  endIdx = 0 is end_tick_idx = -1; wakeAt is when the    *)
(* kernel ends the wait.                                                   *)
NoFrame ==
  [objects |-> <<>>, deadline |-> Forever, i |-> 0, added |-> {},
   curTick |-> 0, endTick |-> Forever, endIdx |-> 0, wakeAt |-> Forever,
   rc |-> "none", idx |-> 0]

Idle == [at |-> "out", list |-> Nobody, node |-> Nobody]

Init ==
  /\ now = 0
  /\ pc = [t \in Threads |-> "out"]
  /\ frame = [t \in Threads |-> NoFrame]
  /\ trig = [t \in Threads |-> 0]
  /\ cancel = [t \in Threads |-> FALSE]
  /\ signal = [e \in Events |-> FALSE]
  /\ started = [m \in Timers |-> FALSE]
  /\ nextTick = [m \in Timers |-> 0]
  /\ hsig = {}
  /\ mutex = [w \in Waitables |-> Nobody]
  /\ next = [n \in Links |-> n]
  /\ prev = [n \in Links |-> n]
  /\ walker = [s \in Signallers |-> Idle]

-----------------------------------------------------------------------------
(* Reading the state of a wait.                                            *)

Array(t) == frame[t].objects
Listens(t, w) == \E k \in DOMAIN Array(t) : Array(t)[k] = w

Earlier(a, b) == a # Forever /\ (b = Forever \/ a < b)

Goto(t, label) == pc' = [pc EXCEPT ![t] = label]

(* The frame of t leaves the wait proper with result rc for element idx    *)
(* and starts to remove its listeners.                                     *)
Finish(t, rc, idx) ==
  /\ frame' = [frame EXCEPT ![t].rc = rc, ![t].idx = idx]
  /\ Goto(t, "clean")

(* _waiterNodeAdd, which leaves the prev of the old first node alone.      *)
NodeAdd(n, w) ==
  /\ next' = [next EXCEPT ![n] = next[w], ![w] = n]
  /\ prev' = [prev EXCEPT ![n] = w]

(* _waiterNodeRemove inside its critical section. *)
NodeRemove(n) ==
  LET unlinked == [next EXCEPT ![prev[n]] = next[n]] IN
  /\ next' = unlinked
  /\ prev' = [prev EXCEPT ![unlinked[n]] = prev[n]]

(* _utimerRecalculate *)
CeilDiv(a, b) == (a + b - 1) \div b

(* BadX is a broken form of X, against which the properties are tested:    *)
(* here the next interval starts when the timer is looked at.              *)
BadRecalculate(m, old) ==
  IF started[m] /\ nextTick[m] = old /\ m \in Repeating
    THEN /\ nextTick' = [nextTick EXCEPT ![m] = now + Interval[m]]
         /\ UNCHANGED started
    ELSE UNCHANGED <<started, nextTick>>

Recalculate(m, old) ==
  IF started[m] /\ nextTick[m] = old
    THEN IF m \in Repeating
           THEN /\ nextTick' = [nextTick EXCEPT
                     ![m] = old + CeilDiv(now - old, Interval[m]) * Interval[m]]
                /\ UNCHANGED started
           ELSE /\ started' = [started EXCEPT ![m] = FALSE]
                /\ nextTick' = [nextTick EXCEPT ![m] = 0]
    ELSE UNCHANGED <<started, nextTick>>

-----------------------------------------------------------------------------
(* waitObjects *)

WaitCall(t, array, timeout) ==
  /\ pc[t] = "out"
  /\ Shared \/ \A u \in Threads \ {t} : \A k \in DOMAIN array :
                 array[k] \in Waitables => ~Listens(u, array[k])
  /\ frame' = [frame EXCEPT ![t] =
                 [NoFrame EXCEPT !.objects = array,
                                 !.deadline = IF timeout = Forever
                                                THEN Forever ELSE now + timeout]]
  /\ Goto(t, "loop")
  /\ UNCHANGED <<now, trig, cancel, objects, hsig, mutex, lists, walker>>

(* One turn of _waitLoop: the time that remains, and a fresh frame of      *)
(* _waitObjectsImpl.                                                       *)
LoopTurn(t) ==
  /\ pc[t] = "loop"
  /\ LET f == frame[t]
         remaining == IF f.deadline = Forever THEN Forever
                      ELSE IF f.deadline > now THEN f.deadline - now ELSE 0
     IN IF Len(f.objects) > MaxWaitObjects
          THEN Finish(t, "OutOfRange", 0) /\ UNCHANGED trig
          ELSE /\ frame' = [frame EXCEPT ![t] =
                              [NoFrame EXCEPT !.objects = f.objects,
                                              !.deadline = f.deadline, !.i = 1,
                                              !.curTick = now,
                                              !.endTick = remaining]]
               /\ trig' = [trig EXCEPT ![t] = 0]
               /\ Goto(t, "begin")
  /\ UNCHANGED <<now, cancel, objects, hsig, mutex, lists, walker>>

(* The element at i is a handle: nothing to do before the system call. *)
BeginHandle(t) ==
  /\ pc[t] = "begin" /\ frame[t].i \in DOMAIN Array(t)
  /\ Array(t)[frame[t].i] \in Handles
  /\ frame' = [frame EXCEPT ![t].i = @ + 1]
  /\ UNCHANGED <<now, pc, trig, cancel, objects, hsig, mutex, lists, walker>>

(* The node of element i joins the list and the loop goes on. *)
Listen(t, w) ==
  NodeAdd(<<t, frame[t].i>>, w)

(* A signalled event returns at once and leaves the listeners behind. *)
BadBeginEvent(t) ==
  LET i == frame[t].i IN
  /\ pc[t] = "begin" /\ i \in DOMAIN Array(t)
  /\ LET e == Array(t)[i] IN
     /\ e \in Events /\ mutex[e] = Nobody
     /\ IF signal[e]
          THEN /\ frame' = [frame EXCEPT ![t] =
                              [NoFrame EXCEPT !.objects = Array(t), !.rc = "ok"]]
               /\ Goto(t, "clean") /\ UNCHANGED lists
          ELSE /\ Listen(t, e)
               /\ frame' = [frame EXCEPT ![t].i = i + 1, ![t].added = @ \cup {i}]
               /\ UNCHANGED pc
  /\ UNCHANGED <<now, trig, cancel, signal, started, nextTick, hsig, mutex, walker>>

(* _ueventBeginWait *)
BeginEvent(t) ==
  LET i == frame[t].i IN
  /\ pc[t] = "begin" /\ i \in DOMAIN Array(t)
  /\ LET e == Array(t)[i] IN
     /\ e \in Events /\ mutex[e] = Nobody
     /\ \/ /\ signal[e]
           /\ signal' = [signal EXCEPT ![e] = e \notin AutoClear]
           /\ Finish(t, "ok", i)
           /\ UNCHANGED lists
        \/ /\ ~signal[e]
           /\ Listen(t, e)
           /\ frame' = [frame EXCEPT ![t].i = i + 1, ![t].added = @ \cup {i}]
           /\ UNCHANGED <<signal, pc>>
  /\ UNCHANGED <<now, trig, cancel, started, nextTick, hsig, mutex, walker>>

(* An overdue timer is not noticed, and its time goes negative. *)
BadBeginTimer(t) ==
  LET f == frame[t] IN
  /\ pc[t] = "begin" /\ f.i \in DOMAIN Array(t)
  /\ LET m == Array(t)[f.i]
         diff == IF started[m] THEN nextTick[m] - f.curTick ELSE Forever
     IN
     /\ m \in Timers /\ mutex[m] = Nobody
     /\ Listen(t, m)
     /\ frame' = [frame EXCEPT
           ![t].i = @ + 1,
           ![t].added = @ \cup {f.i},
           ![t].endTick = IF Earlier(diff, f.endTick) THEN diff ELSE @,
           ![t].endIdx = IF Earlier(diff, f.endTick) THEN f.i ELSE @]
  /\ UNCHANGED <<now, pc, trig, cancel, objects, hsig, mutex, walker>>

(* _utimerBeginWait; a timer that is due ends the wait, another one may    *)
(* bring its end forward.                                                  *)
BeginTimer(t) ==
  LET f == frame[t] IN
  /\ pc[t] = "begin" /\ f.i \in DOMAIN Array(t)
  /\ LET m == Array(t)[f.i]
         diff == IF started[m] THEN nextTick[m] - f.curTick ELSE Forever
     IN
     /\ m \in Timers /\ mutex[m] = Nobody
     /\ \/ /\ started[m] /\ diff < 0
           /\ Recalculate(m, nextTick[m])
           /\ Finish(t, "ok", f.i)
           /\ UNCHANGED lists
        \/ /\ started[m] => diff >= 0
           /\ Listen(t, m)
           /\ frame' = [frame EXCEPT
                 ![t].i = @ + 1,
                 ![t].added = @ \cup {f.i},
                 ![t].endTick = IF Earlier(diff, f.endTick) THEN diff ELSE @,
                 ![t].endIdx = IF Earlier(diff, f.endTick) THEN f.i ELSE @]
           /\ UNCHANGED <<pc, started, nextTick>>
  /\ UNCHANGED <<now, trig, cancel, signal, hsig, mutex, walker>>

-----------------------------------------------------------------------------
(* The system call.                                                        *)

(* The elements of the array of t whose kernel object is signalled. *)
Ready(t) == {k \in DOMAIN Array(t) : Array(t)[k] \in hsig}

Lowest(S) == CHOOSE k \in S : \A j \in S : k <= j

Wake(t, rc, idx) ==
  /\ frame' = [frame EXCEPT ![t].rc = rc, ![t].idx = idx]
  /\ Goto(t, "woken")

(* svcWaitSynchronization: a signalled object, then a zero timeout, then a *)
(* cancellation that has come before, then sleep.                          *)
WaitSynchronization(t) ==
  /\ pc[t] = "begin" /\ frame[t].i = Len(Array(t)) + 1
  /\ \/ /\ Ready(t) # {}
        /\ Wake(t, "ok", Lowest(Ready(t)))
        /\ UNCHANGED cancel
     \/ /\ Ready(t) = {} /\ frame[t].endTick = 0
        /\ Wake(t, "TimedOut", 0)
        /\ UNCHANGED cancel
     \/ /\ Ready(t) = {} /\ frame[t].endTick # 0 /\ cancel[t]
        /\ Wake(t, "Cancelled", 0)
        /\ cancel' = [cancel EXCEPT ![t] = FALSE]
     \/ /\ Ready(t) = {} /\ frame[t].endTick # 0 /\ ~cancel[t]
        /\ frame' = [frame EXCEPT ![t].wakeAt = IF frame[t].endTick = Forever
                                    THEN Forever ELSE now + frame[t].endTick]
        /\ Goto(t, "blocked")
        /\ UNCHANGED cancel
  /\ UNCHANGED <<now, trig, objects, hsig, mutex, lists, walker>>

(* The kernel ends a wait whose time is over. *)
KernelTimeout(t) ==
  /\ pc[t] = "blocked"
  /\ frame[t].wakeAt # Forever /\ frame[t].wakeAt <= now
  /\ Wake(t, "TimedOut", 0)
  /\ UNCHANGED <<now, trig, cancel, objects, hsig, mutex, lists, walker>>

(* A kernel object is signalled, which ends every wait on it. *)
SignalHandle(h) ==
  /\ h \notin hsig
  /\ hsig' = hsig \cup {h}
  /\ LET woken == {t \in Threads : pc[t] = "blocked" /\ Listens(t, h)} IN
     /\ pc' = [t \in Threads |-> IF t \in woken THEN "woken" ELSE pc[t]]
     /\ frame' = [t \in Threads |->
          IF t \in woken
            THEN [frame[t] EXCEPT !.rc = "ok", !.idx =
                    Lowest({k \in DOMAIN Array(t) : Array(t)[k] = h})]
            ELSE frame[t]]
  /\ UNCHANGED <<now, trig, cancel, objects, mutex, lists, walker>>

-----------------------------------------------------------------------------
(* After the system call.                                                  *)

(* A handle: HandleWithClear is reset, and if somebody else has reset it   *)
(* since, the wait starts over.                                            *)
AfterSignalled(t) ==
  /\ pc[t] = "woken" /\ frame[t].rc = "ok"
  /\ LET h == Array(t)[frame[t].idx] IN
     /\ Finish(t, IF h \in AutoClear /\ h \notin hsig THEN "Cancelled" ELSE "ok",
               frame[t].idx)
     /\ hsig' = hsig \ ({h} \cap AutoClear)
  /\ UNCHANGED <<now, trig, cancel, objects, mutex, lists, walker>>

(* The timeout of the caller, or _utimerOnTimeout. *)
AfterTimeout(t) ==
  LET f == frame[t] IN
  /\ pc[t] = "woken" /\ f.rc = "TimedOut"
  /\ \/ /\ f.endIdx = 0
        /\ Finish(t, "TimedOut", f.idx)
        /\ UNCHANGED <<started, nextTick>>
     \/ /\ f.endIdx # 0 /\ mutex[Array(t)[f.endIdx]] = Nobody
        /\ Recalculate(Array(t)[f.endIdx], f.endTick + f.curTick)
        /\ Finish(t, "ok", f.endIdx)
  /\ UNCHANGED <<now, trig, cancel, signal, hsig, mutex, lists, walker>>

(* _ueventOnSignal without a second look at signal. *)
BadAfterCancelled(t) ==
  /\ pc[t] = "woken" /\ frame[t].rc = "Cancelled"
  /\ IF trig[t] # 0 /\ Array(t)[trig[t]] \in Events
       THEN LET e == Array(t)[trig[t]] IN
            /\ mutex[e] = Nobody
            /\ Finish(t, "ok", trig[t])
            /\ signal' = [signal EXCEPT ![e] = @ /\ e \notin AutoClear]
       ELSE Finish(t, "Cancelled", 0) /\ UNCHANGED signal
  /\ UNCHANGED <<now, trig, cancel, started, nextTick, hsig, mutex, lists, walker>>

(* A cancellation nobody signed, _ueventOnSignal or _utimerOnSignal. *)
AfterCancelled(t) ==
  /\ pc[t] = "woken" /\ frame[t].rc = "Cancelled"
  /\ IF trig[t] # 0 /\ Array(t)[trig[t]] \in Events
       THEN LET e == Array(t)[trig[t]] IN
            /\ mutex[e] = Nobody
            /\ IF e \in AutoClear /\ ~signal[e]
                 THEN Finish(t, "Cancelled", 0)
                 ELSE Finish(t, "ok", trig[t])
            /\ signal' = [signal EXCEPT ![e] = @ /\ e \notin AutoClear]
       ELSE Finish(t, "Cancelled", 0) /\ UNCHANGED signal
  /\ UNCHANGED <<now, trig, cancel, started, nextTick, hsig, mutex, lists, walker>>

(* clean_up: listeners leave one after the other. *)
RemoveListener(t) ==
  /\ pc[t] = "clean" /\ frame[t].added # {}
  /\ LET i == Lowest(frame[t].added) IN
     /\ mutex[Array(t)[i]] = Nobody
     /\ NodeRemove(<<t, i>>)
     /\ frame' = [frame EXCEPT ![t].added = @ \ {i}]
  /\ UNCHANGED <<now, pc, trig, cancel, objects, hsig, mutex, walker>>

(* _waitLoop goes round again after a cancellation, and returns otherwise. *)
LoopAgain(t) ==
  /\ pc[t] = "clean" /\ frame[t].added = {} /\ frame[t].rc = "Cancelled"
  /\ Goto(t, "loop")
  /\ UNCHANGED <<now, frame, trig, cancel, objects, hsig, mutex, lists, walker>>

Return(t) ==
  /\ pc[t] = "clean" /\ frame[t].added = {} /\ frame[t].rc # "Cancelled"
  /\ Goto(t, "out")
  /\ frame' = [frame EXCEPT ![t] = NoFrame]
  /\ trig' = [trig EXCEPT ![t] = 0]
  /\ UNCHANGED <<now, cancel, objects, hsig, mutex, lists, walker>>

-----------------------------------------------------------------------------
(* ueventSignal, ueventClear, utimerStart, utimerStop *)

StartWalk(s, w) ==
  /\ walker[s] = Idle /\ mutex[w] = Nobody
  /\ mutex' = [mutex EXCEPT ![w] = s]
  /\ walker' = [walker EXCEPT ![s] = [at |-> "walk", list |-> w, node |-> w]]

(* ueventSignal and utimerStart that tell no listener. *)
BadSignal(s, e) ==
  /\ walker[s] = Idle /\ mutex[e] = Nobody
  /\ signal' = [signal EXCEPT ![e] = TRUE]
  /\ UNCHANGED <<now, waiting, started, nextTick, hsig, mutex, lists, walker>>

BadStart(s, m) ==
  /\ ~started[m] /\ walker[s] = Idle /\ mutex[m] = Nobody
  /\ started' = [started EXCEPT ![m] = TRUE]
  /\ nextTick' = [nextTick EXCEPT ![m] = now + Interval[m]]
  /\ UNCHANGED <<now, waiting, signal, hsig, mutex, lists, walker>>

Signal(s, e) ==
  /\ StartWalk(s, e)
  /\ signal' = [signal EXCEPT ![e] = TRUE]
  /\ UNCHANGED <<now, waiting, started, nextTick, hsig, lists>>

Clear(s, e) ==
  /\ walker[s] = Idle /\ mutex[e] = Nobody
  /\ signal' = [signal EXCEPT ![e] = FALSE]
  /\ UNCHANGED <<now, waiting, started, nextTick, hsig, mutex, lists, walker>>

Start(s, m) ==
  /\ ~started[m]
  /\ StartWalk(s, m)
  /\ started' = [started EXCEPT ![m] = TRUE]
  /\ nextTick' = [nextTick EXCEPT ![m] = now + Interval[m]]
  /\ UNCHANGED <<now, waiting, signal, hsig, lists>>

Stop(s, m) ==
  /\ started[m]
  /\ StartWalk(s, m)
  /\ started' = [started EXCEPT ![m] = FALSE]
  /\ nextTick' = [nextTick EXCEPT ![m] = 0]
  /\ UNCHANGED <<now, waiting, signal, hsig, lists>>

(* _waitableSignalAllListeners: the next node, its compare-exchange on the *)
(* triggered_idx of the listener, and the cancellation if it succeeded.    *)
WalkNode(s) ==
  LET a == walker[s]
      n == next[a.node]
  IN
  /\ a.at = "walk" /\ n # a.list
  /\ \/ /\ trig[n[1]] = 0
        /\ trig' = [trig EXCEPT ![n[1]] = n[2]]
        /\ walker' = [walker EXCEPT ![s].at = "cancel", ![s].node = n]
     \/ /\ trig[n[1]] # 0 \/ WeakFails
        /\ walker' = [walker EXCEPT ![s].node = n]
        /\ UNCHANGED trig
  /\ UNCHANGED <<now, pc, frame, cancel, objects, hsig, mutex, lists>>

WalkEnd(s) ==
  LET a == walker[s] IN
  /\ a.at = "walk" /\ next[a.node] = a.list
  /\ mutex' = [mutex EXCEPT ![a.list] = Nobody]
  /\ walker' = [walker EXCEPT ![s] = Idle]
  /\ UNCHANGED <<now, waiting, objects, hsig, lists>>

(* svcCancelSynchronization ends the wait of a thread, or its next one. *)
CancelSynchronization(s) ==
  LET t == walker[s].node[1] IN
  /\ walker[s].at = "cancel"
  /\ walker' = [walker EXCEPT ![s].at = "walk"]
  /\ IF pc[t] = "blocked"
       THEN Wake(t, "Cancelled", 0) /\ UNCHANGED cancel
       ELSE cancel' = [cancel EXCEPT ![t] = TRUE] /\ UNCHANGED <<pc, frame>>
  /\ UNCHANGED <<now, trig, objects, hsig, mutex, lists>>

Tick ==
  /\ now < MaxTime
  /\ now' = now + 1
  /\ UNCHANGED <<waiting, objects, hsig, mutex, lists, walker>>

-----------------------------------------------------------------------------
WaitStep(t) ==
  \/ LoopTurn(t) \/ BeginHandle(t) \/ BeginEvent(t) \/ BeginTimer(t)
  \/ WaitSynchronization(t) \/ KernelTimeout(t)
  \/ AfterSignalled(t) \/ AfterTimeout(t) \/ AfterCancelled(t)
  \/ RemoveListener(t) \/ LoopAgain(t) \/ Return(t)

WalkStep(s) == WalkNode(s) \/ WalkEnd(s) \/ CancelSynchronization(s)

Next ==
  \/ Tick
  \/ \E t \in Threads :
       \/ WaitStep(t)
       \/ \E array \in WaitArrays, timeout \in Timeouts : WaitCall(t, array, timeout)
  \/ \E s \in Signallers :
       \/ WalkStep(s)
       \/ \E e \in Events : Signal(s, e) \/ Clear(s, e)
       \/ \E m \in Timers : Start(s, m) \/ Stop(s, m)
  \/ \E h \in Handles : SignalHandle(h)

Spec == Init /\ [][Next]_vars

(* Threads are scheduled, mutexes do not starve them, and time goes on.    *)
Fairness ==
  /\ WF_vars(Tick)
  /\ \A t \in Threads : SF_vars(WaitStep(t))
  /\ \A s \in Signallers : WF_vars(WalkStep(s))

FairSpec == Spec /\ Fairness

-----------------------------------------------------------------------------
Times == Nat \cup {Forever}

(* The type of every variable. *)
TypeOK ==
  /\ now \in 0 .. MaxTime
  /\ pc \in [Threads -> {"out", "loop", "begin", "blocked", "woken", "clean"}]
  /\ \A t \in Threads :
       /\ Array(t) \in WaitArrays \cup {<<>>}
       /\ frame[t].added \subseteq DOMAIN Array(t)
       /\ frame[t].endIdx \in {0} \cup DOMAIN Array(t)
       /\ frame[t].endTick \in Times /\ frame[t].wakeAt \in Times
       /\ trig[t] \in {0} \cup DOMAIN Array(t)
  /\ cancel \in [Threads -> BOOLEAN]
  /\ signal \in [Events -> BOOLEAN] /\ started \in [Timers -> BOOLEAN]
  /\ nextTick \in [Timers -> Nat]
  /\ hsig \subseteq Handles
  /\ mutex \in [Waitables -> Signallers \cup {Nobody}]
  /\ next \in [Links -> Links] /\ prev \in [Links -> Links]

(* The nodes that should be on the list of w: those of waits that have     *)
(* added their listener and not removed it.                                *)
Live(w) ==
  {n \in Nodes : n[2] \in frame[n[1]].added /\ Array(n[1])[n[2]] = w}

(* The list of a waitable holds the nodes of the waits that listen on it   *)
(* and no others, above all none on the stack of a wait that has returned. *)
ListSound ==
  \A w \in Waitables :
    /\ \A x \in {w} \cup Live(w) : next[x] \in {w} \cup Live(w)
    /\ \A n \in Live(w) : prev[n] \in {w} \cup Live(w) /\ next[prev[n]] = n

(* A listener that should hear of w will: its node is still ahead of a     *)
(* walk over the list, or a cancellation of its thread is on its way.      *)
WakeComing(t, w) ==
  \E s \in Signallers :
    \/ walker[s].at = "walk" /\ walker[s].list = w /\ walker[s].node = w
    \/ walker[s].at = "cancel" /\ walker[s].node[1] = t

Listening(t, w) == \E k \in frame[t].added : Array(t)[k] = w

(* No thread sleeps on an event that is signalled, however ueventSignal    *)
(* interleaves with the steps of waitObjects and with other signals.       *)
NoLostSignal ==
  \A t \in Threads, e \in Events :
    pc[t] = "blocked" /\ Listening(t, e) /\ signal[e] => WakeComing(t, e)

(* No thread sleeps by what a timer was: if the timer was started, stopped *)
(* or restarted since, the thread is about to look again.                  *)
NoStaleTimer ==
  \A t \in Threads, m \in Timers :
    LET f == frame[t] IN
    pc[t] = "blocked" /\ Listening(t, m) /\ ~WakeComing(t, m) =>
      /\ started[m] => ~Earlier(nextTick[m] - f.curTick, f.endTick)
      /\ f.endIdx # 0 /\ Array(t)[f.endIdx] = m =>
            started[m] /\ nextTick[m] = f.curTick + f.endTick

(* A signal of an auto-clear event, or of a handle waited on with clear,   *)
(* that a wait takes away is the one that wait reports.                    *)
Reports(t, x) ==
  /\ pc[t] # "clean" /\ pc'[t] = "clean"
  /\ frame'[t].rc = "ok" /\ Array(t)[frame'[t].idx] = x

SignalsFit ==
  /\ \A e \in Events \cap AutoClear :
       signal[e] /\ ~signal'[e] /\ waiting' # waiting => \E t \in Threads : Reports(t, e)
  /\ \A h \in Handles : h \in hsig /\ h \notin hsig' => \E t \in Threads : Reports(t, h)
  /\ \A t \in Threads, x \in AutoClear :
       Reports(t, x) => IF x \in Events THEN signal[x] /\ ~signal'[x]
                                        ELSE x \in hsig /\ x \notin hsig'

SignalsReported == [][SignalsFit]_vars

(* A repeating timer that has fired is next due on its own grid, not in    *)
(* the past and within one interval.                                       *)
PhaseKept ==
  \A m \in Repeating :
    started[m] /\ started'[m] /\ nextTick'[m] # nextTick[m] =>
      /\ (nextTick'[m] - nextTick[m]) % Interval[m] = 0
      /\ nextTick'[m] \in now .. now + Interval[m] - 1

RepeatingKeepsPhase == [][PhaseKept]_vars

(* A wait on an event that is signalled and stays so returns. *)
SignalReturns ==
  \A t \in Threads, e \in Events :
    Listens(t, e) /\ signal[e] ~> pc[t] = "out" \/ ~signal[e]

(* A wait on a timer that runs returns, if the timer is not stopped; or,   *)
(* as a thread may be delayed before it sleeps for the time it computed,   *)
(* sleeps until a definite time past the bound.                            *)
TimerReturns ==
  \A t \in Threads, m \in Timers :
    Listens(t, m) /\ started[m] /\ nextTick[m] <= MaxTime
      ~> \/ pc[t] = "out" \/ ~started[m]
         \/ frame[t].wakeAt # Forever /\ frame[t].wakeAt > MaxTime

(* Both: a wait on an event or a timer returns. *)
WaitReturns == SignalReturns /\ TimerReturns

(* A repeating timer that was due several times before the wait gives one  *)
(* signal: the wait that reports it leaves it due later than the ticks     *)
(* that were over when the wait began.                                     *)
OneSignalPerWait ==
  [][\A t \in Threads, m \in Repeating :
       Reports(t, m) /\ nextTick[m] < frame[t].curTick /\ started'[m]
         => nextTick'[m] > frame[t].curTick]_vars

-----------------------------------------------------------------------------
(* What keeps the promises: the inductive invariant, when no two listeners *)
(* of a waitable are alive at once (NodeAdd does not keep the list of      *)
(* several in order).                                                      *)
OneListener ==
  /\ ~Shared
  /\ \A array \in WaitArrays : Len(array) <= MaxWaitObjects =>
       \A j, k \in DOMAIN array : array[j] \in Waitables /\ array[j] = array[k] => j = k

Outcomes == {"none", "ok", "TimedOut", "Cancelled", "OutOfRange"}

Frames ==
  [objects : WaitArrays \cup {<<>>}, deadline : Times, i : Nat, added : SUBSET Nat,
   curTick : Nat, endTick : Times, endIdx : Nat, wakeAt : Times, rc : Outcomes, idx : Nat]

(* Where a thread is says how far its frame is filled. *)
FrameTells(t) ==
  LET f == frame[t] IN
  /\ f.added \subseteq DOMAIN f.objects
  /\ \A k \in f.added : f.objects[k] \in Waitables
  /\ f.curTick <= now
  /\ pc[t] \in {"out", "loop"} => f.added = {}
  /\ pc[t] = "out" => f.objects = <<>>
  /\ pc[t] \in {"begin", "blocked", "woken"} \/ f.added # {} => Len(f.objects) <= MaxWaitObjects
  /\ pc[t] = "begin" => /\ f.i \in 1 .. Len(f.objects) + 1
                        /\ \A k \in f.added : k < f.i
  /\ f.endIdx # 0 => f.endIdx \in DOMAIN f.objects /\ f.objects[f.endIdx] \in Timers
  /\ f.endIdx # 0 => f.endTick # Forever
  /\ pc[t] \in {"begin", "blocked"} => f.endIdx \in {0} \cup f.added

(* How a wait ends: not before its time, and with the index of a handle or *)
(* of the timer that ended it.                                             *)
EndTells(t) ==
  LET f == frame[t] IN
  /\ pc[t] = "blocked" /\ f.wakeAt # Forever
       => f.endTick # Forever /\ f.curTick + f.endTick <= f.wakeAt
  /\ pc[t] = "woken" => f.rc \in {"ok", "TimedOut", "Cancelled"}
  /\ pc[t] = "woken" /\ f.rc = "ok" => f.idx \in DOMAIN f.objects /\ f.objects[f.idx] \in Handles
  /\ pc[t] = "woken" /\ f.rc = "TimedOut" /\ f.endIdx # 0 => f.curTick + f.endTick <= now
  /\ pc[t] = "blocked" => ~cancel[t]

(* No two waits are on one waitable. *)
Apart ==
  \A t, u \in Threads, w \in Waitables : Listens(t, w) /\ Listens(u, w) => t = u

(* A list is empty or holds the one node of its listener. *)
ListShape ==
  \A w \in Waitables :
    /\ Live(w) = {} => next[w] = w
    /\ \A n \in Live(w) : next[w] = n /\ next[n] = w /\ prev[n] = w

(* A walk holds the mutex of its list and is at a node of that list.       *)
WalkTells(s) ==
  LET a == walker[s] IN
  \/ a = Idle
  \/ /\ a.at \in {"walk", "cancel"} /\ a.list \in Waitables /\ mutex[a.list] = s
     /\ a.node \in Live(a.list) \/ (a.at = "walk" /\ a.node = a.list)
     /\ a = [at |-> a.at, list |-> a.list, node |-> a.node]

HeldByWalk ==
  \A w \in Waitables : mutex[w] # Nobody => walker[mutex[w]] # Idle /\ walker[mutex[w]].list = w

Walks == (\A s \in Signallers : WalkTells(s)) /\ HeldByWalk

(* A thread that was picked and still waits is about to be told, ...       *)
PickedIsTold ==
  \A t \in Threads :
    pc[t] \in {"begin", "blocked"} /\ trig[t] # 0 =>
      cancel[t] \/ \E s \in Signallers : walker[s].at = "cancel" /\ walker[s].node[1] = t

(* ... a walk that has not begun will pick those that wait, ...            *)
Ahead(w) == \E s \in Signallers : walker[s] = [at |-> "walk", list |-> w, node |-> w]

SignalPicks ==
  \A t \in Threads, e \in Events :
    pc[t] \in {"begin", "blocked"} /\ Listening(t, e) /\ signal[e] => trig[t] # 0 \/ Ahead(e)

(* ... and until then the end of a wait is the one its timers give.        *)
EndFitsTimers ==
  \A t \in Threads, m \in Timers :
    LET f == frame[t] IN
    pc[t] \in {"begin", "blocked"} /\ Listening(t, m) =>
      \/ trig[t] # 0 \/ Ahead(m)
      \/ /\ started[m] => ~Earlier(nextTick[m] - f.curTick, f.endTick)
         /\ f.endIdx # 0 /\ Array(t)[f.endIdx] = m =>
               started[m] /\ nextTick[m] = f.curTick + f.endTick

IInv ==
  /\ TypeOK /\ frame \in [Threads -> Frames]
  /\ walker \in [Signallers -> [at : {"out", "walk", "cancel"}, list : Waitables \cup {Nobody},
                                 node : Links \cup {Nobody}]]
  /\ trig \in [Threads -> Nat]
  /\ \A t \in Threads : FrameTells(t) /\ EndTells(t)
  /\ Apart /\ ListShape /\ Walks
  /\ PickedIsTold /\ SignalPicks /\ EndFitsTimers
=============================================================================
