-------------------------------- MODULE Sync --------------------------------
(***************************************************************************)
(* The objects built on the mutex and the condition variable.  They share  *)
(* no state, so a behaviour exercises one of them: object says which, and  *)
(* the state space is the union of theirs.                                 *)
(***************************************************************************)
EXTENDS Naturals, Sequences, FiniteSets

CONSTANTS
  Threads,        (* of RwLock, Semaphore and Barrier                      *)
  Callers,        (* of RecursiveMutex and CallOnce                        *)
  Parents,        (* of ThrdLifecycle                                      *)
  InitialCount, MaxCount,      (* Semaphore                                *)
  MaxRound,                    (* Barrier                                  *)
  NoThread, MaxDepth,          (* RecursiveMutex                           *)
  Flags, Calls,                (* CallOnce                                 *)
  Results, NoResult,           (* ThrdLifecycle: what a child returns, and *)
                               (* what its rc is before                    *)
  Nobody, Forever, Signallers, (* MultiWait, for several waits ...         *)
  Waiters, Events, AutoClear, WaitArrays, MaxWaitObjects,
  LoneWaiters, LoneEvents, LoneTimers, LoneHandles,  (* ... and for one    *)
  LoneAutoClear, LoneInterval, LoneArrays, LoneMaxObjects, MaxTime

VARIABLES
  object,
  readers, writer, rwpc,                              (* RwLock             *)
  scount, sleepers, woken, taken,                     (* Semaphore          *)
  bcount, bpc, round,                                 (* Barrier            *)
  owner, tag, counter, rpc, depth,                    (* RecursiveMutex     *)
  status, runs, opc, stack, back,                     (* CallOnce           *)
  tpc, child, res, info, rc, returned, joined,        (* ThrdLifecycle      *)
  now, pc, frame, trig, cancel, signal, started,
    nextTick, hsig, mutex, next, prev, walker,        (* MultiWait, lists   *)
  lnow, lpc, lframe, ltrig, lcancel, lsignal, lstarted,
    lnextTick, lhsig, lmutex, lnext, lprev, lwalker   (* MultiWait, liveness *)

R == INSTANCE RwLock WITH pc <- rwpc
S == INSTANCE Semaphore WITH count <- scount
B == INSTANCE Barrier WITH count <- bcount, pc <- bpc
M == INSTANCE RecursiveMutex WITH Threads <- Callers, pc <- rpc
O == INSTANCE CallOnce WITH Threads <- Callers, pc <- opc
T == INSTANCE ThrdLifecycle WITH pc <- tpc

(* Waits of several threads on events, in any order of the objects. *)
W == INSTANCE MultiWait
       WITH Threads <- Waiters, Timers <- {}, Handles <- {}, Repeating <- {},
            Interval <- <<>>, Timeouts <- {Forever}, Shared <- FALSE, WeakFails <- FALSE,
            MaxTime <- 0

(* One wait on every kind of object, which has to end. *)
L == INSTANCE MultiWait
       WITH Threads <- LoneWaiters, Events <- LoneEvents, Timers <- LoneTimers,
            Handles <- LoneHandles, AutoClear <- LoneAutoClear, Repeating <- LoneTimers,
            Interval <- LoneInterval, WaitArrays <- LoneArrays, Timeouts <- {Forever},
            MaxWaitObjects <- LoneMaxObjects, Shared <- FALSE, WeakFails <- FALSE,
            now <- lnow, pc <- lpc, frame <- lframe, trig <- ltrig, cancel <- lcancel,
            signal <- lsignal, started <- lstarted, nextTick <- lnextTick, hsig <- lhsig,
            mutex <- lmutex, next <- lnext, prev <- lprev, walker <- lwalker

ASSUME SyncAssumption ==
  /\ R!ThreadsFinite /\ S!SemaphoreAssumption /\ B!BarrierAssumption
  /\ M!RecursiveMutexAssumption /\ O!CallOnceAssumption
  /\ NoResult \in Results
  /\ W!MultiWaitAssumption /\ L!MultiWaitAssumption

-----------------------------------------------------------------------------
rVars == <<readers, writer, rwpc>>
sVars == <<scount, sleepers, woken, taken>>
bVars == <<bcount, bpc, round>>
mVars == <<owner, tag, counter, rpc, depth>>
oVars == <<status, runs, opc, stack, back>>
tVars == <<tpc, child, res, info, rc, returned, joined>>
wVars == <<now, pc, frame, trig, cancel, signal, started, nextTick, hsig, mutex, next, prev,
           walker>>
lVars == <<lnow, lpc, lframe, ltrig, lcancel, lsignal, lstarted, lnextTick, lhsig, lmutex, lnext,
           lprev, lwalker>>

vars == <<object, rVars, sVars, bVars, mVars, oVars, tVars, wVars, lVars>>

Init ==
  /\ object \in {"rwlock", "semaphore", "barrier", "rmutex", "once", "thrd", "waits", "wait"}
  /\ R!Init /\ S!Init /\ B!Init /\ M!Init /\ O!Init
  /\ T!Init /\ W!Init /\ L!Init
  /\ object # "thrd" => rc = [p \in Parents |-> NoResult]

Step ==
  \/ object = "rwlock" /\ R!Next
  \/ object = "semaphore" /\ S!Next
  \/ object = "barrier" /\ B!Next
  \/ object = "rmutex" /\ M!Next
  \/ object = "once" /\ O!Next
  \/ object = "thrd" /\ T!Next
  \/ object = "waits" /\ W!Next
  \/ object = "wait" /\ L!Next

Next ==
  /\ Step
  /\ UNCHANGED object
  /\ object # "rwlock" => UNCHANGED rVars
  /\ object # "semaphore" => UNCHANGED sVars
  /\ object # "barrier" => UNCHANGED bVars
  /\ object # "rmutex" => UNCHANGED mVars
  /\ object # "once" => UNCHANGED oVars
  /\ object # "thrd" => UNCHANGED tVars
  /\ object # "waits" => UNCHANGED wVars
  /\ object # "wait" => UNCHANGED lVars

Spec == Init /\ [][Next]_vars

(* The fairness of the objects a liveness property is about.  At rest       *)
(* some have a fair step, to be taken only when they are exercised.        *)
Fairness ==
  /\ R!Fairness
  /\ \A t \in Callers : WF_oVars(object = "once" /\ O!Step(t))
  /\ WF_lVars(object = "wait" /\ L!Tick)
  /\ \A t \in LoneWaiters : SF_lVars(object = "wait" /\ L!WaitStep(t))
  /\ \A s \in Signallers : WF_lVars(object = "wait" /\ L!WalkStep(s))

FairSpec == Spec /\ Fairness

-----------------------------------------------------------------------------
(* What the modules state of their objects. *)
TypeOK == R!TypeOK /\ S!TypeOK /\ B!TypeOK /\ M!TypeOK /\ O!TypeOK /\ T!TypeOK

WriterAlone == R!WriterAlone
SleepersServed == R!NoLostWakeup /\ S!SleepersServed
RoundsInStep == B!RoundsInStep
CounterIsDepth == M!CounterIsDepth
BackMeansDone == O!BackMeansDone
InfoFreedOnce == T!InfoAlive /\ T!NothingLeaks
ListSound == W!ListSound
WaitReturns == L!WaitReturns
=============================================================================
