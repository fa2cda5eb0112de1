--------------------------- MODULE RecursiveMutex ---------------------------
(***************************************************************************)
(* rmutexLock, rmutexTryLock and rmutexUnlock of kernel/mutex.c, and the   *)
(* condition wait on a recursive mtx_t in runtime/c11-threads.c, which     *)
(* takes the recursive mutex apart and puts it together again.  The Mutex  *)
(* inside is its owner (MutexCondVar); thread_tag and counter are read and *)
(* written in steps of their own, thread_tag also by threads that do not   *)
(* own the mutex.                                                          *)
(***************************************************************************)
EXTENDS Integers, FiniteSets

CONSTANTS
  Threads,
  NoThread,   (* the handle 0                                              *)
  MaxDepth    (* bound on the nesting                                      *)

(* Assumed of the constants. *)
RecursiveMutexAssumption == NoThread \notin Threads /\ MaxDepth \in Nat \ {0}

VARIABLES
  owner,    (* owner of RMutex.lock                                        *)
  tag,      (* RMutex.thread_tag                                           *)
  counter,  (* RMutex.counter                                              *)
  pc,       (* where each thread is                                        *)
  depth     (* how often each thread has locked and not unlocked           *)

vars == <<owner, tag, counter, pc, depth>>

(*   idle     outside the functions                                        *)
(*   lock     thread_tag is not its own: about to take the mutex           *)
(*   owns     owns the mutex, about to write thread_tag                    *)
(*   count    about to increment counter                                   *)
(*   drop     counter is 0: about to clear thread_tag                      *)
(*   release  about to release the mutex                                   *)
(*   park     thread_tag and counter cleared, about to wait                *)
(*   asleep   waits on the condition variable;  woken: wants the mutex     *)
(*   restore  owns the mutex again, about to put tag and counter back      *)
Labels == {"idle", "lock", "owns", "count", "drop", "release", "park",
           "asleep", "woken", "restore"}

Goto(t, label) == pc' = [pc EXCEPT ![t] = label]

Init ==
  /\ owner = NoThread /\ tag = NoThread /\ counter = 0
  /\ pc = [t \in Threads |-> "idle"]
  /\ depth = [t \in Threads |-> 0]

-----------------------------------------------------------------------------
(* if (m->thread_tag != _GetTag()), read without the mutex. *)
LockTest(t) ==
  /\ pc[t] = "idle" /\ depth[t] < MaxDepth
  /\ Goto(t, IF tag = t THEN "count" ELSE "lock")
  /\ UNCHANGED <<owner, tag, counter, depth>>

(* mutexLock, or mutexTryLock when it succeeds. *)
LockTake(t) ==
  /\ pc[t] = "lock"
  /\ owner = NoThread
  /\ owner' = t
  /\ Goto(t, "owns")
  /\ UNCHANGED <<tag, counter, depth>>

(* rmutexTryLock gives up when the mutex is taken. *)
TryLockFail(t) ==
  /\ pc[t] = "lock"
  /\ owner # NoThread
  /\ Goto(t, "idle")
  /\ UNCHANGED <<owner, tag, counter, depth>>

LockTag(t) ==
  /\ pc[t] = "owns"
  /\ tag' = t
  /\ Goto(t, "count")
  /\ UNCHANGED <<owner, counter, depth>>

LockCount(t) ==
  /\ pc[t] = "count"
  /\ counter' = counter + 1
  /\ depth' = [depth EXCEPT ![t] = @ + 1]
  /\ Goto(t, "idle")
  /\ UNCHANGED <<owner, tag>>

(* if (--m->counter == 0) *)
UnlockCount(t) ==
  /\ pc[t] = "idle" /\ depth[t] > 0
  /\ counter' = counter - 1
  /\ depth' = [depth EXCEPT ![t] = @ - 1]
  /\ Goto(t, IF counter' = 0 THEN "drop" ELSE "idle")
  /\ UNCHANGED <<owner, tag>>

UnlockTag(t) ==
  /\ pc[t] = "drop"
  /\ tag' = NoThread
  /\ Goto(t, "release")
  /\ UNCHANGED <<owner, counter, depth>>

UnlockRelease(t) ==
  /\ pc[t] = "release"
  /\ owner' = NoThread
  /\ Goto(t, "idle")
  /\ UNCHANGED <<tag, counter, depth>>

-----------------------------------------------------------------------------
(* Broken: the wait is not refused for a nested lock. *)
BadWaitClear(t) ==
  /\ pc[t] = "idle" /\ depth[t] > 0
  /\ tag' = NoThread /\ counter' = 0
  /\ Goto(t, "park")
  /\ UNCHANGED <<owner, depth>>

(* __cnd_timedwait on a recursive mutex: refused unless counter is 1, and  *)
(* tag and counter are cleared before the wait, ...                        *)
WaitClear(t) ==
  /\ pc[t] = "idle" /\ depth[t] > 0
  /\ counter = 1
  /\ tag' = NoThread /\ counter' = 0
  /\ Goto(t, "park")
  /\ UNCHANGED <<owner, depth>>

WaitSleep(t) ==
  /\ pc[t] = "park"
  /\ owner' = NoThread
  /\ Goto(t, "asleep")
  /\ UNCHANGED <<tag, counter, depth>>

(* Signalled or timed out. *)
WaitWake(t) ==
  /\ pc[t] = "asleep"
  /\ Goto(t, "woken")
  /\ UNCHANGED <<owner, tag, counter, depth>>

WaitTake(t) ==
  /\ pc[t] = "woken"
  /\ owner = NoThread
  /\ owner' = t
  /\ Goto(t, "restore")
  /\ UNCHANGED <<tag, counter, depth>>

(* ... and put back after it. *)
WaitRestore(t) ==
  /\ pc[t] = "restore"
  /\ tag' = t /\ counter' = 1
  /\ Goto(t, "idle")
  /\ UNCHANGED <<owner, depth>>

-----------------------------------------------------------------------------
Step(t) ==
  \/ LockTake(t) \/ LockTag(t) \/ LockCount(t) \/ UnlockTag(t) \/ UnlockRelease(t)
  \/ WaitSleep(t) \/ WaitTake(t) \/ WaitRestore(t)

Next ==
  \E t \in Threads :
    \/ Step(t) \/ LockTest(t) \/ TryLockFail(t) \/ UnlockCount(t)
    \/ WaitClear(t) \/ WaitWake(t)

Spec == Init /\ [][Next]_vars

-----------------------------------------------------------------------------
(* The type of every variable. *)
TypeOK ==
  /\ owner \in Threads \cup {NoThread} /\ tag \in Threads \cup {NoThread}
  /\ counter \in 0 .. MaxDepth
  /\ pc \in [Threads -> Labels]
  /\ depth \in [Threads -> 0 .. MaxDepth]

(* The threads that are inside the lock: they have locked and not          *)
(* unlocked, and are not in a condition wait.                              *)
Inside(t) == depth[t] > 0 /\ pc[t] \notin {"park", "asleep", "woken", "restore"}

(* However deep the nesting and across a condition wait, one thread at a   *)
(* time is inside the recursive mutex.                                     *)
OneInside == \A t, u \in Threads : Inside(t) /\ Inside(u) => t = u

(* A thread inside owns the mutex, the tag says so and counter is how deep *)
(* it is: the unlocks it owes release the mutex, no sooner and no later.   *)
(* And the tag, which the others read without the mutex, names a thread    *)
(* only while that thread owns the mutex, so it lets nobody else in.       *)
CounterIsDepth ==
  /\ \A t \in Threads : Inside(t) => owner = t /\ tag = t /\ counter = depth[t]
  /\ tag # NoThread => owner = tag

(* What each place in the functions says of the mutex and of the RMutex.   *)
HoldsAt(t) ==
  \/ pc[t] \in {"owns", "count", "drop", "release", "park", "restore"}
  \/ pc[t] = "idle" /\ depth[t] > 0

OwnerHolds == \A t \in Threads : HoldsAt(t) <=> owner = t

PlaceTells ==
  \A t \in Threads :
    /\ pc[t] \in {"lock", "owns", "drop", "release"} => depth[t] = 0
    /\ pc[t] \in {"park", "asleep", "woken", "restore"} => depth[t] = 1
    /\ pc[t] \in {"count", "drop"} \/ (pc[t] = "idle" /\ depth[t] > 0)
         => tag = t /\ counter = depth[t]
    /\ pc[t] \in {"owns", "release", "park", "restore"} => tag = NoThread /\ counter = 0
    /\ pc[t] = "count" => depth[t] < MaxDepth

FreeIsClear == owner = NoThread => tag = NoThread /\ counter = 0

IInv == TypeOK /\ OwnerHolds /\ PlaceTells /\ FreeIsClear
=============================================================================
