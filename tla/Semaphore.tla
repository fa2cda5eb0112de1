----------------------------- MODULE Semaphore -----------------------------
(***************************************************************************)
(* kernel/semaphore.c: a counter, a Mutex and a CondVar.  As in RwLock, a  *)
(* critical section of the mutex is one step, and a woken thread has to    *)
(* get the mutex again before it looks at the counter.                     *)
(***************************************************************************)
EXTENDS Integers, FiniteSets

CONSTANTS
  Threads,
  InitialCount,  (* initial_count of semaphoreInit                         *)
  MaxCount       (* bound on the counter, a u64 in the code                *)

(* Assumed of the constants. *)
SemaphoreAssumption ==
  /\ IsFiniteSet(Threads)
  /\ InitialCount \in Nat /\ MaxCount \in Nat /\ InitialCount <= MaxCount

VARIABLES
  count,    (* Semaphore.count                                             *)
  sleepers, (* threads asleep in semaphoreWait                             *)
  woken,    (* threads woken by a signal that have not looked at count yet *)
  taken     (* units handed out: waits that returned, less signals         *)

vars == <<count, sleepers, woken, taken>>

Init ==
  /\ count = InitialCount
  /\ sleepers = {} /\ woken = {}
  /\ taken = 0

-----------------------------------------------------------------------------
(* Broken: a sleeper is woken only when the counter leaves 0. *)
BadSignal ==
  /\ count < MaxCount
  /\ count' = count + 1
  /\ \/ (sleepers = {} \/ count > 0) /\ UNCHANGED <<sleepers, woken>>
     \/ count = 0 /\ \E t \in sleepers :
          sleepers' = sleepers \ {t} /\ woken' = woken \cup {t}
  /\ taken' = taken - 1

(* semaphoreSignal and condvarWakeOne.                                     *)
Signal ==
  /\ count < MaxCount
  /\ count' = count + 1
  /\ \/ sleepers = {} /\ UNCHANGED <<sleepers, woken>>
     \/ \E t \in sleepers : sleepers' = sleepers \ {t} /\ woken' = woken \cup {t}
  /\ taken' = taken - 1

(* while (!s->count) wait; s->count--                                      *)
Take == count' = count - 1 /\ taken' = taken + 1

(* semaphoreWait from the call on, ... *)
Wait(t) ==
  /\ t \notin sleepers \cup woken
  /\ \/ count = 0 /\ sleepers' = sleepers \cup {t} /\ UNCHANGED <<count, taken>>
     \/ count # 0 /\ Take /\ UNCHANGED sleepers
  /\ UNCHANGED woken

(* ... and from a wake-up on. *)
Resume(t) ==
  /\ t \in woken
  /\ woken' = woken \ {t}
  /\ \/ count = 0 /\ sleepers' = sleepers \cup {t} /\ UNCHANGED <<count, taken>>
     \/ count # 0 /\ Take /\ UNCHANGED sleepers

(* semaphoreTryWait, when it succeeds. *)
TryWait(t) ==
  /\ t \notin sleepers \cup woken
  /\ count # 0
  /\ Take
  /\ UNCHANGED <<sleepers, woken>>

Next == Signal \/ \E t \in Threads : Wait(t) \/ Resume(t) \/ TryWait(t)

Spec == Init /\ [][Next]_vars

-----------------------------------------------------------------------------
(* The type of every variable: the counter does not pass below 0, where    *)
(* the u64 would wrap.                                                     *)
TypeOK ==
  /\ count \in 0 .. MaxCount
  /\ sleepers \subseteq Threads /\ woken \subseteq Threads
  /\ taken \in Int

(* Every unit is in the counter or handed out: wake-ups that find the      *)
(* counter empty again neither lose nor make units.                        *)
Conserved == count + taken = InitialCount

(* Units that wait for a taker while a thread sleeps are each on the way   *)
(* to a woken thread, so no sleeper is overlooked when several signals     *)
(* come before the first woken thread runs.                                *)
SleepersServed == sleepers # {} => count <= Cardinality(woken)

IInv == TypeOK /\ Conserved /\ SleepersServed /\ sleepers \cap woken = {}
=============================================================================
