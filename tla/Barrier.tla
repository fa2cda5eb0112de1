------------------------------ MODULE Barrier ------------------------------
(***************************************************************************)
(* kernel/barrier.c: the threads meet round after round.  The wait is not  *)
(* in a loop, so everything rests on waking exactly the threads that sleep.*)
(***************************************************************************)
EXTENDS Integers, FiniteSets

CONSTANTS
  Threads,    (* the threads that use the barrier                          *)
  MaxRound    (* bound on the rounds a thread takes part in                *)

(* Assumed of the constants: barrierInit is given the number of threads    *)
(* that take part.                                                         *)
BarrierAssumption ==
  IsFiniteSet(Threads) /\ Threads # {} /\ MaxRound \in Nat

VARIABLES
  count,    (* Barrier.count                                               *)
  pc,       (* out, asleep on the condition variable, or woken             *)
  round     (* calls of barrierWait each thread has begun                  *)

vars == <<count, pc, round>>

(* Barrier.total is one less than the number of threads. *)
total == Cardinality(Threads) - 1

At(label) == {t \in Threads : pc[t] = label}

Init ==
  /\ count = 0
  /\ pc = [t \in Threads |-> "out"]
  /\ round = [t \in Threads |-> 0]

(* condvarWake(&b->condvar, num): the kernel wakes everybody if num is not *)
(* positive.                                                               *)
Woken(num, S) ==
  /\ S \subseteq At("asleep")
  /\ Cardinality(S) = IF num <= 0 \/ num > Cardinality(At("asleep"))
                        THEN Cardinality(At("asleep")) ELSE num

(* Broken: one wake-up for all. *)
BadWakeOne(t) ==
  /\ pc[t] = "out" /\ round[t] < MaxRound
  /\ count = total
  /\ count' = 0
  /\ \E S \in SUBSET Threads :
       /\ Woken(1, S)
       /\ pc' = [u \in Threads |-> IF u \in S THEN "woken" ELSE pc[u]]
  /\ round' = [round EXCEPT ![t] = @ + 1]

(* barrierWait by the thread that completes a round, ... *)
ArriveLast(t) ==
  /\ pc[t] = "out" /\ round[t] < MaxRound
  /\ count = total
  /\ count' = 0
  /\ \E S \in SUBSET Threads :
       /\ Woken(total, S)
       /\ pc' = [u \in Threads |-> IF u \in S THEN "woken" ELSE pc[u]]
  /\ round' = [round EXCEPT ![t] = @ + 1]

(* ... and by one that has to wait. *)
Arrive(t) ==
  /\ pc[t] = "out" /\ round[t] < MaxRound
  /\ count # total
  /\ count' = count + 1
  /\ pc' = [pc EXCEPT ![t] = "asleep"]
  /\ round' = [round EXCEPT ![t] = @ + 1]

(* A woken thread gets the mutex, releases it and returns. *)
Leave(t) ==
  /\ pc[t] = "woken"
  /\ pc' = [pc EXCEPT ![t] = "out"]
  /\ UNCHANGED <<count, round>>

Next == \E t \in Threads : ArriveLast(t) \/ Arrive(t) \/ Leave(t)

Spec == Init /\ [][Next]_vars

-----------------------------------------------------------------------------
(* The type of every variable. *)
TypeOK ==
  /\ count \in 0 .. total
  /\ pc \in [Threads -> {"out", "asleep", "woken"}]
  /\ round \in [Threads -> 0 .. MaxRound]

(* A thread leaves a round only when every thread has begun it, and no     *)
(* thread of a round is asleep once another has finished it: the wake-up   *)
(* of a fast thread that is already in the next round never goes to it in  *)
(* the place of a slow one.                                                *)
RoundsInStep ==
  \A t, u \in Threads :
    /\ pc[t] # "asleep" => round[u] >= round[t]
    /\ pc[u] = "asleep" => round[t] <= round[u]

(* The sleepers are the threads that were counted.                         *)
SleepersCounted == Cardinality(At("asleep")) = count

(* The sleepers have begun exactly one round more than the others, who are *)
(* all in the same round.                                                  *)
OneRoundAhead ==
  \A t, u \in Threads :
    pc[t] # "asleep" => round[u] = round[t] + IF pc[u] = "asleep" THEN 1 ELSE 0

IInv == TypeOK /\ SleepersCounted /\ OneRoundAhead
=============================================================================
