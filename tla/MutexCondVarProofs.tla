------------------------- MODULE MutexCondVarProofs -------------------------
(***************************************************************************)
(* Proofs about MutexCondVar for any set of threads: the inductive         *)
(* invariant IInv, mutual exclusion from it, and the refinement of Monitor.*)
(***************************************************************************)
EXTENDS MutexCondVar, TLAPS

(* The kernel's hand-off keeps the invariant, whoever gives the mutex up   *)
(* and wherever that thread goes: mutexUnlock and condvarWaitTimeout both  *)
(* rest on it.                                                             *)
LEMMA HandOffInv ==
  ASSUME IInv, NEW t \in Threads, NEW label \in {"out", "cv"},
         pc[t] \in {"held", "unarb"}, HandOff(t, label), UNCHANGED cur,
         timed' \in [Threads -> BOOLEAN]
  PROVE  IInv'
<1> USE DEF IInv, TypeOK, OwnerHolds, NoForgottenWaiter, FreeIsZero,
            OwnerAwake, NeverBehindItself, Labels, Parked, Word
<1>1. CASE Parked = {} /\ word' = Free /\ Goto(t, label)
  BY <1>1, NoThreadAssumption DEF Free, Goto
<1>2. ASSUME NEW u \in Threads, HandOffTo(t, label, u) PROVE IInv'
  BY <1>2, NoThreadAssumption DEF HandOffTo
<1> QED BY <1>1, <1>2 DEF HandOff

(* A word other than 0 names a thread: FreeIsZero on the level of the      *)
(* compare-and-swap that takes a free mutex.                               *)
LEMMA OwnedWord ==
  ASSUME TypeOK, FreeIsZero, word # Free
  PROVE  word.tag \in Threads
<1> QED BY DEF TypeOK, FreeIsZero, Free, Word

LEMMA LockCallInv ==
  ASSUME IInv, NEW t \in Threads, LockCall(t) PROVE IInv'
BY NoThreadAssumption
   DEF IInv, TypeOK, OwnerHolds, NoForgottenWaiter, FreeIsZero, OwnerAwake,
       NeverBehindItself, Labels, Parked, Goto, LockCall

LEMMA LockCasInv ==
  ASSUME IInv, NEW t \in Threads, LockCas(t) PROVE IInv'
<1> USE NoThreadAssumption
    DEF IInv, TypeOK, OwnerHolds, NoForgottenWaiter, FreeIsZero, OwnerAwake,
        NeverBehindItself, Labels, Parked, Goto
<1>1. CASE word = Free /\ word' = Word(t, FALSE) /\ Goto(t, "held") /\ UNCHANGED cur
  BY <1>1 DEF LockCas, Free, Word
<1>2. CASE word.tag = t /\ Goto(t, "held") /\ UNCHANGED <<word, cur>>
  BY <1>2 DEF LockCas
<1>3. CASE /\ word # Free /\ word.tag # t
           /\ cur' = [cur EXCEPT ![t] = word.tag]
           /\ Goto(t, IF word.listeners THEN "arb" ELSE "flag")
           /\ UNCHANGED word
  <2>1. word.tag \in Threads \ {t}
    BY <1>3, OwnedWord
  <2>2. Goto(t, "arb") \/ Goto(t, "flag")
    BY <1>3
  <2> QED BY <1>3, <2>1, <2>2 DEF LockCas
<1> QED BY <1>1, <1>2, <1>3 DEF LockCas

LEMMA LockSetFlagInv ==
  ASSUME IInv, NEW t \in Threads, LockSetFlag(t) PROVE IInv'
<1> USE NoThreadAssumption
<1>1. CASE word = Word(cur[t], FALSE)
  <2>1. /\ pc[t] = "flag" /\ pc' = [pc EXCEPT ![t] = "arb"]
        /\ word' = Word(cur[t], TRUE) /\ cur' = cur /\ timed' = timed
    BY <1>1 DEF LockSetFlag, Goto
  <2>2. pc \in [Threads -> Labels] /\ pc' \in [Threads -> Labels]
    BY <2>1 DEF IInv, TypeOK, Labels
  <2>3. cur[t] \in Threads \ {t}
    BY <2>1 DEF IInv, TypeOK, NeverBehindItself
  <2>4. word'.tag = word.tag /\ word'.listeners /\ word.tag = cur[t]
    BY <1>1, <2>1 DEF Word
  <2>5. TypeOK'
    BY <2>1, <2>2, <2>3 DEF IInv, TypeOK, Word
  <2>6. Parked' = Parked
    BY <2>1, <2>2 DEF Parked
  <2>7. OwnerHolds' /\ OwnerAwake' /\ NeverBehindItself'
    BY <2>1, <2>2, <2>3, <2>4 DEF IInv, OwnerHolds, OwnerAwake, NeverBehindItself
  <2>8. NoForgottenWaiter' /\ FreeIsZero'
    BY <2>3, <2>4, <2>6 DEF IInv, NoForgottenWaiter, FreeIsZero
  <2> QED BY <2>5, <2>7, <2>8 DEF IInv
<1>2. CASE word # Word(cur[t], FALSE)
  BY <1>2 DEF LockSetFlag, IInv, TypeOK, OwnerHolds, NoForgottenWaiter, FreeIsZero,
     OwnerAwake, NeverBehindItself, Labels, Parked, Goto
<1> QED BY <1>1, <1>2

LEMMA LockArbitrateInv ==
  ASSUME IInv, NEW t \in Threads, LockArbitrate(t) PROVE IInv'
BY NoThreadAssumption
   DEF IInv, TypeOK, OwnerHolds, NoForgottenWaiter, FreeIsZero, OwnerAwake,
       NeverBehindItself, Labels, Parked, Goto, Word, LockArbitrate

LEMMA TryLockInv ==
  ASSUME IInv, NEW t \in Threads, TryLock(t) PROVE IInv'
BY NoThreadAssumption
   DEF IInv, TypeOK, OwnerHolds, NoForgottenWaiter, FreeIsZero, OwnerAwake,
       NeverBehindItself, Labels, Parked, Goto, Word, Free, TryLock

LEMMA UnlockInv ==
  ASSUME IInv, NEW t \in Threads, Unlock(t) PROVE IInv'
<1> USE NoThreadAssumption
    DEF IInv, TypeOK, OwnerHolds, NoForgottenWaiter, FreeIsZero, OwnerAwake,
        NeverBehindItself, Labels, Parked, Goto
<1>1. CASE word = Word(t, FALSE)
  <2>1. word' = Free /\ pc[t] = "held" /\ pc' = [pc EXCEPT ![t] = "out"]
    BY <1>1 DEF Unlock
  <2>2. word'.tag = NoThread /\ ~word'.listeners /\ word.tag = t /\ ~word.listeners
    BY <1>1, <2>1 DEF Free, Word
  <2>3. TypeOK'
    BY <2>1 DEF Unlock, Free, Word
  <2>4. \A u \in Threads : pc[u] \in {"held", "unarb"} => u = t
    BY <2>2
  <2> QED BY <2>1, <2>2, <2>3, <2>4 DEF Unlock
<1>2. CASE word # Word(t, FALSE)
  <2>1. word.listeners
    BY <1>2 DEF Unlock, Word
  <2> QED BY <1>2, <2>1 DEF Unlock
<1> QED BY <1>1, <1>2

LEMMA UnlockArbitrateInv ==
  ASSUME IInv, NEW t \in Threads, UnlockArbitrate(t) PROVE IInv'
BY HandOffInv DEF UnlockArbitrate, IInv, TypeOK

LEMMA CondWaitInv ==
  ASSUME IInv, NEW t \in Threads, NEW limited \in BOOLEAN, CondWait(t, limited)
  PROVE  IInv'
<1>1. timed' \in [Threads -> BOOLEAN]
  BY DEF CondWait, IInv, TypeOK
<1> QED BY <1>1, HandOffInv DEF CondWait

LEMMA CondTimeoutInv ==
  ASSUME IInv, NEW t \in Threads, CondTimeout(t) PROVE IInv'
BY NoThreadAssumption
   DEF IInv, TypeOK, OwnerHolds, NoForgottenWaiter, FreeIsZero, OwnerAwake,
       NeverBehindItself, Labels, Parked, Goto, CondTimeout

LEMMA CondWakeInv ==
  ASSUME IInv, NEW num \in WakeCounts, CondWake(num) PROVE IInv'
<1> USE NoThreadAssumption
    DEF IInv, TypeOK, OwnerHolds, NoForgottenWaiter, FreeIsZero, OwnerAwake,
        NeverBehindItself, Labels, Parked
<1>1. PICK S \in SUBSET Sleepers : S # {} /\ Signalled(S)
  BY DEF CondWake
<1>2. \A u \in S : u \in Threads /\ pc[u] = "cv"
  BY DEF Sleepers
<1>3. cur' = cur /\ timed' = timed
  BY DEF CondWake
<1>4. CASE word = Free
  <2>1. PICK u \in S :
          /\ word' = Word(u, S # {u})
          /\ pc' = [t \in Threads |-> IF t = u THEN "held"
                                      ELSE IF t \in S THEN "cvlock" ELSE pc[t]]
    BY <1>1, <1>4 DEF Signalled
  <2>2. word'.tag = u /\ word'.listeners = (S # {u}) /\ TypeOK'
    BY <2>1, <1>2, <1>3 DEF Word
  <2>3. Parked = {} /\ word.tag = NoThread
    BY <1>4 DEF Free, Word
  <2> QED BY <2>1, <2>2, <2>3, <1>2, <1>3
<1>5. CASE word # Free
  <2>1. /\ word' = Word(word.tag, TRUE)
        /\ pc' = [t \in Threads |-> IF t \in S THEN "cvlock" ELSE pc[t]]
    BY <1>1, <1>5 DEF Signalled
  <2>2. word'.tag = word.tag /\ word'.listeners /\ word.tag \in Threads /\ TypeOK'
    BY <2>1, <1>2, <1>3, <1>5, OwnedWord DEF Word
  <2>3. \A u \in Threads : pc'[u] = pc[u] \/ (pc[u] = "cv" /\ pc'[u] = "cvlock")
    BY <2>1, <1>2
  <2>4. OwnerHolds' /\ NoForgottenWaiter' /\ FreeIsZero' /\ OwnerAwake'
    BY <2>2, <2>3
  <2>5. NeverBehindItself'
    BY <2>3, <1>3
  <2> QED BY <2>2, <2>4, <2>5
<1> QED BY <1>4, <1>5

LEMMA NextInv == IInv /\ [Next]_vars => IInv'
<1> SUFFICES ASSUME IInv, [Next]_vars PROVE IInv'
  OBVIOUS
<1>1. CASE UNCHANGED vars
  BY <1>1
     DEF vars, IInv, TypeOK, OwnerHolds, NoForgottenWaiter, FreeIsZero,
         OwnerAwake, NeverBehindItself, Parked
<1>2. ASSUME NEW t \in Threads, MutexStep(t) PROVE IInv'
  BY <1>2, LockCasInv, LockSetFlagInv, LockArbitrateInv, UnlockInv,
     UnlockArbitrateInv DEF MutexStep
<1>3. ASSUME NEW t \in Threads, LockCall(t) \/ TryLock(t) \/ CondTimeout(t)
      PROVE  IInv'
  BY <1>3, LockCallInv, TryLockInv, CondTimeoutInv
<1>4. ASSUME NEW t \in Threads, NEW limited \in BOOLEAN, CondWait(t, limited)
      PROVE  IInv'
  BY <1>4, CondWaitInv
<1>5. ASSUME NEW num \in WakeCounts, CondWake(num) PROVE IInv'
  BY <1>5, CondWakeInv
<1> QED BY <1>1, <1>2, <1>3, <1>4, <1>5 DEF Next

(* Every reachable state of mutexLock, mutexTryLock, mutexUnlock and the   *)
(* condition variable satisfies the inductive invariant.                   *)
THEOREM Invariance == Spec => []IInv
<1>1. Init => IInv
  BY NoThreadAssumption
     DEF Init, IInv, TypeOK, OwnerHolds, NoForgottenWaiter, FreeIsZero,
         OwnerAwake, NeverBehindItself, Parked, Labels, Free, Word
<1> QED BY <1>1, NextInv, PTL DEF Spec

(* Variables keep their types (mutex.c, condvar.c).                        *)
THEOREM TypeCorrect == Spec => []TypeOK
<1>1. IInv => TypeOK
  BY DEF IInv
<1> QED BY <1>1, Invariance, PTL

(* At most one thread is between lock and unlock, also after a condition   *)
(* wait that timed out.                                                    *)
THEOREM MutualExclusionHolds == Spec => []MutualExclusion
<1>1. IInv => MutualExclusion
  BY DEF IInv, OwnerHolds, MutualExclusion
<1> QED BY <1>1, Invariance, PTL

(* HAS_LISTENERS stays set while a thread is parked, so every unlock then  *)
(* goes through the kernel.                                                *)
THEOREM NobodyForgotten == Spec => []NoForgottenWaiter
<1>1. IInv => NoForgottenWaiter
  BY DEF IInv
<1> QED BY <1>1, Invariance, PTL

-----------------------------------------------------------------------------
(* The refinement of Monitor.                                              *)

(* Giving the mutex up, as the monitor sees it: it becomes free, or passes *)
(* to a thread that wanted it.                                             *)
LEMMA HandOffPassesOn ==
  ASSUME IInv, NEW t \in Threads, NEW label \in {"out", "cv"},
         pc[t] \in {"held", "unarb"}, HandOff(t, label)
  PROVE  /\ Abstract!PassOn(t)
         /\ Sleepers' = Sleepers \cup (IF label = "cv" THEN {t} ELSE {})
<1>0. /\ word.tag = t /\ pc \in [Threads -> Labels]
      /\ word \in [tag : Threads \cup {NoThread}, listeners : BOOLEAN]
  BY DEF IInv, OwnerHolds, TypeOK
<1>1. CASE Parked = {} /\ word' = Free /\ Goto(t, label)
  <2>1. word'.tag = NoThread /\ pc' = [pc EXCEPT ![t] = label]
    BY <1>1 DEF Free, Word, Goto
  <2>2. Wanting' = Wanting
    BY <1>0, <2>1, NoThreadAssumption DEF Wanting, Labels
  <2>3. Sleepers' = Sleepers \cup (IF label = "cv" THEN {t} ELSE {})
    BY <1>0, <2>1 DEF Sleepers, Labels
  <2> QED BY <1>0, <2>1, <2>2, <2>3 DEF Abstract!PassOn
<1>2. ASSUME NEW u \in Threads, HandOffTo(t, label, u)
      PROVE  /\ Abstract!PassOn(t)
             /\ Sleepers' = Sleepers \cup (IF label = "cv" THEN {t} ELSE {})
  <2>1. word'.tag = u /\ pc[u] \in {"kwait", "cvlock"} /\ u # t
    BY <1>2 DEF HandOffTo, Word, Parked
  <2>2. pc' = [pc EXCEPT ![t] = label,
                         ![u] = IF pc[u] = "kwait" THEN "lock" ELSE "held"]
    BY <1>2 DEF HandOffTo
  <2>3. u \in Wanting /\ Wanting' = Wanting \ {u}
    BY <1>0, <2>1, <2>2 DEF Wanting, Labels
  <2>4. Sleepers' = Sleepers \cup (IF label = "cv" THEN {t} ELSE {})
    BY <1>0, <2>1, <2>2 DEF Sleepers, Labels
  <2> QED BY <1>0, <2>1, <2>3, <2>4 DEF Abstract!PassOn
<1> QED BY <1>1, <1>2 DEF HandOff

LEMMA LockRefines ==
  ASSUME IInv, NEW t \in Threads,
         LockCall(t) \/ LockCas(t) \/ LockSetFlag(t) \/ LockArbitrate(t)
           \/ TryLock(t) \/ CondTimeout(t)
  PROVE  [Abstract!MonitorNext]_(Abstract!mvars)
<1>0. /\ pc \in [Threads -> Labels]
      /\ word.tag = t => pc[t] \in {"held", "unarb", "lock"}
  BY DEF IInv, OwnerAwake, TypeOK
<1>1. CASE LockCall(t)
  <2>1. word' = word /\ pc[t] = "out" /\ pc' = [pc EXCEPT ![t] = "lock"]
    BY <1>1 DEF LockCall, Goto
  <2>2. t # word.tag /\ t \notin Wanting \cup Sleepers
    BY <1>0, <2>1 DEF Wanting, Sleepers
  <2>3. Wanting' = Wanting \cup {t} /\ Sleepers' = Sleepers
    BY <1>0, <2>1, <2>2 DEF Wanting, Sleepers, Labels
  <2> QED BY <2>1, <2>2, <2>3 DEF Abstract!MonitorNext, Abstract!Request
<1>2. CASE LockCas(t) \/ LockSetFlag(t) \/ LockArbitrate(t)
  <2>1. CASE word = Free /\ LockCas(t)
    <3>1. /\ word.tag = NoThread /\ word'.tag = t /\ pc[t] = "lock"
          /\ pc' = [pc EXCEPT ![t] = "held"]
      BY <2>1, NoThreadAssumption DEF LockCas, Free, Word, Goto
    <3>2. t \in Wanting /\ Wanting' = Wanting \ {t} /\ Sleepers' = Sleepers
      BY <1>0, <3>1, NoThreadAssumption DEF Wanting, Sleepers, Labels
    <3> QED BY <3>1, <3>2 DEF Abstract!MonitorNext, Abstract!Acquire
  <2>2. CASE ~(word = Free /\ LockCas(t))
    <3>1. word'.tag = word.tag
      BY <1>2, <2>2 DEF LockCas, LockSetFlag, LockArbitrate, Word
    <3>2. /\ pc[t] \in {"lock", "flag", "arb"}
          /\ \E label \in {"lock", "flag", "arb", "kwait", "held"} :
               /\ label = "held" => word.tag = t
               /\ pc' = [pc EXCEPT ![t] = label]
      BY <1>2, <2>2 DEF LockCas, LockSetFlag, LockArbitrate, Goto
    <3>3. Wanting' = Wanting /\ Sleepers' = Sleepers
      BY <1>0, <3>1, <3>2 DEF Wanting, Sleepers, Labels
    <3> QED BY <3>1, <3>3 DEF Abstract!mvars
  <2> QED BY <2>1, <2>2
<1>3. CASE TryLock(t)
  <2>1. /\ word.tag = NoThread /\ word'.tag = t /\ pc[t] = "out"
        /\ pc' = [pc EXCEPT ![t] = "held"]
    BY <1>3 DEF TryLock, Free, Word, Goto
  <2>2. t \notin Wanting \cup Sleepers /\ Wanting' = Wanting /\ Sleepers' = Sleepers
    BY <1>0, <2>1, NoThreadAssumption DEF Wanting, Sleepers, Labels
  <2> QED BY <2>1, <2>2 DEF Abstract!MonitorNext, Abstract!TryAcquire
<1>4. CASE CondTimeout(t)
  <2>1. /\ word' = word /\ pc[t] \in {"cv", "cvlock"}
        /\ pc' = [pc EXCEPT ![t] = "lock"]
    BY <1>4 DEF CondTimeout, Goto
  <2>2. CASE pc[t] = "cv"
    <3>1. /\ {t} \subseteq Sleepers /\ Sleepers' = Sleepers \ {t}
          /\ Wanting' = Wanting \cup {t}
      BY <1>0, <2>1, <2>2 DEF Wanting, Sleepers, Labels
    <3> QED BY <2>1, <3>1 DEF Abstract!MonitorNext, Abstract!Wake
  <2>3. CASE pc[t] = "cvlock"
    <3>1. Wanting' = Wanting /\ Sleepers' = Sleepers
      BY <1>0, <2>1, <2>3 DEF Wanting, Sleepers, Labels
    <3> QED BY <2>1, <3>1 DEF Abstract!mvars
  <2> QED BY <2>1, <2>2, <2>3
<1> QED BY <1>1, <1>2, <1>3, <1>4

LEMMA UnlockRefines ==
  ASSUME IInv, NEW t \in Threads, Unlock(t) \/ UnlockArbitrate(t)
  PROVE  [Abstract!MonitorNext]_(Abstract!mvars)
<1>0. /\ pc \in [Threads -> Labels]
      /\ pc[t] \in {"held", "unarb"} => word.tag = t
      /\ word \in [tag : Threads \cup {NoThread}, listeners : BOOLEAN]
  BY DEF IInv, OwnerHolds, TypeOK
<1>1. CASE Unlock(t) /\ word = Word(t, FALSE)
  <2>1. /\ word.tag = t /\ word'.tag = NoThread /\ pc[t] = "held"
        /\ pc' = [pc EXCEPT ![t] = "out"]
    BY <1>1 DEF Unlock, Free, Word, Goto
  <2>2. Wanting' = Wanting
    BY <1>0, <2>1, NoThreadAssumption DEF Wanting, Labels
  <2>3. Sleepers' = Sleepers
    BY <1>0, <2>1 DEF Sleepers, Labels
  <2> QED BY <2>1, <2>2, <2>3
          DEF Abstract!MonitorNext, Abstract!Release, Abstract!PassOn
<1>2. CASE Unlock(t) /\ word # Word(t, FALSE)
  <2>1. word.tag = t /\ word.listeners
    BY <1>0, <1>2 DEF Unlock, Word
  <2>2. word' = word /\ pc[t] = "held" /\ pc' = [pc EXCEPT ![t] = "unarb"]
    BY <1>2, <2>1 DEF Unlock, Goto
  <2>3. Wanting' = Wanting /\ Sleepers' = Sleepers
    BY <1>0, <2>2 DEF Wanting, Sleepers, Labels
  <2> QED BY <2>2, <2>3 DEF Abstract!mvars
<1>3. CASE UnlockArbitrate(t)
  <2>1. Abstract!PassOn(t) /\ Sleepers' = Sleepers
    BY <1>3, HandOffPassesOn DEF UnlockArbitrate
  <2> QED BY <2>1 DEF Abstract!MonitorNext, Abstract!Release
<1> QED BY <1>1, <1>2, <1>3

LEMMA CondWaitRefines ==
  ASSUME IInv, NEW t \in Threads, NEW limited \in BOOLEAN, CondWait(t, limited)
  PROVE  Abstract!MonitorNext
<1>1. Abstract!PassOn(t) /\ Sleepers' = Sleepers \cup {t}
  BY HandOffPassesOn DEF CondWait
<1> QED BY <1>1 DEF Abstract!MonitorNext, Abstract!Wait

LEMMA CondWakeRefines ==
  ASSUME IInv, NEW num \in WakeCounts, CondWake(num)
  PROVE  Abstract!MonitorNext
<1>0. pc \in [Threads -> Labels] /\ \A u \in Threads : word.tag = u => pc[u] # "cv"
  BY DEF IInv, OwnerAwake, TypeOK
<1>1. PICK S \in SUBSET Sleepers : S # {} /\ Signalled(S)
  BY DEF CondWake
<1>2. S \in SUBSET Threads /\ \A u \in S : pc[u] = "cv"
  BY DEF Sleepers
<1>3. CASE word = Free
  <2>1. PICK u \in S :
          /\ word' = Word(u, S # {u})
          /\ pc' = [t \in Threads |-> IF t = u THEN "held"
                                      ELSE IF t \in S THEN "cvlock" ELSE pc[t]]
    BY <1>1, <1>3 DEF Signalled
  <2>2. word'.tag = u /\ word.tag = NoThread
    BY <1>3, <2>1 DEF Free, Word
  <2>3. Wanting' = Wanting \cup (S \ {u}) /\ Sleepers' = Sleepers \ S
    BY <1>0, <1>2, <2>1, <2>2, NoThreadAssumption DEF Wanting, Sleepers, Labels
  <2>4. Abstract!Wake(S)
    BY <2>2, <2>3 DEF Abstract!Wake
  <2> QED BY <1>2, <2>4 DEF Abstract!MonitorNext
<1>4. CASE word # Free
  <2>1. /\ word'.tag = word.tag
        /\ pc' = [t \in Threads |-> IF t \in S THEN "cvlock" ELSE pc[t]]
    BY <1>1, <1>4 DEF Signalled, Word
  <2>2. Wanting' = Wanting \cup S /\ Sleepers' = Sleepers \ S
    BY <1>0, <1>2, <2>1 DEF Wanting, Sleepers, Labels
  <2>3. Abstract!Wake(S)
    BY <2>1, <2>2 DEF Abstract!Wake
  <2> QED BY <1>2, <2>3 DEF Abstract!MonitorNext
<1> QED BY <1>3, <1>4

(* The compare-and-swaps and system calls of mutex.c and condvar.c are an  *)
(* implementation of the abstract monitor, for any number of threads.      *)
THEOREM Refinement == Spec => ImplementsMonitor
<1>1. Init => Abstract!MonitorInit
  BY DEF Init, Abstract!MonitorInit, Wanting, Sleepers, Free, Word
<1>2. IInv /\ [Next]_vars => [Abstract!MonitorNext]_(Abstract!mvars)
  <2> SUFFICES ASSUME IInv, [Next]_vars
               PROVE  [Abstract!MonitorNext]_(Abstract!mvars)
    OBVIOUS
  <2>1. CASE UNCHANGED vars
    BY <2>1 DEF vars, Abstract!mvars, Wanting, Sleepers
  <2>2. CASE Next
    BY <2>2, LockRefines, UnlockRefines, CondWaitRefines, CondWakeRefines
       DEF Next, MutexStep
  <2> QED BY <2>1, <2>2
<1> QED BY <1>1, <1>2, Invariance, PTL DEF Spec, ImplementsMonitor, Abstract!MonitorSpec
=============================================================================
