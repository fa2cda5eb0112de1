----------------------------- MODULE SyncProofs -----------------------------
(***************************************************************************)
(* Proofs about the objects of Sync for every number of threads, every     *)
(* bound and every nesting of call_once: each object has its inductive     *)
(* invariant (IInv of its module), kept by each of its steps, from which   *)
(* its promises follow.                                                    *)
(***************************************************************************)
EXTENDS Sync, FiniteSetTheorems, TLAPS

(* The instances count their sets with operators of their own, which are   *)
(* those of FiniteSets.                                                    *)
LEMMA SameCount ==
  ASSUME NEW A
  PROVE  /\ R!IsFiniteSet(A) <=> IsFiniteSet(A)
         /\ S!IsFiniteSet(A) <=> IsFiniteSet(A)
         /\ B!IsFiniteSet(A) <=> IsFiniteSet(A)
         /\ R!Cardinality(A) = Cardinality(A)
         /\ S!Cardinality(A) = Cardinality(A)
         /\ B!Cardinality(A) = Cardinality(A)
BY DEF IsFiniteSet, R!IsFiniteSet, S!IsFiniteSet, B!IsFiniteSet,
       Cardinality, R!Cardinality, S!Cardinality, B!Cardinality

LEMMA Finite ==
  ASSUME SyncAssumption, NEW A, A \subseteq Threads
  PROVE  IsFiniteSet(A) /\ Cardinality(A) \in Nat /\ (Cardinality(A) = 0 <=> A = {})
<1>1. IsFiniteSet(Threads)
  BY SameCount DEF SyncAssumption, R!ThreadsFinite
<1>2. IsFiniteSet(A)
  BY <1>1, FS_Subset
<1> QED BY <1>2, FS_CardinalityType, FS_EmptySet

(* A set of threads that one thread joins or leaves is one larger or       *)
(* smaller.                                                                *)
LEMMA CountJoin ==
  ASSUME NEW A, NEW t, IsFiniteSet(A), t \notin A
  PROVE  IsFiniteSet(A \cup {t}) /\ Cardinality(A \cup {t}) = Cardinality(A) + 1
BY FS_AddElement

LEMMA CountLeave ==
  ASSUME NEW A, NEW t, IsFiniteSet(A), t \in A
  PROVE  /\ IsFiniteSet(A \ {t}) /\ Cardinality(A \ {t}) = Cardinality(A) - 1
         /\ Cardinality(A) > 0
<1>1. Cardinality(A) \in Nat /\ Cardinality(A \ {t}) \in Nat
  BY FS_CardinalityType, FS_RemoveElement
<1> QED BY <1>1, FS_RemoveElement

-----------------------------------------------------------------------------
(* RwLock: how readers counts the threads that read.                       *)

LEMMA NoReader ==
  ASSUME SyncAssumption
  PROVE  /\ Cardinality(R!At({"reading"})) \in Nat
         /\ Cardinality(R!At({"reading"})) = 0 <=> R!At({"reading"}) = {}
BY Finite DEF R!At

LEMMA RwInit ==
  ASSUME SyncAssumption, R!Init PROVE R!IInv
<1>1. R!At({"reading"}) = {} /\ R!At({"drain"}) = {} /\ R!At({"rsleep", "wsleep"}) = {}
      /\ R!At({"writing"}) = {} /\ R!Writers = {}
  BY DEF R!Init, R!At, R!Writers
<1> QED
  BY <1>1, FS_EmptySet, SameCount
     DEF R!IInv, R!Init, R!TypeOK, R!Labels, R!ReadersCounted, R!OneWriter, R!NoLostWakeup

LEMMA RwReadLock ==
  ASSUME SyncAssumption, R!IInv, NEW t \in Threads, R!ReadLock(t) PROVE R!IInv'
<1> USE DEF R!IInv, R!TypeOK, R!Labels, R!OneWriter, R!Writers, R!NoLostWakeup, R!Goto
<1>1. CASE writer /\ R!Goto(t, "rsleep") /\ UNCHANGED readers
  <2>1. R!At({"reading"})' = R!At({"reading"})
    BY <1>1 DEF R!ReadLock, R!At
  <2>2. R!ReadersCounted'
    BY <1>1, <2>1, SameCount DEF R!ReadersCounted
  <2> QED BY <1>1, <2>2 DEF R!ReadLock, R!At
<1>2. CASE ~writer /\ R!Goto(t, "reading") /\ readers' = readers + 1
  <2>1. R!At({"reading"})' = R!At({"reading"}) \cup {t} /\ t \notin R!At({"reading"})
    BY <1>2 DEF R!ReadLock, R!At
  <2>2. R!ReadersCounted'
    <3>1. IsFiniteSet(R!At({"reading"}))
      BY Finite DEF R!At
    <3>2. Cardinality(R!At({"reading"})') = Cardinality(R!At({"reading"})) + 1
      BY <2>1, <3>1, CountJoin
    <3> QED BY <1>2, <3>2, SameCount DEF R!ReadersCounted
  <2> QED BY <1>2, <2>2 DEF R!ReadLock, R!At
<1> QED BY <1>1, <1>2 DEF R!ReadLock

LEMMA RwReadUnlock ==
  ASSUME SyncAssumption, R!IInv, NEW t \in Threads, R!ReadUnlock(t) PROVE R!IInv'
<1> USE DEF R!IInv, R!TypeOK, R!Labels, R!OneWriter, R!Writers, R!NoLostWakeup, R!Goto
<1>1. R!At({"reading"})' = R!At({"reading"}) \ {t} /\ t \in R!At({"reading"})
  BY DEF R!ReadUnlock, R!At, R!WakeDraining
<1>2. R!ReadersCounted' /\ readers' \in Nat
  <2>1. IsFiniteSet(R!At({"reading"}))
    BY Finite DEF R!At
  <2>2. /\ Cardinality(R!At({"reading"})') = Cardinality(R!At({"reading"})) - 1
        /\ Cardinality(R!At({"reading"})) > 0
    BY <1>1, <2>1, CountLeave
  <2>3. readers = Cardinality(R!At({"reading"})) /\ readers' = readers - 1
    BY SameCount DEF R!ReadersCounted, R!ReadUnlock
  <2>4. R!ReadersCounted'
    BY <2>2, <2>3, SameCount DEF R!ReadersCounted
  <2> QED BY <2>2, <2>3, <2>4
<1>3. R!At({"writing"}) = {}
  BY <1>1, NoReader, SameCount DEF R!ReadersCounted
<1>4. CASE readers' = 0 /\ R!WakeDraining(t)
  BY <1>2, <1>3, <1>4 DEF R!ReadUnlock, R!At, R!WakeDraining
<1>5. CASE readers' # 0 /\ R!Goto(t, "out")
  BY <1>2, <1>3, <1>5 DEF R!ReadUnlock, R!At
<1> QED BY <1>4, <1>5 DEF R!ReadUnlock

LEMMA RwWriteLock ==
  ASSUME SyncAssumption, R!IInv, NEW t \in Threads, R!WriteLock(t) PROVE R!IInv'
<1> USE DEF R!IInv, R!TypeOK, R!Labels, R!OneWriter, R!Writers, R!NoLostWakeup, R!Goto
<1>1. R!At({"reading"})' = R!At({"reading"})
  BY DEF R!WriteLock, R!At
<1>2. R!ReadersCounted'
  BY <1>1 DEF R!ReadersCounted, R!WriteLock
<1>3. CASE writer /\ R!Goto(t, "wsleep") /\ UNCHANGED writer
  BY <1>2, <1>3 DEF R!WriteLock, R!At
<1>4. CASE ~writer /\ writer' = TRUE /\ R!Goto(t, "drain") /\ readers > 0
  BY <1>2, <1>4 DEF R!WriteLock, R!At
<1>5. CASE ~writer /\ writer' = TRUE /\ R!Goto(t, "writing") /\ ~(readers > 0)
  BY <1>2, <1>5 DEF R!WriteLock, R!At
<1> QED BY <1>3, <1>4, <1>5 DEF R!WriteLock

LEMMA RwWriteDrained ==
  ASSUME SyncAssumption, R!IInv, NEW t \in Threads, R!WriteDrained(t) PROVE R!IInv'
<1> USE DEF R!IInv, R!TypeOK, R!Labels, R!OneWriter, R!Writers, R!NoLostWakeup, R!Goto
<1>1. R!At({"reading"})' = R!At({"reading"})
  BY DEF R!WriteDrained, R!At
<1>2. R!ReadersCounted'
  BY <1>1 DEF R!ReadersCounted, R!WriteDrained
<1>3. CASE R!Goto(t, "drain") /\ readers > 0
  BY <1>2, <1>3 DEF R!WriteDrained, R!At
<1>4. CASE R!Goto(t, "writing") /\ ~(readers > 0)
  BY <1>2, <1>4 DEF R!WriteDrained, R!At
<1> QED BY <1>3, <1>4 DEF R!WriteDrained

LEMMA RwWriteUnlock ==
  ASSUME SyncAssumption, R!IInv, NEW t \in Threads, R!WriteUnlock(t) PROVE R!IInv'
<1> USE DEF R!IInv, R!TypeOK, R!Labels, R!OneWriter, R!Writers, R!NoLostWakeup
<1>1. R!At({"reading"})' = R!At({"reading"})
  BY DEF R!WriteUnlock, R!At
<1>2. R!ReadersCounted'
  BY <1>1 DEF R!ReadersCounted, R!WriteUnlock
<1>3. R!Writers' = R!Writers \ {t} /\ R!Writers = {t}
  BY DEF R!WriteUnlock, R!At
<1>4. R!TypeOK' /\ R!OneWriter'
  BY <1>3 DEF R!WriteUnlock
<1>5. R!NoLostWakeup'
  BY <1>3 DEF R!WriteUnlock, R!At
<1>6. R!At({"writing"})' = {}
  BY <1>3 DEF R!WriteUnlock, R!At
<1> QED BY <1>2, <1>4, <1>5, <1>6

LEMMA RwStep ==
  ASSUME SyncAssumption, R!IInv, R!Next PROVE R!IInv'
BY RwReadLock, RwReadUnlock, RwWriteLock, RwWriteDrained, RwWriteUnlock DEF R!Next

(* While a writer waits or writes no reader comes in. *)
LEMMA RwNoNewReader ==
  ASSUME R!IInv, R!Next \/ UNCHANGED rVars, R!Writers # {}
  PROVE  R!At({"reading"})' \subseteq R!At({"reading"})
<1> USE DEF R!IInv, R!TypeOK, R!OneWriter, R!At, R!Goto
<1>1. CASE UNCHANGED rVars
  BY <1>1 DEF rVars
<1>2. ASSUME NEW t \in Threads, R!ReadLock(t) \/ R!ReadUnlock(t)
      PROVE  R!At({"reading"})' \subseteq R!At({"reading"})
  BY <1>2 DEF R!ReadLock, R!ReadUnlock, R!WakeDraining
<1>3. ASSUME NEW t \in Threads, R!WriteLock(t) \/ R!WriteDrained(t) \/ R!WriteUnlock(t)
      PROVE  R!At({"reading"})' \subseteq R!At({"reading"})
  BY <1>3 DEF R!WriteLock, R!WriteDrained, R!WriteUnlock
<1> QED BY <1>1, <1>2, <1>3 DEF R!Next

LEMMA RwAlone ==
  ASSUME SyncAssumption, R!IInv PROVE R!WriterAlone
<1>1. readers # 0 \/ R!At({"reading"}) = {}
  BY NoReader, SameCount DEF R!IInv, R!ReadersCounted
<1> QED BY <1>1 DEF R!IInv, R!OneWriter, R!Writers, R!At, R!WriterAlone

-----------------------------------------------------------------------------
(* Semaphore: the woken threads outnumber the units that wait.             *)

LEMMA SemInit ==
  ASSUME SyncAssumption, S!Init PROVE S!IInv
BY DEF SyncAssumption, S!SemaphoreAssumption, S!Init, S!IInv, S!TypeOK, S!Conserved,
       S!SleepersServed

LEMMA SemSignal ==
  ASSUME SyncAssumption, S!IInv, S!Signal PROVE S!IInv'
<1> USE DEF SyncAssumption, S!SemaphoreAssumption, S!IInv, S!TypeOK, S!Conserved,
            S!SleepersServed, S!Signal
<1>1. CASE sleepers = {} /\ UNCHANGED <<sleepers, woken>>
  BY <1>1
<1>2. ASSUME NEW t \in sleepers, sleepers' = sleepers \ {t}, woken' = woken \cup {t}
      PROVE  S!IInv'
  <2>1. Cardinality(woken') = Cardinality(woken) + 1 /\ Cardinality(woken) \in Nat
    BY <1>2, CountJoin, Finite
  <2>2. scount' <= Cardinality(woken')
    BY <1>2, <2>1, SameCount
  <2> QED BY <1>2, <2>2, SameCount
<1> QED BY <1>1, <1>2

LEMMA SemWait ==
  ASSUME SyncAssumption, S!IInv, NEW t \in Threads, S!Wait(t) \/ S!TryWait(t) PROVE S!IInv'
<1>1. Cardinality(woken) \in Nat
  BY Finite DEF S!IInv, S!TypeOK
<1> QED
  BY <1>1, SameCount
     DEF SyncAssumption, S!SemaphoreAssumption, S!IInv, S!TypeOK, S!Conserved,
         S!SleepersServed, S!Wait, S!TryWait, S!Take

LEMMA SemResume ==
  ASSUME SyncAssumption, S!IInv, NEW t \in Threads, S!Resume(t) PROVE S!IInv'
<1> USE DEF SyncAssumption, S!SemaphoreAssumption, S!IInv, S!TypeOK, S!Conserved,
            S!SleepersServed, S!Resume, S!Take
<1>1. /\ Cardinality(woken') = Cardinality(woken) - 1
      /\ Cardinality(woken) \in Nat /\ Cardinality(woken') \in Nat
  BY CountLeave, Finite
<1>2. CASE scount = 0 /\ sleepers' = sleepers \cup {t} /\ UNCHANGED <<scount, taken>>
  BY <1>1, <1>2, SameCount
<1>3. CASE scount # 0 /\ S!Take /\ UNCHANGED sleepers
  <2>0. S!Cardinality(woken) = Cardinality(woken) /\ S!Cardinality(woken') = Cardinality(woken')
    BY SameCount
  <2>1. S!SleepersServed'
    BY <1>1, <1>3, <2>0
  <2>2. S!TypeOK' /\ S!Conserved'
    BY <1>3
  <2> QED BY <1>3, <2>1, <2>2
<1> QED BY <1>2, <1>3

LEMMA SemStep ==
  ASSUME SyncAssumption, S!IInv, S!Next PROVE S!IInv'
BY SemSignal, SemWait, SemResume DEF S!Next

-----------------------------------------------------------------------------
(* Barrier: the last of a round wakes all who sleep, as many as counted.   *)

LEMMA BarInit ==
  ASSUME SyncAssumption, B!Init PROVE B!IInv
<1>1. B!At("asleep") = {} /\ Cardinality({}) = 0
  BY FS_EmptySet DEF B!Init, B!At
<1>2. Cardinality(Threads) \in Nat \ {0}
  BY Finite DEF SyncAssumption, B!BarrierAssumption
<1>3. B!TypeOK
  BY <1>2, SameCount DEF SyncAssumption, B!BarrierAssumption, B!Init, B!TypeOK, B!total
<1>4. B!SleepersCounted
  BY <1>1, SameCount DEF B!Init, B!SleepersCounted
<1>5. B!OneRoundAhead
  BY DEF B!Init, B!OneRoundAhead
<1> QED BY <1>3, <1>4, <1>5 DEF B!IInv

(* Everybody but the thread that comes last sleeps, and is woken. *)
LEMMA LastWakesAll ==
  ASSUME SyncAssumption, B!IInv, NEW t \in Threads,
         bpc[t] = "out", bcount = B!total, NEW W0, B!Woken(B!total, W0)
  PROVE  B!At("asleep") = Threads \ {t} /\ W0 = Threads \ {t}
<1> DEFINE A == B!At("asleep")
<1>1. /\ IsFiniteSet(Threads) /\ IsFiniteSet(A) /\ IsFiniteSet(Threads \ {t})
      /\ A \subseteq Threads \ {t}
  BY Finite DEF B!At
<1>2. Cardinality(Threads \ {t}) = Cardinality(Threads) - 1
  BY <1>1, CountLeave
<1>3. Cardinality(A) = B!total /\ B!total = Cardinality(Threads) - 1
  BY SameCount DEF B!IInv, B!SleepersCounted, B!total
<1>4. A = Threads \ {t}
  BY <1>1, <1>2, <1>3, FS_Subset
<1>5. W0 \subseteq A /\ Cardinality(W0) = Cardinality(A)
  BY <1>3, SameCount DEF B!Woken
<1> QED BY <1>1, <1>4, <1>5, FS_Subset

LEMMA BarArriveLast ==
  ASSUME SyncAssumption, B!IInv, NEW t \in Threads, B!ArriveLast(t) PROVE B!IInv'
<1> USE DEF B!IInv, B!TypeOK, B!SleepersCounted, B!OneRoundAhead
<1>1. PICK W0 \in SUBSET Threads :
        /\ B!Woken(B!total, W0)
        /\ bpc' = [u \in Threads |-> IF u \in W0 THEN "woken" ELSE bpc[u]]
  BY DEF B!ArriveLast
<1>2. B!At("asleep") = Threads \ {t} /\ W0 = Threads \ {t}
  BY <1>1, LastWakesAll DEF B!ArriveLast
<1>3. bpc' = [u \in Threads |-> IF u = t THEN "out" ELSE "woken"]
  BY <1>1, <1>2 DEF B!ArriveLast
<1>4. B!At("asleep")' = {}
  BY <1>3 DEF B!At
<1>5. B!TypeOK' /\ B!SleepersCounted'
  BY <1>3, <1>4, FS_EmptySet, SameCount, Finite
     DEF B!ArriveLast, SyncAssumption, B!BarrierAssumption, B!total
<1>6. \A u \in Threads : round'[u] = round[t] + 1
  BY <1>2 DEF B!ArriveLast, B!At
<1> QED BY <1>3, <1>5, <1>6

LEMMA BarArrive ==
  ASSUME SyncAssumption, B!IInv, NEW t \in Threads, B!Arrive(t) PROVE B!IInv'
<1> USE DEF B!IInv, B!TypeOK, B!SleepersCounted, B!OneRoundAhead
<1>1. B!At("asleep")' = B!At("asleep") \cup {t} /\ t \notin B!At("asleep")
  BY DEF B!Arrive, B!At
<1>2. B!SleepersCounted'
  <2>1. IsFiniteSet(B!At("asleep"))
    BY Finite DEF B!At
  <2>2. Cardinality(B!At("asleep")') = Cardinality(B!At("asleep")) + 1
    BY <1>1, <2>1, CountJoin
  <2> QED BY <2>2, SameCount DEF B!Arrive
<1>3. Cardinality(Threads) \in Nat \ {0}
  BY Finite DEF SyncAssumption, B!BarrierAssumption
<1>4. B!TypeOK'
  BY <1>3, SameCount DEF B!Arrive, B!total, SyncAssumption, B!BarrierAssumption
<1> QED BY <1>2, <1>4 DEF B!Arrive

LEMMA BarLeave ==
  ASSUME SyncAssumption, B!IInv, NEW t \in Threads, B!Leave(t) PROVE B!IInv'
<1>1. B!At("asleep")' = B!At("asleep")
  BY DEF B!Leave, B!At, B!IInv, B!TypeOK
<1> QED
  BY <1>1 DEF B!Leave, B!IInv, B!TypeOK, B!total, B!SleepersCounted, B!OneRoundAhead

LEMMA BarStep ==
  ASSUME SyncAssumption, B!IInv, B!Next PROVE B!IInv'
BY BarArriveLast, BarArrive, BarLeave DEF B!Next

(* Not everybody sleeps, so the sleepers are in one round. *)
LEMMA BarInStep ==
  ASSUME SyncAssumption, B!IInv PROVE B!RoundsInStep
<1>1. B!At("asleep") # Threads
  <2>1. Cardinality(B!At("asleep")) < Cardinality(Threads)
    BY Finite, SameCount
       DEF B!IInv, B!TypeOK, B!total, B!SleepersCounted, SyncAssumption, B!BarrierAssumption
  <2>2. Cardinality(Threads) \in Nat
    BY Finite
  <2> QED BY <2>1, <2>2
<1>2. PICK v \in Threads : bpc[v] # "asleep"
  BY <1>1 DEF B!At
<1> QED BY <1>2 DEF B!IInv, B!TypeOK, B!OneRoundAhead, B!RoundsInStep

-----------------------------------------------------------------------------
(* RecursiveMutex: where a thread is says what it holds.                   *)

LEMMA RmInit ==
  ASSUME SyncAssumption, M!Init PROVE M!IInv
BY DEF SyncAssumption, M!RecursiveMutexAssumption, M!Init, M!IInv, M!TypeOK, M!Labels,
       M!OwnerHolds, M!HoldsAt, M!PlaceTells, M!FreeIsClear

LEMMA RmLock ==
  ASSUME SyncAssumption, M!IInv, NEW t \in Callers,
         M!LockTest(t) \/ M!LockTake(t) \/ M!TryLockFail(t) \/ M!LockTag(t) \/ M!LockCount(t)
  PROVE  M!IInv'
<1> USE DEF SyncAssumption, M!RecursiveMutexAssumption, M!IInv, M!TypeOK, M!Labels,
            M!OwnerHolds, M!HoldsAt, M!PlaceTells, M!FreeIsClear, M!Goto
<1>1. CASE M!LockTest(t)
  BY <1>1 DEF M!LockTest
<1>2. CASE M!LockTake(t)
  BY <1>2 DEF M!LockTake
<1>3. CASE M!TryLockFail(t)
  BY <1>3 DEF M!TryLockFail
<1>4. CASE M!LockTag(t)
  BY <1>4 DEF M!LockTag
<1>5. CASE M!LockCount(t)
  BY <1>5 DEF M!LockCount
<1> QED BY <1>1, <1>2, <1>3, <1>4, <1>5

LEMMA RmUnlock ==
  ASSUME SyncAssumption, M!IInv, NEW t \in Callers,
         M!UnlockCount(t) \/ M!UnlockTag(t) \/ M!UnlockRelease(t)
  PROVE  M!IInv'
<1> USE DEF SyncAssumption, M!RecursiveMutexAssumption, M!IInv, M!TypeOK, M!Labels,
            M!OwnerHolds, M!HoldsAt, M!PlaceTells, M!FreeIsClear, M!Goto
<1>1. CASE M!UnlockCount(t)
  BY <1>1 DEF M!UnlockCount
<1>2. CASE M!UnlockTag(t)
  BY <1>2 DEF M!UnlockTag
<1>3. CASE M!UnlockRelease(t)
  BY <1>3 DEF M!UnlockRelease
<1> QED BY <1>1, <1>2, <1>3

LEMMA RmWait ==
  ASSUME SyncAssumption, M!IInv, NEW t \in Callers,
         \/ M!WaitClear(t) \/ M!WaitSleep(t) \/ M!WaitWake(t)
         \/ M!WaitTake(t) \/ M!WaitRestore(t)
  PROVE  M!IInv'
<1> USE DEF SyncAssumption, M!RecursiveMutexAssumption, M!IInv, M!TypeOK, M!Labels,
            M!OwnerHolds, M!HoldsAt, M!PlaceTells, M!FreeIsClear, M!Goto
<1>1. CASE M!WaitClear(t)
  BY <1>1 DEF M!WaitClear
<1>2. CASE M!WaitSleep(t)
  BY <1>2 DEF M!WaitSleep
<1>3. CASE M!WaitWake(t)
  BY <1>3 DEF M!WaitWake
<1>4. CASE M!WaitTake(t)
  BY <1>4 DEF M!WaitTake
<1>5. CASE M!WaitRestore(t)
  BY <1>5 DEF M!WaitRestore
<1> QED BY <1>1, <1>2, <1>3, <1>4, <1>5

LEMMA RmStep ==
  ASSUME SyncAssumption, M!IInv, M!Next PROVE M!IInv'
BY RmLock, RmUnlock, RmWait DEF M!Next, M!Step

LEMMA RmDepth ==
  ASSUME SyncAssumption, M!IInv PROVE M!CounterIsDepth /\ M!OneInside
<1> USE DEF SyncAssumption, M!RecursiveMutexAssumption, M!IInv, M!TypeOK, M!Labels,
            M!OwnerHolds, M!HoldsAt, M!PlaceTells, M!FreeIsClear
<1>1. \A t \in Callers : M!Inside(t) => owner = t /\ tag = t /\ counter = depth[t]
  BY DEF M!Inside
<1>2. tag # NoThread => owner = tag
  <2>1. CASE owner = NoThread
    BY <2>1
  <2>2. CASE owner \in Callers
    BY <2>2
  <2> QED BY <2>1, <2>2
<1> QED BY <1>1, <1>2 DEF M!CounterIsDepth, M!OneInside

-----------------------------------------------------------------------------
(* CallOnce *)

LEMMA OnceInit ==
  ASSUME O!Init PROVE O!IInv
BY DEF O!Init, O!IInv, O!TypeOK, O!Labels, O!EnteredOnce, O!InACall, O!BackMeansDone

(* A call of call_once on top of the calls a thread is in. *)
LEMMA Push ==
  ASSUME NEW F, NEW s \in Seq(F), NEW f \in F
  PROVE  /\ <<f>> \o s \in Seq(F) /\ <<f>> \o s # <<>>
         /\ Head(<<f>> \o s) = f /\ Tail(<<f>> \o s) = s
OBVIOUS

LEMMA OnceCall ==
  ASSUME SyncAssumption, O!IInv, NEW t \in Callers, NEW f \in Flags,
         O!CallFirst(t, f) \/ O!CallWait(t, f) \/ O!CallDone(t, f)
  PROVE  O!IInv'
<1> USE DEF O!IInv, O!TypeOK, O!Labels, O!EnteredOnce, O!InACall, O!BackMeansDone
<1> DEFINE s == <<f>> \o stack[t]
<1>1. s \in Seq(Flags) /\ s # <<>> /\ Head(s) = f
  BY Push
<1>2. CASE O!CallFirst(t, f)
  <2>1. /\ stack' = [stack EXCEPT ![t] = s] /\ opc' = [opc EXCEPT ![t] = "func"]
        /\ status[f] = "init" /\ status' = [status EXCEPT ![f] = "progress"]
        /\ runs' = [runs EXCEPT ![f] = @ + 1] /\ back' = back
    BY <1>2 DEF O!CallFirst
  <2> HIDE DEF s
  <2> QED BY <1>1, <2>1
<1>3. CASE O!CallWait(t, f)
  <2>1. /\ stack' = [stack EXCEPT ![t] = s] /\ opc' = [opc EXCEPT ![t] = "asleep"]
        /\ status[f] = "progress" /\ UNCHANGED <<status, runs, back>>
    BY <1>3 DEF O!CallWait
  <2> HIDE DEF s
  <2> QED BY <1>1, <2>1
<1>4. CASE O!CallDone(t, f)
  BY <1>4 DEF O!CallDone
<1> QED BY <1>2, <1>3, <1>4

(* What the innermost call of a thread leaves when it comes back. *)
LEMMA OncePop ==
  ASSUME O!IInv, NEW t \in Callers, opc[t] # "out"
  PROVE  /\ Head(stack[t]) \in Flags /\ Tail(stack[t]) \in Seq(Flags)
         /\ O!Caller(t) \in {"out", "func"}
         /\ O!Caller(t) = "out" <=> Tail(stack[t]) = <<>>
<1>1. stack[t] \in Seq(Flags) /\ stack[t] # <<>>
  BY DEF O!IInv, O!TypeOK, O!InACall
<1> QED BY <1>1 DEF O!Caller

LEMMA OnceFinish ==
  ASSUME SyncAssumption, O!IInv, NEW t \in Callers, O!Finish(t) PROVE O!IInv'
<1> USE DEF O!IInv, O!TypeOK, O!Labels, O!EnteredOnce, O!InACall, O!BackMeansDone
<1> DEFINE h == Head(stack[t])
           c == O!Caller(t)
           tl == Tail(stack[t])
<1>1. h \in Flags /\ tl \in Seq(Flags) /\ c \in {"out", "func"} /\ (c = "out" <=> tl = <<>>)
  BY OncePop DEF O!Finish
<1>2. /\ status' = [status EXCEPT ![h] = "done"] /\ runs' = runs
      /\ opc' = [u \in Callers |-> IF u = t THEN c
                                   ELSE IF u \in O!Sleepers(h) THEN "woken" ELSE opc[u]]
      /\ stack' = [stack EXCEPT ![t] = tl]
      /\ back' = [back EXCEPT ![t] = @ \cup {h}]
  BY DEF O!Finish, O!Pop
<1> HIDE DEF h, c, tl
<1>3. O!TypeOK' /\ O!EnteredOnce' /\ O!BackMeansDone'
  BY <1>1, <1>2
<1>4. \A u \in Callers \ {t} :
        /\ opc'[u] = opc[u] \/ (opc[u] = "asleep" /\ opc'[u] = "woken")
        /\ stack'[u] = stack[u]
  BY <1>2 DEF O!Sleepers
<1>5. O!InACall'
  BY <1>1, <1>2, <1>4
<1> QED BY <1>3, <1>5

LEMMA OnceResume ==
  ASSUME SyncAssumption, O!IInv, NEW t \in Callers, O!Resume(t) PROVE O!IInv'
<1> USE DEF O!IInv, O!TypeOK, O!Labels, O!EnteredOnce, O!InACall, O!BackMeansDone
<1> DEFINE h == Head(stack[t])
           c == O!Caller(t)
           tl == Tail(stack[t])
<1>1. h \in Flags /\ tl \in Seq(Flags) /\ c \in {"out", "func"} /\ (c = "out" <=> tl = <<>>)
  BY OncePop DEF O!Resume
<1>2. CASE opc' = [opc EXCEPT ![t] = "asleep"] /\ UNCHANGED <<stack, back>>
  BY <1>2 DEF O!Resume
<1>3. CASE /\ status[h] # "progress" /\ opc' = [opc EXCEPT ![t] = c]
           /\ stack' = [stack EXCEPT ![t] = tl] /\ back' = [back EXCEPT ![t] = @ \cup {h}]
  <2>1. status[h] = "done" /\ UNCHANGED <<status, runs>>
    BY <1>1, <1>3 DEF O!Resume
  <2> HIDE DEF h, c, tl
  <2> QED BY <1>1, <1>3, <2>1
<1> QED BY <1>2, <1>3 DEF O!Resume, O!Pop

LEMMA OnceStep ==
  ASSUME SyncAssumption, O!IInv, O!Next PROVE O!IInv'
BY OnceCall, OnceFinish, OnceResume DEF O!Next, O!Step

-----------------------------------------------------------------------------
(* ThrdLifecycle: a parent and its child move in step.                     *)

LEMMA ThrdInit ==
  ASSUME T!Init PROVE T!IInv
BY DEF T!Init, T!IInv, T!TypeOK, T!Dead, T!ParentPlace, T!ChildPlace, T!ResultKept, T!Running,
       T!Resources, T!Creating, T!Waiting

SameThrd(q) ==
  /\ tpc'[q] = tpc[q] /\ child'[q] = child[q] /\ res'[q] = res[q] /\ info'[q] = info[q]
  /\ rc'[q] = rc[q] /\ returned'[q] = returned[q] /\ joined'[q] = joined[q]

(* A step of p leaves the other parents and their children where they are. *)
LEMMA ThrdOthers ==
  ASSUME T!IInv, T!TypeOK', NEW p \in Parents,
         \A q \in Parents \ {p} : SameThrd(q),
         T!ParentPlace(p)', T!ChildPlace(p)', T!ResultKept(p)'
  PROVE  T!IInv'
<1>1. ASSUME NEW q \in Parents \ {p}
      PROVE  T!ParentPlace(q)' /\ T!ChildPlace(q)' /\ T!ResultKept(q)'
  BY DEF T!IInv, T!ParentPlace, T!ChildPlace, T!ResultKept, T!Running, T!Creating, T!Waiting, SameThrd
<1> QED BY <1>1 DEF T!IInv

(* Where a parent is says what it has. *)
LEMMA ThrdAt ==
  ASSUME T!IInv, NEW p \in Parents
  PROVE  /\ tpc[p] \in T!Creating => child[p] = "none" /\ info[p].alive
         /\ tpc[p] = "out" => child[p] = "none" /\ res[p] = {}
         /\ tpc[p] \in {"create", "error1"} => res[p] = {"object"}
         /\ tpc[p] = "map" => res[p] = {"object", "stack"}
         /\ tpc[p] = "kernel" => res[p] = {"object", "stack", "mirror", "mapping"}
         /\ tpc[p] \in {"mask", "start", "error2"} => res[p] = T!Resources
         /\ tpc[p] \in {"handshake", "asleep", "woken"}
              => child[p] \in T!Running /\ res[p] = T!Resources /\ info[p].alive
         /\ tpc[p] = "created" => child[p] \in {"run", "exit", "gone"} /\ res[p] = T!Resources
         /\ tpc[p] = "close" => child[p] = "gone" /\ res[p] = T!Resources
         /\ tpc[p] = "free" => child[p] = "gone" /\ res[p] = {"object"}
         /\ tpc[p] \in {"out", "created", "close", "free"} => ~info[p].alive
BY DEF T!IInv, T!ParentPlace, T!Creating, T!Waiting

LEMMA ThrdMalloc ==
  ASSUME T!IInv, NEW p \in Parents, T!Malloc(p) PROVE T!IInv'
<1> USE DEF T!IInv, T!TypeOK, T!Resources, T!Goto, T!Get, T!Fresh, T!Malloc
<1>1. tpc[p] = "out" /\ child[p] = "none" /\ ~info[p].alive /\ res[p] = {}
  BY ThrdAt DEF T!Creating, T!Waiting
<1>2. T!TypeOK' /\ \A q \in Parents \ {p} : SameThrd(q)
  <2>1. PICK garbage \in Results : rc' = [rc EXCEPT ![p] = garbage]
    OBVIOUS
  <2> QED BY <1>1, <2>1 DEF SameThrd
<1>3. /\ tpc'[p] = "create" /\ res'[p] = {"object"}
      /\ info'[p].alive /\ ~info'[p].started /\ info'[p].owner = "free"
  BY <1>1
<1>4. T!ParentPlace(p)' /\ T!ChildPlace(p)' /\ T!ResultKept(p)'
  BY <1>1, <1>3 DEF T!ParentPlace, T!ChildPlace, T!ResultKept, T!Running, T!Creating, T!Waiting
<1> QED BY <1>2, <1>4, ThrdOthers

LEMMA ThrdMemalign ==
  ASSUME T!IInv, NEW p \in Parents, T!Memalign(p) PROVE T!IInv'
<1> USE DEF T!IInv, T!TypeOK, T!Resources, T!Goto, T!Get, T!Memalign
<1>1. tpc[p] = "create" /\ res[p] = {"object"} /\ child[p] = "none" /\ info[p].alive
  BY ThrdAt DEF T!Creating, T!Waiting
<1>2. T!TypeOK' /\ \A q \in Parents \ {p} : SameThrd(q)
  <2>1. \A q \in Parents \ {p} : SameThrd(q)
    BY DEF SameThrd
  <2>2. res' \in [Parents -> SUBSET T!Resources]
    BY <1>1
  <2>3. T!TypeOK'
    BY <1>1, <2>2
  <2> QED BY <2>1, <2>3
<1>3. \/ tpc'[p] = "error1" /\ res'[p] = {"object"}
      \/ tpc'[p] = "map" /\ res'[p] = {"object", "stack"}
  BY <1>1
<1>4. T!ParentPlace(p)' /\ T!ChildPlace(p)' /\ T!ResultKept(p)'
  BY <1>1, <1>3 DEF T!ParentPlace, T!ChildPlace, T!ResultKept, T!Running, T!Creating, T!Waiting
<1> QED BY <1>2, <1>4, ThrdOthers

LEMMA ThrdMapStack ==
  ASSUME T!IInv, NEW p \in Parents, T!MapStack(p) PROVE T!IInv'
<1> USE DEF T!IInv, T!TypeOK, T!Resources, T!Goto, T!Get, T!Drop, T!MapStack
<1>1. tpc[p] = "map" /\ res[p] = {"object", "stack"} /\ child[p] = "none" /\ info[p].alive
  BY ThrdAt DEF T!Creating, T!Waiting
<1>2. T!TypeOK' /\ \A q \in Parents \ {p} : SameThrd(q)
  <2>1. \A q \in Parents \ {p} : SameThrd(q)
    BY DEF SameThrd
  <2>2. res' \in [Parents -> SUBSET T!Resources]
    BY <1>1
  <2>3. T!TypeOK'
    BY <1>1, <2>2
  <2> QED BY <2>1, <2>3
<1>3. \/ tpc'[p] = "error1" /\ res'[p] = {"object"}
      \/ tpc'[p] = "kernel" /\ res'[p] = {"object", "stack", "mirror", "mapping"}
  BY <1>1
<1>4. T!ParentPlace(p)' /\ T!ChildPlace(p)' /\ T!ResultKept(p)'
  BY <1>1, <1>3 DEF T!ParentPlace, T!ChildPlace, T!ResultKept, T!Running, T!Creating, T!Waiting
<1> QED BY <1>2, <1>4, ThrdOthers

LEMMA ThrdCreateThread ==
  ASSUME T!IInv, NEW p \in Parents, T!CreateThread(p) PROVE T!IInv'
<1> USE DEF T!IInv, T!TypeOK, T!Resources, T!Goto, T!Get, T!Drop, T!CreateThread
<1>1. /\ tpc[p] = "kernel" /\ child[p] = "none" /\ info[p].alive
      /\ res[p] = {"object", "stack", "mirror", "mapping"}
  BY ThrdAt DEF T!Creating, T!Waiting
<1>2. T!TypeOK' /\ \A q \in Parents \ {p} : SameThrd(q)
  <2>1. \A q \in Parents \ {p} : SameThrd(q)
    BY DEF SameThrd
  <2>2. res' \in [Parents -> SUBSET T!Resources]
    BY <1>1
  <2>3. T!TypeOK'
    BY <1>1, <2>2
  <2> QED BY <2>1, <2>3
<1>3. \/ tpc'[p] = "error1" /\ res'[p] = {"object"}
      \/ tpc'[p] = "mask" /\ res'[p] = T!Resources
  BY <1>1
<1>4. T!ParentPlace(p)' /\ T!ChildPlace(p)' /\ T!ResultKept(p)'
  BY <1>1, <1>3 DEF T!ParentPlace, T!ChildPlace, T!ResultKept, T!Running, T!Creating, T!Waiting
<1> QED BY <1>2, <1>4, ThrdOthers

LEMMA ThrdSetCoreMask ==
  ASSUME T!IInv, NEW p \in Parents, T!SetCoreMask(p) PROVE T!IInv'
<1> USE DEF T!IInv, T!TypeOK, T!Resources, T!Goto, T!SetCoreMask
<1>1. tpc[p] = "mask" /\ res[p] = T!Resources /\ child[p] = "none" /\ info[p].alive
  BY ThrdAt DEF T!Creating, T!Waiting
<1>2. T!TypeOK' /\ \A q \in Parents \ {p} : SameThrd(q)
  <2>1. \A q \in Parents \ {p} : SameThrd(q)
    BY DEF SameThrd
  <2>2. res' \in [Parents -> SUBSET T!Resources]
    BY <1>1
  <2>3. T!TypeOK'
    BY <1>1, <2>2
  <2> QED BY <2>1, <2>3
<1>3. tpc'[p] \in {"error2", "start"} /\ res'[p] = T!Resources
  BY <1>1
<1>4. T!ParentPlace(p)' /\ T!ChildPlace(p)' /\ T!ResultKept(p)'
  BY <1>1, <1>3 DEF T!ParentPlace, T!ChildPlace, T!ResultKept, T!Running, T!Creating, T!Waiting
<1> QED BY <1>2, <1>4, ThrdOthers

LEMMA ThrdStartThread ==
  ASSUME T!IInv, NEW p \in Parents, T!StartThread(p) PROVE T!IInv'
<1> USE DEF T!IInv, T!TypeOK, T!Resources, T!Goto, T!ChildGoto, T!StartThread
<1>1. tpc[p] = "start" /\ res[p] = T!Resources /\ child[p] = "none" /\ info[p].alive
  BY ThrdAt DEF T!Creating, T!Waiting
<1>2. T!TypeOK' /\ \A q \in Parents \ {p} : SameThrd(q)
  <2>1. \A q \in Parents \ {p} : SameThrd(q)
    BY DEF SameThrd
  <2>2. res' \in [Parents -> SUBSET T!Resources]
    BY <1>1
  <2>3. T!TypeOK'
    BY <1>1, <2>2
  <2> QED BY <2>1, <2>3
<1>3. \/ tpc'[p] = "error2" /\ child'[p] = "none"
      \/ tpc'[p] = "handshake" /\ child'[p] = "entry"
  BY <1>1
<1>4. T!ParentPlace(p)' /\ T!ChildPlace(p)' /\ T!ResultKept(p)'
  BY <1>1, <1>3 DEF T!ParentPlace, T!ChildPlace, T!ResultKept, T!Running, T!Creating, T!Waiting
<1> QED BY <1>2, <1>4, ThrdOthers

LEMMA ThrdError2 ==
  ASSUME T!IInv, NEW p \in Parents, T!Error2(p) PROVE T!IInv'
<1> USE DEF T!IInv, T!TypeOK, T!Resources, T!Goto, T!CloseThread, T!Drop, T!Error2
<1>1. tpc[p] = "error2" /\ res[p] = T!Resources /\ child[p] = "none" /\ info[p].alive
  BY ThrdAt DEF T!Creating, T!Waiting
<1>2. T!TypeOK' /\ \A q \in Parents \ {p} : SameThrd(q)
  <2>1. \A q \in Parents \ {p} : SameThrd(q)
    BY DEF SameThrd
  <2>2. res' \in [Parents -> SUBSET T!Resources]
    BY <1>1
  <2>3. T!TypeOK'
    BY <1>1, <2>2
  <2> QED BY <2>1, <2>3
<1>3. tpc'[p] = "error1" /\ res'[p] = {"object"}
  BY <1>1
<1>4. T!ParentPlace(p)' /\ T!ChildPlace(p)' /\ T!ResultKept(p)'
  BY <1>1, <1>3 DEF T!ParentPlace, T!ChildPlace, T!ResultKept, T!Running, T!Creating, T!Waiting
<1> QED BY <1>2, <1>4, ThrdOthers

LEMMA ThrdError1 ==
  ASSUME T!IInv, NEW p \in Parents, T!Error1(p) PROVE T!IInv'
<1> USE DEF T!IInv, T!TypeOK, T!Resources, T!Goto, T!Dead, T!Drop, T!Error1
<1>1. tpc[p] = "error1" /\ res[p] = {"object"} /\ child[p] = "none" /\ info[p].alive
  BY ThrdAt DEF T!Creating, T!Waiting
<1>2. T!TypeOK' /\ \A q \in Parents \ {p} : SameThrd(q)
  <2>1. \A q \in Parents \ {p} : SameThrd(q)
    BY DEF SameThrd
  <2>2. res' \in [Parents -> SUBSET T!Resources]
    BY <1>1
  <2>3. T!TypeOK'
    BY <1>1, <2>2
  <2> QED BY <2>1, <2>3
<1>3. tpc'[p] = "out" /\ res'[p] = {} /\ info'[p] = T!Dead
  BY <1>1
<1>4. T!ParentPlace(p)' /\ T!ChildPlace(p)' /\ T!ResultKept(p)'
  BY <1>1, <1>3 DEF T!ParentPlace, T!ChildPlace, T!ResultKept, T!Running, T!Creating, T!Waiting
<1> QED BY <1>2, <1>4, ThrdOthers

LEMMA ThrdHandshake ==
  ASSUME T!IInv, NEW p \in Parents, T!Handshake(p) PROVE T!IInv'
<1>0. info' \in [Parents -> [alive : BOOLEAN, started : BOOLEAN, owner : {"free", "child"}]]
  <2>1. info' = info \/ info' = [info EXCEPT ![p] = T!Dead]
    BY DEF T!Handshake
  <2>2. info \in [Parents -> [alive : BOOLEAN, started : BOOLEAN, owner : {"free", "child"}]]
    BY DEF T!IInv, T!TypeOK
  <2>3. T!Dead \in [alive : BOOLEAN, started : BOOLEAN, owner : {"free", "child"}]
    BY DEF T!Dead
  <2> QED BY <2>1, <2>2, <2>3
<1> USE DEF T!IInv, T!TypeOK, T!Resources, T!Goto, T!Dead, T!Handshake
<1>1. /\ tpc[p] \in {"handshake", "woken"} /\ child[p] \in T!Running
      /\ res[p] = T!Resources /\ info[p].alive
  BY ThrdAt
<1>2. T!TypeOK' /\ \A q \in Parents \ {p} : SameThrd(q)
  <2>1. \A q \in Parents \ {p} : SameThrd(q)
    BY DEF SameThrd
  <2>2. res' \in [Parents -> SUBSET T!Resources]
    BY <1>1
  <2>3. T!TypeOK'
    <3>1. tpc' \in [Parents -> {"out", "create", "map", "kernel", "mask", "start", "error1",
                                "error2", "handshake", "asleep", "woken", "created", "close",
                                "free"}]
      OBVIOUS
    <3> QED BY <1>0, <2>2, <3>1
  <2> QED BY <2>1, <2>3
<1>3. CASE info[p].started /\ info' = [info EXCEPT ![p] = T!Dead] /\ T!Goto(p, "created")
  <2>1. child[p] \in {"run", "exit", "gone"}
    BY <1>1, <1>3 DEF T!ChildPlace, T!Running
  <2>2. tpc'[p] = "created" /\ ~info'[p].alive
    BY <1>3
  <2>3. T!ParentPlace(p)' /\ T!ChildPlace(p)' /\ T!ResultKept(p)'
    BY <1>1, <2>1, <2>2 DEF T!ParentPlace, T!ChildPlace, T!ResultKept, T!Running, T!Creating, T!Waiting
  <2> QED BY <1>2, <2>3, ThrdOthers
<1>4. CASE T!Goto(p, "asleep") /\ UNCHANGED info
  <2>1. T!ParentPlace(p)' /\ T!ChildPlace(p)' /\ T!ResultKept(p)'
    BY <1>1, <1>4 DEF T!ParentPlace, T!ChildPlace, T!ResultKept, T!Running, T!Creating, T!Waiting
  <2> QED BY <1>2, <2>1, ThrdOthers
<1> QED BY <1>3, <1>4

LEMMA ThrdJoinWait ==
  ASSUME T!IInv, NEW p \in Parents, T!JoinWait(p) PROVE T!IInv'
<1> USE DEF T!IInv, T!TypeOK, T!Resources, T!Goto, T!JoinWait
<1>1. tpc[p] = "created" /\ child[p] = "gone" /\ ~info[p].alive /\ res[p] = T!Resources
  BY ThrdAt DEF T!Creating, T!Waiting
<1>2. T!TypeOK' /\ \A q \in Parents \ {p} : SameThrd(q)
  <2>1. \A q \in Parents \ {p} : SameThrd(q)
    BY DEF SameThrd
  <2>2. res' \in [Parents -> SUBSET T!Resources]
    BY <1>1
  <2>3. T!TypeOK'
    BY <1>1, <2>2
  <2> QED BY <2>1, <2>3
<1>3. tpc'[p] = "close" /\ joined'[p] = rc[p]
  BY <1>1
<1>4. T!ParentPlace(p)' /\ T!ChildPlace(p)' /\ T!ResultKept(p)'
  BY <1>1, <1>3 DEF T!ParentPlace, T!ChildPlace, T!ResultKept, T!Running, T!Creating, T!Waiting
<1> QED BY <1>2, <1>4, ThrdOthers

LEMMA ThrdJoinClose ==
  ASSUME T!IInv, NEW p \in Parents, T!JoinClose(p) PROVE T!IInv'
<1> USE DEF T!IInv, T!TypeOK, T!Resources, T!Goto, T!CloseThread, T!Drop, T!JoinClose
<1>1. tpc[p] = "close" /\ child[p] = "gone" /\ ~info[p].alive /\ res[p] = T!Resources
  BY ThrdAt DEF T!Creating, T!Waiting
<1>2. T!TypeOK' /\ \A q \in Parents \ {p} : SameThrd(q)
  <2>1. \A q \in Parents \ {p} : SameThrd(q)
    BY DEF SameThrd
  <2>2. res' \in [Parents -> SUBSET T!Resources]
    BY <1>1
  <2>3. T!TypeOK'
    BY <1>1, <2>2
  <2> QED BY <2>1, <2>3
<1>3. tpc'[p] = "free" /\ res'[p] = {"object"}
  BY <1>1
<1>4. T!ParentPlace(p)' /\ T!ChildPlace(p)' /\ T!ResultKept(p)'
  BY <1>1, <1>3 DEF T!ParentPlace, T!ChildPlace, T!ResultKept, T!Running, T!Creating, T!Waiting
<1> QED BY <1>2, <1>4, ThrdOthers

LEMMA ThrdJoinFree ==
  ASSUME T!IInv, NEW p \in Parents, T!JoinFree(p) PROVE T!IInv'
<1> USE DEF T!IInv, T!TypeOK, T!Resources, T!Goto, T!ChildGoto, T!Drop, T!JoinFree
<1>1. tpc[p] = "free" /\ child[p] = "gone" /\ ~info[p].alive /\ res[p] = {"object"}
  BY ThrdAt DEF T!Creating, T!Waiting
<1>2. T!TypeOK' /\ \A q \in Parents \ {p} : SameThrd(q)
  <2>1. \A q \in Parents \ {p} : SameThrd(q)
    BY DEF SameThrd
  <2>2. res' \in [Parents -> SUBSET T!Resources]
    BY <1>1
  <2>3. T!TypeOK'
    BY <1>1, <2>2
  <2> QED BY <2>1, <2>3
<1>3. tpc'[p] = "out" /\ child'[p] = "none" /\ res'[p] = {}
  BY <1>1
<1>4. T!ParentPlace(p)' /\ T!ChildPlace(p)' /\ T!ResultKept(p)'
  BY <1>1, <1>3 DEF T!ParentPlace, T!ChildPlace, T!ResultKept, T!Running, T!Creating, T!Waiting
<1> QED BY <1>2, <1>4, ThrdOthers

LEMMA ThrdChild ==
  ASSUME T!IInv, NEW p \in Parents, T!ChildStep(p) PROVE T!IInv'
<1> USE DEF T!IInv, T!TypeOK, T!Goto, T!ChildGoto
<1>0. tpc[p] \in T!Waiting \/ child[p] \in {"none", "run", "exit", "gone"}
  BY DEF T!ParentPlace, T!Running, T!Creating
<1>1. CASE T!ChildLock(p)
  <2>1. T!TypeOK' /\ \A q \in Parents \ {p} : SameThrd(q)
    BY <1>1 DEF T!ChildLock, SameThrd
  <2>2. T!ParentPlace(p)' /\ T!ChildPlace(p)' /\ T!ResultKept(p)'
    BY <1>0, <1>1 DEF T!ChildLock, T!ParentPlace, T!ChildPlace, T!ResultKept, T!Running,
                      T!Creating, T!Waiting
  <2> QED BY <2>1, <2>2, ThrdOthers
<1>2. CASE T!ChildMark(p)
  <2>1. T!TypeOK' /\ \A q \in Parents \ {p} : SameThrd(q)
    BY <1>2 DEF T!ChildMark, SameThrd
  <2>2. T!ParentPlace(p)' /\ T!ChildPlace(p)' /\ T!ResultKept(p)'
    BY <1>0, <1>2 DEF T!ChildMark, T!ParentPlace, T!ChildPlace, T!ResultKept, T!Running,
                      T!Creating, T!Waiting
  <2> QED BY <2>1, <2>2, ThrdOthers
<1>3. CASE T!ChildSignal(p)
  <2>1. T!TypeOK' /\ \A q \in Parents \ {p} : SameThrd(q)
    BY <1>3 DEF T!ChildSignal, SameThrd
  <2>2. T!ParentPlace(p)' /\ T!ChildPlace(p)' /\ T!ResultKept(p)'
    BY <1>0, <1>3 DEF T!ChildSignal, T!ParentPlace, T!ChildPlace, T!ResultKept, T!Running,
                      T!Creating, T!Waiting
  <2> QED BY <2>1, <2>2, ThrdOthers
<1>4. CASE T!ChildUnlock(p)
  <2>1. T!TypeOK' /\ \A q \in Parents \ {p} : SameThrd(q)
    BY <1>4 DEF T!ChildUnlock, SameThrd
  <2>2. T!ParentPlace(p)' /\ T!ChildPlace(p)' /\ T!ResultKept(p)'
    BY <1>0, <1>4 DEF T!ChildUnlock, T!ParentPlace, T!ChildPlace, T!ResultKept, T!Running,
                      T!Creating, T!Waiting
  <2> QED BY <2>1, <2>2, ThrdOthers
<1>5. CASE T!ThrdExit(p)
  <2>1. PICK r \in Results :
          returned' = [returned EXCEPT ![p] = r] /\ rc' = [rc EXCEPT ![p] = r]
    BY <1>5 DEF T!ThrdExit
  <2>2. T!TypeOK' /\ \A q \in Parents \ {p} : SameThrd(q)
    BY <1>5, <2>1 DEF T!ThrdExit, SameThrd
  <2>3. T!ParentPlace(p)' /\ T!ChildPlace(p)' /\ T!ResultKept(p)'
    BY <1>5, <2>1 DEF T!ThrdExit, T!ParentPlace, T!ChildPlace, T!ResultKept, T!Running,
                      T!Creating, T!Waiting
  <2> QED BY <2>2, <2>3, ThrdOthers
<1>6. CASE T!ExitThread(p)
  <2>1. T!TypeOK' /\ \A q \in Parents \ {p} : SameThrd(q)
    BY <1>6 DEF T!ExitThread, SameThrd
  <2>2. T!ParentPlace(p)' /\ T!ChildPlace(p)' /\ T!ResultKept(p)'
    BY <1>6 DEF T!ExitThread, T!ParentPlace, T!ChildPlace, T!ResultKept, T!Running,
                T!Creating, T!Waiting
  <2> QED BY <2>1, <2>2, ThrdOthers
<1> QED BY <1>1, <1>2, <1>3, <1>4, <1>5, <1>6 DEF T!ChildStep

LEMMA ThrdStep ==
  ASSUME T!IInv, T!Next PROVE T!IInv'
BY ThrdMalloc, ThrdMemalign, ThrdMapStack, ThrdCreateThread, ThrdSetCoreMask, ThrdStartThread,
   ThrdError2, ThrdError1, ThrdHandshake, ThrdJoinWait, ThrdJoinClose, ThrdJoinFree, ThrdChild
   DEF T!Next, T!ParentStep

LEMMA ThrdPromises ==
  ASSUME T!IInv PROVE T!InfoAlive /\ T!NothingLeaks /\ T!ChildHasResources
<1>1. \A p \in Parents :
        child[p] \in {"entry", "mark", "signal", "unlock"} => tpc[p] \in T!Waiting
  BY DEF T!IInv, T!ParentPlace, T!Creating, T!Running
<1>2. T!InfoAlive
  BY <1>1 DEF T!IInv, T!ParentPlace, T!InfoAlive
<1>3. T!ChildHasResources
  BY <1>1, ThrdAt DEF T!IInv, T!ParentPlace, T!ChildHasResources, T!Creating
<1>4. T!NothingLeaks
  BY ThrdAt DEF T!IInv, T!ResultKept, T!NothingLeaks
<1> QED BY <1>2, <1>3, <1>4

-----------------------------------------------------------------------------
(* All objects together. *)
IInv == R!IInv /\ S!IInv /\ B!IInv /\ M!IInv /\ O!IInv /\ T!IInv

(* An invariant speaks of the variables of its object only. *)
LEMMA Unchanged ==
  /\ R!IInv /\ UNCHANGED rVars => R!IInv'
  /\ S!IInv /\ UNCHANGED sVars => S!IInv'
  /\ B!IInv /\ UNCHANGED bVars => B!IInv'
  /\ M!IInv /\ UNCHANGED mVars => M!IInv'
  /\ O!IInv /\ UNCHANGED oVars => O!IInv'
  /\ T!IInv /\ UNCHANGED tVars => T!IInv'
<1>1. R!IInv /\ UNCHANGED rVars => R!IInv'
  BY DEF rVars, R!IInv, R!TypeOK, R!ReadersCounted, R!OneWriter, R!NoLostWakeup, R!Writers, R!At
<1>2. S!IInv /\ UNCHANGED sVars => S!IInv'
  BY DEF sVars, S!IInv, S!TypeOK, S!Conserved, S!SleepersServed
<1>3. B!IInv /\ UNCHANGED bVars => B!IInv'
  BY DEF bVars, B!IInv, B!TypeOK, B!SleepersCounted, B!OneRoundAhead, B!At
<1>4. M!IInv /\ UNCHANGED mVars => M!IInv'
  BY DEF mVars, M!IInv, M!TypeOK, M!OwnerHolds, M!HoldsAt, M!PlaceTells, M!FreeIsClear
<1>5. O!IInv /\ UNCHANGED oVars => O!IInv'
  BY DEF oVars, O!IInv, O!TypeOK, O!EnteredOnce, O!InACall, O!BackMeansDone
<1>6. T!IInv /\ UNCHANGED tVars => T!IInv'
  BY DEF tVars, T!IInv, T!TypeOK, T!ParentPlace, T!ChildPlace, T!ResultKept
<1> QED BY <1>1, <1>2, <1>3, <1>4, <1>5, <1>6

LEMMA IInvInit == Init => IInv
BY SyncAssumption, RwInit, SemInit, BarInit, RmInit, OnceInit, ThrdInit DEF Init, IInv

LEMMA IInvStep ==
  ASSUME IInv, [Next]_vars PROVE IInv'
<1> USE SyncAssumption DEF IInv
<1>1. R!IInv'
  BY RwStep, Unchanged DEF Next, Step, vars
<1>2. S!IInv'
  BY SemStep, Unchanged DEF Next, Step, vars
<1>3. B!IInv'
  BY BarStep, Unchanged DEF Next, Step, vars
<1>4. M!IInv'
  BY RmStep, Unchanged DEF Next, Step, vars
<1>5. O!IInv'
  BY OnceStep, Unchanged DEF Next, Step, vars
<1>6. T!IInv'
  BY ThrdStep, Unchanged DEF Next, Step, vars
<1> QED BY <1>1, <1>2, <1>3, <1>4, <1>5, <1>6

(* The inductive invariant of every object. *)
THEOREM Invariant == Spec => []IInv
BY IInvInit, IInvStep, PTL DEF Spec

(* Every variable keeps its type; in particular the semaphore's counter    *)
(* does not pass below 0, the barrier's stays below the number of threads, *)
(* and the function of a once_flag is entered once.                        *)
THEOREM TypeCorrect == Spec => []TypeOK
<1>1. IInv => TypeOK
  BY DEF IInv, TypeOK, R!IInv, S!IInv, B!IInv, M!IInv, O!IInv, T!IInv
<1> QED BY <1>1, Invariant, PTL

(* A writer shares the read/write lock with nobody. *)
THEOREM WriterExclusion == Spec => []WriterAlone
<1>1. IInv => WriterAlone
  BY SyncAssumption, RwAlone DEF IInv, WriterAlone
<1> QED BY <1>1, Invariant, PTL

(* No wake-up of the read/write lock or of the semaphore is lost. *)
THEOREM WakeupsArrive == Spec => []SleepersServed
<1>1. IInv => SleepersServed
  BY DEF IInv, SleepersServed, R!IInv, S!IInv
<1> QED BY <1>1, Invariant, PTL

(* No thread leaves a round of the barrier before all have come, and none  *)
(* is left asleep in a round that is over.                                 *)
THEOREM BarrierRounds == Spec => []RoundsInStep
<1>1. IInv => RoundsInStep
  BY SyncAssumption, BarInStep DEF IInv, RoundsInStep
<1> QED BY <1>1, Invariant, PTL

(* The recursive mutex is held by one thread, as often as counter says, at *)
(* any depth and across condition waits.                                   *)
THEOREM RecursionExact == Spec => []CounterIsDepth
<1>1. IInv => CounterIsDepth
  BY SyncAssumption, RmDepth DEF IInv, CounterIsDepth
<1> QED BY <1>1, Invariant, PTL

(* No thread inside a recursive mutex is joined by another.                *)
THEOREM RecursiveExclusion == Spec => []M!OneInside
<1>1. IInv => M!OneInside
  BY SyncAssumption, RmDepth DEF IInv
<1> QED BY <1>1, Invariant, PTL

(* call_once returns after the function has, whichever functions call      *)
(* call_once themselves.                                                   *)
THEOREM OnceDone == Spec => []BackMeansDone
<1>1. IInv => BackMeansDone
  BY DEF IInv, BackMeansDone, O!IInv
<1> QED BY <1>1, Invariant, PTL

(* The start information outlives its use by the child, failures leave     *)
(* nothing allocated, and a join gives the result of the child.            *)
THEOREM ThreadsClean == Spec => []InfoFreedOnce
<1>1. IInv => InfoFreedOnce
  BY ThrdPromises DEF IInv, InfoFreedOnce
<1> QED BY <1>1, Invariant, PTL

(* A reader never overtakes a writer that has claimed the lock.            *)
THEOREM WriterFirst == Spec => R!WriterPreferred
<1>1. ASSUME IInv, [Next]_vars
      PROVE  [R!Writers # {} => R!At({"reading"})' \subseteq R!At({"reading"})]_(R!vars)
  BY <1>1, RwNoNewReader DEF IInv, Next, Step, vars, rVars, R!vars
<1> QED BY <1>1, Invariant, PTL DEF Spec, R!WriterPreferred

-----------------------------------------------------------------------------
(* Waits of several threads: what MultiWaitProofs shows of any MultiWait.  *)
N == INSTANCE MultiWaitProofs
       WITH Threads <- Waiters, Timers <- {}, Handles <- {}, Repeating <- {},
            Interval <- <<>>, Timeouts <- {Forever}, Shared <- FALSE, WeakFails <- FALSE,
            MaxTime <- 0

LEMMA SameInit == W!Init => N!Init
BY DEF W!Waitables, N!Waitables, W!Nodes, N!Nodes, W!Links, N!Links, W!objects,
       N!objects, W!NoFrame, N!NoFrame, W!Idle, N!Idle, W!Init, N!Init

LEMMA SameNext == [W!Next]_(W!vars) => [N!Next]_(N!vars)
BY DEF W!Waitables, N!Waitables, W!waiting, N!waiting, W!objects, N!objects, W!lists,
       N!lists, W!vars, N!vars, W!NoFrame, N!NoFrame, W!Idle, N!Idle, W!Array,
       N!Array, W!Listens, N!Listens, W!Earlier, N!Earlier, W!Goto, N!Goto, W!Finish,
       N!Finish, W!NodeAdd, N!NodeAdd, W!NodeRemove, N!NodeRemove, W!CeilDiv,
       N!CeilDiv, W!Recalculate, N!Recalculate, W!WaitCall, N!WaitCall, W!LoopTurn,
       N!LoopTurn, W!BeginHandle, N!BeginHandle, W!Listen, N!Listen, W!BeginEvent,
       N!BeginEvent, W!BeginTimer, N!BeginTimer, W!Ready, N!Ready, W!Lowest,
       N!Lowest, W!Wake, N!Wake, W!WaitSynchronization, N!WaitSynchronization,
       W!KernelTimeout, N!KernelTimeout, W!SignalHandle, N!SignalHandle,
       W!AfterSignalled, N!AfterSignalled, W!AfterTimeout, N!AfterTimeout,
       W!AfterCancelled, N!AfterCancelled, W!RemoveListener, N!RemoveListener,
       W!LoopAgain, N!LoopAgain, W!Return, N!Return, W!StartWalk, N!StartWalk,
       W!Signal, N!Signal, W!Clear, N!Clear, W!Start, N!Start, W!Stop, N!Stop,
       W!WalkNode, N!WalkNode, W!WalkEnd, N!WalkEnd, W!CancelSynchronization,
       N!CancelSynchronization, W!Tick, N!Tick, W!WaitStep, N!WaitStep, W!WalkStep,
       N!WalkStep, W!Next, N!Next

LEMMA SameLists == N!ListSound => W!ListSound
BY DEF W!Waitables, N!Waitables, W!Nodes, N!Nodes, W!objects, N!objects, W!Array,
       N!Array, W!Live, N!Live, W!ListSound, N!ListSound

(* The list of an event holds the nodes of the waits that listen on it,    *)
(* for any number of threads and events, when no array names one twice.    *)
THEOREM ListsSound ==
  ASSUME W!OneListener PROVE Spec => []ListSound
<1>1. N!OneListener /\ N!MultiWaitAssumption
  BY SyncAssumption
     DEF SyncAssumption, W!OneListener, N!OneListener, W!MultiWaitAssumption,
         N!MultiWaitAssumption, W!Waitables, N!Waitables, W!Objects, N!Objects,
         W!Nodes, N!Nodes
<1>2. N!Spec => []N!ListSound
  BY <1>1, N!ListsSound
<1>3. Init => N!Init
  BY SameInit DEF Init
<1>4. [Next]_vars => [N!Next]_(N!vars)
  BY SameNext DEF Next, Step, vars, wVars, W!vars, W!waiting, W!objects, W!lists
<1>5. N!ListSound => ListSound
  BY SameLists DEF ListSound
<1> QED BY <1>2, <1>3, <1>4, <1>5, PTL DEF Spec, N!Spec
=============================================================================
