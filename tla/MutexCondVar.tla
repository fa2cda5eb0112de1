---------------------------- MODULE MutexCondVar ----------------------------
(***************************************************************************)
(* kernel/mutex.c and kernel/condvar.c: one Mutex word and one CondVar     *)
(* used by a set of threads, at the granularity of the compare-and-swap    *)
(* instructions and of the system calls.                                   *)
(*                                                                         *)
(* The mutex word holds the handle of its owner and, in the bit            *)
(* HAS_LISTENERS, whether some thread may be parked in the kernel for it.  *)
(* The kernel half (svcArbitrateLock, svcArbitrateUnlock,                  *)
(* svcWaitProcessWideKeyAtomic, svcSignalProcessWideKey) is not part of    *)
(* the repository; it is modelled from the way the two files use it.       *)
(***************************************************************************)
EXTENDS Integers, FiniteSets

CONSTANTS
  Threads,    (* thread handles                                            *)
  NoThread,   (* the handle 0 of a free mutex                              *)
  WakeCounts  (* the num arguments of condvarWake; -1 wakes everybody      *)

ASSUME NoThreadAssumption == NoThread \notin Threads

VARIABLES
  word,    (* the u32 of the mutex: owner tag and HAS_LISTENERS bit        *)
  pc,      (* where each thread is, in the code or parked in the kernel    *)
  cur,     (* local variable cur of mutexLock                              *)
  timed    (* whether the condvar wait a thread is in has a timeout        *)

vars == <<word, pc, cur, timed>>

(*   out     outside every function, not owning the mutex                  *)
(*   lock    mutexLock, at the first compare-and-swap                      *)
(*   flag    mutexLock, at the compare-and-swap that sets HAS_LISTENERS    *)
(*   arb     mutexLock, calling svcArbitrateLock                           *)
(*   kwait   parked by svcArbitrateLock                                    *)
(*   held    back in the caller, which may touch what the mutex protects   *)
(*   unarb   mutexUnlock, calling svcArbitrateUnlock                       *)
(*   cv      parked on the condition variable                              *)
(*   cvlock  signalled, parked until the mutex is handed to it             *)
Labels ==
  {"out", "lock", "flag", "arb", "kwait", "held", "unarb", "cv", "cvlock"}

Word(tag, listeners) == [tag |-> tag, listeners |-> listeners]
Free == Word(NoThread, FALSE)

Goto(t, label) == pc' = [pc EXCEPT ![t] = label]

Init ==
  /\ word = Free
  /\ pc = [t \in Threads |-> "out"]
  /\ cur = [t \in Threads |-> NoThread]
  /\ timed = [t \in Threads |-> FALSE]

-----------------------------------------------------------------------------
(* The kernel.                                                             *)

(* Threads parked for the mutex word. *)
Parked == {t \in Threads : pc[t] \in {"kwait", "cvlock"}}

(* Threads parked on the condition variable. *)
Sleepers == {t \in Threads : pc[t] = "cv"}

(* The kernel takes the mutex from t, which goes to label: it frees the    *)
(* word, or writes the handle of a parked thread u and resumes u, leaving  *)
(* HAS_LISTENERS set while others stay parked.  A thread parked by         *)
(* svcArbitrateLock resumes in the loop of mutexLock, a signalled one      *)
(* returns from its condition wait.                                        *)
HandOffTo(t, label, u) ==
  /\ u \in Parked
  /\ word' = Word(u, Parked # {u})
  /\ pc' = [pc EXCEPT ![t] = label,
                      ![u] = IF pc[u] = "kwait" THEN "lock" ELSE "held"]

HandOff(t, label) ==
  \/ Parked = {} /\ word' = Free /\ Goto(t, label)
  \/ \E u \in Threads : HandOffTo(t, label, u)

-----------------------------------------------------------------------------
(* mutexLock *)

LockCall(t) ==
  /\ pc[t] = "out"
  /\ Goto(t, "lock")
  /\ UNCHANGED <<word, cur, timed>>

(* Broken forms of the steps, against which the properties are tested, are *)
(* called BadX and stand before the step X.                                *)

(* Going to the system call with a stale cur. *)
BadLockCasStale(t) ==
  /\ pc[t] = "lock"
  /\ IF word = Free THEN word' = Word(t, FALSE) /\ Goto(t, "held")
                    ELSE word' = word /\ Goto(t, IF word.listeners THEN "arb" ELSE "flag")
  /\ UNCHANGED <<cur, timed>>

(* The compare-and-swap 0 -> self, with what each outcome leads to. *)
LockCas(t) ==
  /\ pc[t] = "lock"
  /\ \/ word = Free /\ word' = Word(t, FALSE) /\ Goto(t, "held") /\ UNCHANGED cur
     \/ word.tag = t /\ Goto(t, "held") /\ UNCHANGED <<word, cur>>
     \/ /\ word # Free /\ word.tag # t
        /\ cur' = [cur EXCEPT ![t] = word.tag]
        /\ Goto(t, IF word.listeners THEN "arb" ELSE "flag")
        /\ UNCHANGED word
  /\ UNCHANGED timed

(* The compare-and-swap cur -> cur | HAS_LISTENERS. *)
LockSetFlag(t) ==
  /\ pc[t] = "flag"
  /\ IF word = Word(cur[t], FALSE)
       THEN word' = Word(cur[t], TRUE) /\ Goto(t, "arb")
       ELSE word' = word /\ Goto(t, "lock")
  /\ UNCHANGED <<cur, timed>>

(* svcArbitrateLock parks the caller only while the word is still what it  *)
(* was told; else it returns and the loop starts over.                     *)
LockArbitrate(t) ==
  /\ pc[t] = "arb"
  /\ Goto(t, IF word = Word(cur[t], TRUE) THEN "kwait" ELSE "lock")
  /\ UNCHANGED <<word, cur, timed>>

(* mutexTryLock by a thread that does not own the mutex. *)
TryLock(t) ==
  /\ pc[t] = "out"
  /\ word = Free
  /\ word' = Word(t, FALSE)
  /\ Goto(t, "held")
  /\ UNCHANGED <<cur, timed>>

-----------------------------------------------------------------------------
(* mutexUnlock *)

(* A plain store of 0. *)
BadUnlockStore(t) ==
  /\ pc[t] = "held"
  /\ word' = Free /\ Goto(t, "out")
  /\ UNCHANGED <<cur, timed>>

(* The system call forgotten. *)
BadUnlockNoCall(t) ==
  /\ pc[t] = "held"
  /\ word' = IF word = Word(t, FALSE) THEN Free ELSE word
  /\ Goto(t, "out")
  /\ UNCHANGED <<cur, timed>>

(* The compare-and-swap self -> 0 fails exactly when HAS_LISTENERS is set. *)
Unlock(t) ==
  /\ pc[t] = "held"
  /\ IF word = Word(t, FALSE)
       THEN word' = Free /\ Goto(t, "out")
       ELSE word' = word /\ Goto(t, IF word.listeners THEN "unarb" ELSE "out")
  /\ UNCHANGED <<cur, timed>>

UnlockArbitrate(t) ==
  /\ pc[t] = "unarb"
  /\ HandOff(t, "out")
  /\ UNCHANGED <<cur, timed>>

-----------------------------------------------------------------------------
(* condvarWaitTimeout, condvarWait, condvarWake *)

(* Falling asleep without giving the mutex up. *)
BadCondWait(t, limited) ==
  /\ pc[t] = "held"
  /\ word' = word /\ Goto(t, "cv")
  /\ timed' = [timed EXCEPT ![t] = limited]
  /\ UNCHANGED cur

(* svcWaitProcessWideKeyAtomic: the mutex is given up and the caller       *)
(* parked on the key in one kernel step.                                   *)
CondWait(t, limited) ==
  /\ pc[t] = "held"
  /\ HandOff(t, "cv")
  /\ timed' = [timed EXCEPT ![t] = limited]
  /\ UNCHANGED cur

(* Returning from a timeout without mutexLock. *)
BadCondTimeout(t) ==
  /\ pc[t] \in {"cv", "cvlock"}
  /\ timed[t]
  /\ Goto(t, "held")
  /\ UNCHANGED <<word, cur, timed>>

(* A timeout that comes after the signal puts the thread to sleep again.   *)
BadCondTimeoutSleep(t) ==
  /\ pc[t] \in {"cv", "cvlock"}
  /\ timed[t]
  /\ Goto(t, IF pc[t] = "cvlock" THEN "cv" ELSE "lock")
  /\ UNCHANGED <<word, cur, timed>>

(* The timeout of a wait expires, before or after it was signalled: the    *)
(* call returns 0xEA01 and the mutex is acquired manually.                 *)
CondTimeout(t) ==
  /\ pc[t] \in {"cv", "cvlock"}
  /\ timed[t]
  /\ Goto(t, "lock")
  /\ UNCHANGED <<word, cur, timed>>

(* How many sleepers condvarWake(num) wakes. *)
WokenBy(num) ==
  IF num = -1 \/ num > Cardinality(Sleepers) THEN Cardinality(Sleepers) ELSE num

(* svcSignalProcessWideKey: for each woken thread the kernel takes the     *)
(* mutex if it is free, else it sets HAS_LISTENERS and parks the thread.   *)
Signalled(S) ==
  \/ /\ word = Free
     /\ \E u \in S :
          /\ word' = Word(u, S # {u})
          /\ pc' = [t \in Threads |-> IF t = u THEN "held"
                                      ELSE IF t \in S THEN "cvlock" ELSE pc[t]]
  \/ /\ word # Free
     /\ word' = Word(word.tag, TRUE)
     /\ pc' = [t \in Threads |-> IF t \in S THEN "cvlock" ELSE pc[t]]

CondWake(num) ==
  /\ \E t \in Threads : pc[t] \in {"out", "held"}
  /\ \E S \in SUBSET Sleepers :
       S # {} /\ Cardinality(S) = WokenBy(num) /\ Signalled(S)
  /\ UNCHANGED <<cur, timed>>

-----------------------------------------------------------------------------
MutexStep(t) ==
  \/ LockCas(t) \/ LockSetFlag(t) \/ LockArbitrate(t)
  \/ Unlock(t) \/ UnlockArbitrate(t)

Next ==
  \/ \E t \in Threads : MutexStep(t) \/ LockCall(t) \/ TryLock(t)
                        \/ CondTimeout(t)
  \/ \E t \in Threads, limited \in BOOLEAN : CondWait(t, limited)
  \/ \E num \in WakeCounts : CondWake(num)

Spec == Init /\ [][Next]_vars

(* The kernel hands the mutex to the parked thread u. *)
HandedTo(u) ==
  /\ \E t \in Threads : UnlockArbitrate(t) \/ \E limited \in BOOLEAN : CondWait(t, limited)
  /\ u \in Parked
  /\ word'.tag = u

(* A running thread keeps running, an owner gives the mutex up some day,   *)
(* and the kernel does not pass over a parked thread for ever.             *)
Fairness ==
  /\ \A t \in Threads : WF_vars(MutexStep(t))
  /\ \A u \in Threads : SF_vars(HandedTo(u))

FairSpec == Spec /\ Fairness

-----------------------------------------------------------------------------
(* The type of every variable; a thread that is about to name the owner    *)
(* to the kernel has read a handle and not 0.                              *)
TypeOK ==
  /\ word \in [tag : Threads \cup {NoThread}, listeners : BOOLEAN]
  /\ pc \in [Threads -> Labels]
  /\ cur \in [Threads -> Threads \cup {NoThread}]
  /\ timed \in [Threads -> BOOLEAN]
  /\ \A t \in Threads : pc[t] \in {"flag", "arb"} => cur[t] \in Threads

(* A thread that is past mutexLock, mutexTryLock or condvarWaitTimeout,    *)
(* whichever way it came, is the one the word names: the kernel's hand-off *)
(* and the compare-and-swap never both give the mutex away.                *)
OwnerHolds == \A t \in Threads : pc[t] \in {"held", "unarb"} => word.tag = t

(* No two threads are between lock and unlock at once (mutex.c,            *)
(* condvar.c with and without a timeout).                                  *)
MutualExclusion ==
  \A t, u \in Threads :
    pc[t] \in {"held", "unarb"} /\ pc[u] \in {"held", "unarb"} => t = u

(* While a thread is parked for the mutex the word has an owner and keeps  *)
(* HAS_LISTENERS, so the unlock that follows cannot take the path without  *)
(* a system call and leave the thread parked.                              *)
NoForgottenWaiter == Parked # {} => word.tag # NoThread /\ word.listeners

(* A free word carries no HAS_LISTENERS bit: mutexLock compares the whole  *)
(* word with 0, so a leftover bit would lock everybody out.                *)
FreeIsZero == word.tag = NoThread => ~word.listeners

(* A thread the word names is in a position to use or to give up the       *)
(* mutex: it owns it, or is about to read the word and find itself there.  *)
OwnerAwake ==
  \A t \in Threads : word.tag = t => pc[t] \in {"held", "unarb", "lock"}

(* No thread asks the kernel to park it behind itself. *)
NeverBehindItself == \A t \in Threads : pc[t] \in {"flag", "arb"} => cur[t] # t

(* What makes the safety properties inductive. *)
IInv ==
  TypeOK /\ OwnerHolds /\ NoForgottenWaiter /\ FreeIsZero /\ OwnerAwake
         /\ NeverBehindItself

(* A thread parked by svcArbitrateLock gets the mutex in the end.          *)
Acquires(t) == pc[t] = "kwait" ~> pc[t] = "held"

(* A waiter that was signalled returns from its wait with the mutex.       *)
(* Without a timeout it only waits for its turn.  When its timeout fires   *)
(* at the same time the signal is not lost and the thread does not go back *)
(* to sleep: it locks the mutex by itself, and can fail only by being      *)
(* overtaken in the loop of mutexLock for ever.                            *)
Returns(t) ==
  /\ pc[t] = "cvlock" /\ ~timed[t] ~> pc[t] = "held"
  /\ \/ pc[t] = "cvlock" ~> pc[t] = "held"
     \/ []<>(\E u \in Threads \ {t} : pc[u] = "held")

-----------------------------------------------------------------------------
(* A thread wants the mutex from its call until the word names it. *)
Wanting ==
  {t \in Threads : /\ pc[t] \in {"lock", "flag", "arb", "kwait", "cvlock"}
                   /\ word.tag # t}

Abstract == INSTANCE Monitor
              WITH owner <- word.tag, wanting <- Wanting, sleeping <- Sleepers

(* The compare-and-swaps and system calls implement the monitor.           *)
ImplementsMonitor == Abstract!MonitorSpec
=============================================================================
