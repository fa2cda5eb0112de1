------------------------------- MODULE RwLock -------------------------------
(***************************************************************************)
(* kernel/rwlock.c: a read/write lock made of a Mutex and two condition    *)
(* variables.  What a function does between taking the mutex and releasing *)
(* or sleeping on it is one step (MutexCondVar implements Monitor, and     *)
(* nothing outside the mutex touches readers and writer); a woken thread   *)
(* has to get the mutex again before it looks at them.                     *)
(***************************************************************************)
EXTENDS Integers, FiniteSets

CONSTANT Threads

(* Assumed of the constant. *)
ThreadsFinite == IsFiniteSet(Threads)

VARIABLES
  readers,  (* RwLock.readers                                              *)
  writer,   (* RwLock.writer                                               *)
  pc        (* where each thread is                                        *)

vars == <<readers, writer, pc>>

(*   out       not in the lock                                             *)
(*   rsleep    rwlockReadLock, asleep on condvar_writer;  rwoken: woken    *)
(*   wsleep    rwlockWriteLock, asleep on condvar_writer; wwoken: woken    *)
(*   drain     rwlockWriteLock with writer set, asleep on condvar_readers  *)
(*   drained   the same, woken                                             *)
(*   reading, writing   between lock and unlock                            *)
Labels == {"out", "rsleep", "rwoken", "wsleep", "wwoken", "drain", "drained",
           "reading", "writing"}

At(labels) == {t \in Threads : pc[t] \in labels}

Goto(t, label) == pc' = [pc EXCEPT ![t] = label]

Init ==
  /\ readers = 0
  /\ writer = FALSE
  /\ pc = [t \in Threads |-> "out"]

-----------------------------------------------------------------------------
(* Broken: a reader joins the readers that are inside. *)
BadReadLockJoin(t) ==
  /\ pc[t] \in {"out", "rwoken"}
  /\ \/ writer /\ readers = 0 /\ Goto(t, "rsleep") /\ UNCHANGED readers
     \/ (~writer \/ readers > 0) /\ Goto(t, "reading") /\ readers' = readers + 1
  /\ UNCHANGED writer

(* rwlockReadLock, from the call or from a wake-up on: while (writer) wait *)
ReadLock(t) ==
  /\ pc[t] \in {"out", "rwoken"}
  /\ \/ writer /\ Goto(t, "rsleep") /\ UNCHANGED readers
     \/ ~writer /\ Goto(t, "reading") /\ readers' = readers + 1
  /\ UNCHANGED writer

(* condvarWakeAll(&condvar_readers) wakes the draining writer. *)
WakeDraining(t) ==
  pc' = [u \in Threads |-> IF u = t THEN "out"
                           ELSE IF pc[u] = "drain" THEN "drained" ELSE pc[u]]

ReadUnlock(t) ==
  /\ pc[t] = "reading"
  /\ readers' = readers - 1
  /\ IF readers' = 0 THEN WakeDraining(t) ELSE Goto(t, "out")
  /\ UNCHANGED writer

(* Broken: the readers inside are not waited for. *)
BadWriteLock(t) ==
  /\ pc[t] \in {"out", "wwoken"}
  /\ \/ writer /\ Goto(t, "wsleep") /\ UNCHANGED writer
     \/ ~writer /\ writer' = TRUE /\ Goto(t, "writing")
  /\ UNCHANGED readers

(* rwlockWriteLock up to writer = true and the first look at readers. *)
WriteLock(t) ==
  /\ pc[t] \in {"out", "wwoken"}
  /\ \/ writer /\ Goto(t, "wsleep") /\ UNCHANGED writer
     \/ ~writer /\ writer' = TRUE /\ Goto(t, IF readers > 0 THEN "drain" ELSE "writing")
  /\ UNCHANGED readers

(* Its second loop after a wake-up: while (readers > 0) wait. *)
WriteDrained(t) ==
  /\ pc[t] = "drained"
  /\ Goto(t, IF readers > 0 THEN "drain" ELSE "writing")
  /\ UNCHANGED <<readers, writer>>

(* condvarWakeAll(&condvar_writer) wakes readers and writers alike. *)
WriteUnlock(t) ==
  /\ pc[t] = "writing"
  /\ writer' = FALSE
  /\ pc' = [u \in Threads |-> IF u = t THEN "out"
                              ELSE IF pc[u] = "rsleep" THEN "rwoken"
                              ELSE IF pc[u] = "wsleep" THEN "wwoken" ELSE pc[u]]
  /\ UNCHANGED readers

-----------------------------------------------------------------------------
Next ==
  \E t \in Threads :
    ReadLock(t) \/ ReadUnlock(t) \/ WriteLock(t) \/ WriteDrained(t) \/ WriteUnlock(t)

Spec == Init /\ [][Next]_vars

(* A woken thread gets the mutex some day, and a lock is given back.       *)
Fairness ==
  \A t \in Threads :
    /\ WF_vars(pc[t] = "rwoken" /\ ReadLock(t))
    /\ WF_vars(pc[t] = "wwoken" /\ WriteLock(t))
    /\ WF_vars(WriteDrained(t))
    /\ WF_vars(ReadUnlock(t)) /\ WF_vars(WriteUnlock(t))

FairSpec == Spec /\ Fairness

-----------------------------------------------------------------------------
(* The type of every variable. *)
TypeOK ==
  /\ readers \in Nat
  /\ writer \in BOOLEAN
  /\ pc \in [Threads -> Labels]

(* The thread that set writer: the one that writes or waits to write. *)
Writers == At({"drain", "drained", "writing"})

(* A writer is alone: no reader and no other writer is in the lock with it.*)
WriterAlone ==
  \A t, u \in Threads :
    pc[t] = "writing" /\ pc[u] \in {"reading", "writing"} => t = u

(* readers counts the threads that read.                                   *)
ReadersCounted == readers = Cardinality(At({"reading"}))

(* writer is set exactly while one thread holds or drains the lock.        *)
OneWriter ==
  /\ writer <=> Writers # {}
  /\ \A t, u \in Writers : t = u

(* A thread asleep has somebody left who will wake it: a reader for the    *)
(* draining writer, a writer for the others.                               *)
NoLostWakeup ==
  /\ At({"drain"}) # {} => readers > 0
  /\ At({"rsleep", "wsleep"}) # {} => writer

IInv ==
  /\ TypeOK /\ ReadersCounted /\ OneWriter /\ NoLostWakeup
  /\ At({"writing"}) # {} => readers = 0

(* No reader enters while a writer waits for the readers to leave, ...     *)
WriterPreferred ==
  [][Writers # {} => At({"reading"})' \subseteq At({"reading"})]_vars

(* ... so a writer that has set writer gets to write, however many readers *)
(* come and go.                                                            *)
Enters(t) == pc[t] = "drain" ~> pc[t] = "writing"
=============================================================================
