------------------------------- MODULE MC_Sync -------------------------------
(***************************************************************************)
(* An instance of Sync for TLC.  The sets of the configuration are chosen  *)
(* so that the interesting cases happen:                                   *)
(*   RwLock          two readers inside, a writer that drains and one that *)
(*                   waits behind it                                       *)
(*   Semaphore       three sleepers, two signals before the first woken    *)
(*                   thread runs, and a thread that takes a unit meanwhile *)
(*   Barrier         a fast thread can begin round k + 1 while slow ones   *)
(*                   have not left round k                                 *)
(*   RecursiveMutex  one thread inside, one in a condition wait, one that  *)
(*                   reads the tag                                         *)
(*   ThrdLifecycle   two results, to tell the joined value from the        *)
(*                   garbage malloc leaves                                 *)
(***************************************************************************)
EXTENDS Sync, TLC

CONSTANTS t1, t2, t3, t4, f1, f2, s1, e1, e2, m1, h1

(* The function of the first flag calls call_once on the second one.       *)
MC_Calls == (f1 :> {f2}) @@ (f2 :> {})

(* Waits of two threads on either of two events or on both: one thread may *)
(* wait on e1 while the other waits on e2, and a wait on e1 or e2 alone    *)
(* follows one on both, or comes before it.                                *)
MC_WaitArrays == {<<e1>>, <<e2>>, <<e2, e1>>}

(* One wait on every kind of object, and one with too many objects. *)
MC_LoneArrays == {<<h1, e1, m1>>, <<h1, e1, m1, h1>>}
MC_LoneInterval == (m1 :> 2)
-----------------------------------------------------------------------------
(* The liveness properties of one thread.  Threads are interchangeable in  *)
(* RwLock and CallOnce, so what t1 comes to in every fair behaviour, any   *)
(* of them comes to.                                                       *)

(* A writer that has announced itself gets to write, however many readers  *)
(* come and go (rwlock.c).                                                 *)
WriterEnters == R!Enters(t1)

(* Every call of call_once comes back, the functions being nested without  *)
(* a circle (c11-threads.c).                                               *)
CallReturns == O!Returns(t1)
=============================================================================
