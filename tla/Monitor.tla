------------------------------ MODULE Monitor ------------------------------
(***************************************************************************)
(* What a Mutex and a CondVar promise together, with no word in memory, no *)
(* kernel queue and no retry: at any time one thread or none owns the      *)
(* mutex, some threads want it, and some sleep on the condition variable,  *)
(* which they entered by giving up the mutex and leave only wanting it     *)
(* again.  MutexCondVar implements this specification.                     *)
(***************************************************************************)
CONSTANTS Threads, NoThread

VARIABLES
  owner,     (* the thread that owns the mutex, or NoThread                *)
  wanting,   (* threads that asked for the mutex and do not own it yet     *)
  sleeping   (* threads waiting on the condition variable                  *)

mvars == <<owner, wanting, sleeping>>

MonitorInit ==
  /\ owner = NoThread
  /\ wanting = {}
  /\ sleeping = {}

(* A thread outside the monitor asks for the mutex. *)
Request(t) ==
  /\ t # owner /\ t \notin wanting \cup sleeping
  /\ wanting' = wanting \cup {t}
  /\ UNCHANGED <<owner, sleeping>>

(* A free mutex goes to a thread that wants it. *)
Acquire(t) ==
  /\ owner = NoThread
  /\ t \in wanting
  /\ owner' = t
  /\ wanting' = wanting \ {t}
  /\ UNCHANGED sleeping

(* Trying once takes a free mutex without ever wanting it. *)
TryAcquire(t) ==
  /\ owner = NoThread
  /\ t \notin wanting \cup sleeping
  /\ owner' = t
  /\ UNCHANGED <<wanting, sleeping>>

(* The owner lets go: the mutex becomes free or passes straight to a       *)
(* thread that wants it.                                                   *)
PassOn(t) ==
  /\ owner = t
  /\ \/ owner' = NoThread /\ wanting' = wanting
     \/ \E u \in wanting : owner' = u /\ wanting' = wanting \ {u}

Release(t) == PassOn(t) /\ UNCHANGED sleeping

(* The owner gives up the mutex and falls asleep in one step. *)
Wait(t) == PassOn(t) /\ sleeping' = sleeping \cup {t}

(* Sleepers are woken: they want the mutex, and one gets it if it is free. *)
Wake(S) ==
  /\ S \subseteq sleeping
  /\ sleeping' = sleeping \ S
  /\ \/ owner' = owner /\ wanting' = wanting \cup S
     \/ /\ owner = NoThread
        /\ \E u \in S : owner' = u /\ wanting' = wanting \cup (S \ {u})

MonitorNext ==
  \/ \E t \in Threads :
       Request(t) \/ Acquire(t) \/ TryAcquire(t) \/ Release(t) \/ Wait(t)
  \/ \E S \in SUBSET Threads : Wake(S)

MonitorSpec == MonitorInit /\ [][MonitorNext]_mvars
=============================================================================
