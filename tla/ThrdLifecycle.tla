--------------------------- MODULE ThrdLifecycle ---------------------------
(***************************************************************************)
(* thrd_create, thrd_exit and thrd_join of runtime/c11-threads.c on top of *)
(* threadCreate, threadStart, threadWaitForExit and threadClose of         *)
(* kernel/thread.c.  Each parent creates a child, joins it and starts      *)
(* again; every system call and allocation may fail.  The child reads its  *)
(* start information from the stack frame of thrd_create.                  *)
(***************************************************************************)
EXTENDS FiniteSets

CONSTANTS
  Parents,   (* threads that create; the child of p is named p too         *)
  Results    (* what a thread function returns                             *)

VARIABLES
  pc,       (* where each parent is                                        *)
  child,    (* where its child is                                          *)
  res,      (* what is allocated for the child                             *)
  info,     (* the __thrd_start_info in the frame of thrd_create, if alive *)
  rc,       (* rc in the __thrd_t: garbage until the child has exited      *)
  returned, (* what the child's function returned                          *)
  joined    (* what thrd_join stored in *res                               *)

vars == <<pc, child, res, info, rc, returned, joined>>

Resources == {"object", "stack", "mirror", "mapping", "handle"}

(* info.thread_started and the owner of info.mutex. *)
Dead == [alive |-> FALSE, started |-> FALSE, owner |-> "free"]
Fresh == [alive |-> TRUE, started |-> FALSE, owner |-> "free"]

Goto(p, label) == pc' = [pc EXCEPT ![p] = label]
ChildGoto(p, label) == child' = [child EXCEPT ![p] = label]
Get(p, S) == res' = [res EXCEPT ![p] = @ \cup S]
Drop(p, S) == res' = [res EXCEPT ![p] = @ \ S]

Init ==
  /\ pc = [p \in Parents |-> "out"]
  /\ child = [p \in Parents |-> "none"]
  /\ res = [p \in Parents |-> {}]
  /\ info = [p \in Parents |-> Dead]
  /\ rc \in [Parents -> Results]
  /\ returned = rc
  /\ joined = rc

-----------------------------------------------------------------------------
(* thrd_create up to threadCreate: malloc gives memory with any content.   *)
Malloc(p) ==
  /\ pc[p] = "out"
  /\ Get(p, {"object"}) /\ Goto(p, "create")
  /\ info' = [info EXCEPT ![p] = Fresh]
  /\ \E garbage \in Results : rc' = [rc EXCEPT ![p] = garbage]
  /\ UNCHANGED <<child, returned, joined>>

(* threadCreate: memalign *)
Memalign(p) ==
  /\ pc[p] = "create"
  /\ \/ Goto(p, "error1") /\ UNCHANGED res
     \/ Goto(p, "map") /\ Get(p, {"stack"})
  /\ UNCHANGED <<child, info, rc, returned, joined>>

(* threadCreate: virtmemReserveStack and svcMapMemory *)
MapStack(p) ==
  /\ pc[p] = "map"
  /\ \/ Goto(p, "error1") /\ Drop(p, {"stack"})
     \/ Goto(p, "kernel") /\ Get(p, {"mirror", "mapping"})
  /\ UNCHANGED <<child, info, rc, returned, joined>>

(* threadCreate: svcCreateThread, with the clean-up when it fails *)
CreateThread(p) ==
  /\ pc[p] = "kernel"
  /\ \/ Goto(p, "error1") /\ Drop(p, {"stack", "mirror", "mapping"})
     \/ Goto(p, "mask") /\ Get(p, {"handle"})
  /\ UNCHANGED <<child, info, rc, returned, joined>>

SetCoreMask(p) ==
  /\ pc[p] = "mask"
  /\ Goto(p, "error2") \/ Goto(p, "start")
  /\ UNCHANGED <<child, res, info, rc, returned, joined>>

(* threadStart *)
StartThread(p) ==
  /\ pc[p] = "start"
  /\ \/ Goto(p, "error2") /\ UNCHANGED child
     \/ Goto(p, "handshake") /\ ChildGoto(p, "entry")
  /\ UNCHANGED <<res, info, rc, returned, joined>>

(* threadClose *)
CloseThread(p) == Drop(p, {"stack", "mirror", "mapping", "handle"})

Error2(p) ==
  /\ pc[p] = "error2"
  /\ CloseThread(p)
  /\ Goto(p, "error1")
  /\ UNCHANGED <<child, info, rc, returned, joined>>

Error1(p) ==
  /\ pc[p] = "error1"
  /\ Drop(p, {"object"})
  /\ info' = [info EXCEPT ![p] = Dead]
  /\ Goto(p, "out")
  /\ UNCHANGED <<child, rc, returned, joined>>

(* mtx_lock; while (!info.thread_started) cnd_wait; mtx_unlock; return     *)
Handshake(p) ==
  /\ pc[p] \in {"handshake", "woken"}
  /\ info[p].owner = "free"
  /\ \/ /\ info[p].started
        /\ info' = [info EXCEPT ![p] = Dead]
        /\ Goto(p, "created")
     \/ /\ ~info[p].started
        /\ Goto(p, "asleep")
        /\ UNCHANGED info
  /\ UNCHANGED <<child, res, rc, returned, joined>>

-----------------------------------------------------------------------------
(* __thrd_entry: info is copied out, locked, marked, signalled, unlocked.  *)
ChildLock(p) ==
  /\ child[p] = "entry"
  /\ info[p].owner = "free"
  /\ info' = [info EXCEPT ![p].owner = "child"]
  /\ ChildGoto(p, "mark")
  /\ UNCHANGED <<pc, res, rc, returned, joined>>

(* Broken: the mutex is released before the signal. *)
BadChildMark(p) ==
  /\ child[p] = "mark"
  /\ info' = [info EXCEPT ![p].started = TRUE, ![p].owner = "free"]
  /\ ChildGoto(p, "signal")
  /\ UNCHANGED <<pc, res, rc, returned, joined>>

ChildMark(p) ==
  /\ child[p] = "mark"
  /\ info' = [info EXCEPT ![p].started = TRUE]
  /\ ChildGoto(p, "signal")
  /\ UNCHANGED <<pc, res, rc, returned, joined>>

ChildSignal(p) ==
  /\ child[p] = "signal"
  /\ pc' = [pc EXCEPT ![p] = IF @ = "asleep" THEN "woken" ELSE @]
  /\ ChildGoto(p, "unlock")
  /\ UNCHANGED <<res, info, rc, returned, joined>>

ChildUnlock(p) ==
  /\ child[p] = "unlock"
  /\ info' = [info EXCEPT ![p].owner = "free"]
  /\ ChildGoto(p, "run")
  /\ UNCHANGED <<pc, res, rc, returned, joined>>

(* The function returns, or calls thrd_exit itself: t->rc = res *)
ThrdExit(p) ==
  /\ child[p] = "run"
  /\ \E r \in Results :
       /\ returned' = [returned EXCEPT ![p] = r]
       /\ rc' = [rc EXCEPT ![p] = r]
  /\ ChildGoto(p, "exit")
  /\ UNCHANGED <<pc, res, info, joined>>

(* svcExitThread *)
ExitThread(p) ==
  /\ child[p] = "exit"
  /\ ChildGoto(p, "gone")
  /\ UNCHANGED <<pc, res, info, rc, returned, joined>>

-----------------------------------------------------------------------------
(* thrd_join: threadWaitForExit and *res = thr->rc, ... *)
JoinWait(p) ==
  /\ pc[p] = "created"
  /\ child[p] = "gone"
  /\ joined' = [joined EXCEPT ![p] = rc[p]]
  /\ Goto(p, "close")
  /\ UNCHANGED <<child, res, info, rc, returned>>

(* ... threadClose ... *)
JoinClose(p) ==
  /\ pc[p] = "close"
  /\ CloseThread(p)
  /\ Goto(p, "free")
  /\ UNCHANGED <<child, info, rc, returned, joined>>

(* ... and free. *)
JoinFree(p) ==
  /\ pc[p] = "free"
  /\ Drop(p, {"object"})
  /\ Goto(p, "out")
  /\ ChildGoto(p, "none")
  /\ UNCHANGED <<info, rc, returned, joined>>

-----------------------------------------------------------------------------
ParentStep(p) ==
  \/ Memalign(p) \/ MapStack(p) \/ CreateThread(p) \/ SetCoreMask(p)
  \/ StartThread(p) \/ Error2(p) \/ Error1(p) \/ Handshake(p)
  \/ JoinWait(p) \/ JoinClose(p) \/ JoinFree(p)

ChildStep(p) ==
  \/ ChildLock(p) \/ ChildMark(p) \/ ChildSignal(p) \/ ChildUnlock(p)
  \/ ThrdExit(p) \/ ExitThread(p)

Next == \E p \in Parents : Malloc(p) \/ ParentStep(p) \/ ChildStep(p)

Spec == Init /\ [][Next]_vars

-----------------------------------------------------------------------------
(* The type of every variable. *)
TypeOK ==
  /\ pc \in [Parents -> {"out", "create", "map", "kernel", "mask", "start", "error1", "error2",
                         "handshake", "asleep", "woken", "created", "close", "free"}]
  /\ child \in [Parents -> {"none", "entry", "mark", "signal", "unlock", "run", "exit", "gone"}]
  /\ res \in [Parents -> SUBSET Resources]
  /\ info \in [Parents -> [alive : BOOLEAN, started : BOOLEAN, owner : {"free", "child"}]]
  /\ rc \in [Parents -> Results] /\ returned \in [Parents -> Results]
  /\ joined \in [Parents -> Results]

(* The child uses the start information only while thrd_create, in whose   *)
(* stack frame it is, has not returned.                                    *)
InfoAlive ==
  \A p \in Parents :
    child[p] \in {"entry", "mark", "signal", "unlock"} => info[p].alive

(* While the child can run, its stack, handle and object are there.        *)
ChildHasResources ==
  \A p \in Parents :
    child[p] \in {"entry", "mark", "signal", "unlock", "run", "exit"}
      => res[p] = Resources

(* Whatever failed on the way, a thread outside thrd_create and thrd_join  *)
(* has left nothing allocated behind it; and the result that thrd_join     *)
(* took before it freed the thread is the one the function returned.       *)
NothingLeaks ==
  \A p \in Parents :
    /\ pc[p] = "out" => res[p] = {}
    /\ pc[p] \in {"close", "free"} => joined[p] = returned[p]

(* What each place in thrd_create and thrd_join says of the child, of what *)
(* is allocated and of the start information.                              *)
Running == {"entry", "mark", "signal", "unlock", "run", "exit", "gone"}

Creating == {"create", "map", "kernel", "mask", "start", "error1", "error2"}
Waiting == {"handshake", "asleep", "woken"}

ParentPlace(p) ==
  /\ info[p].alive <=> pc[p] \in Creating \cup Waiting
  /\ pc[p] \in Creating => child[p] = "none"
  /\ \/ pc[p] = "out" /\ child[p] = "none" /\ res[p] = {}
     \/ pc[p] \in {"create", "error1"} /\ res[p] = {"object"}
     \/ pc[p] = "map" /\ res[p] = {"object", "stack"}
     \/ pc[p] = "kernel" /\ res[p] = {"object", "stack", "mirror", "mapping"}
     \/ pc[p] \in {"mask", "start", "error2"} /\ res[p] = Resources
     \/ pc[p] \in Waiting /\ child[p] \in Running /\ res[p] = Resources
     \/ pc[p] = "created" /\ child[p] \in {"run", "exit", "gone"} /\ res[p] = Resources
     \/ pc[p] = "close" /\ child[p] = "gone" /\ res[p] = Resources
     \/ pc[p] = "free" /\ child[p] = "gone" /\ res[p] = {"object"}

(* While thrd_create waits, thread_started and the owner of the mutex say  *)
(* how far the child has come.                                             *)
ChildPlace(p) ==
  /\ info[p].alive /\ child[p] \in Running =>
       /\ info[p].started <=> child[p] \notin {"entry", "mark"}
       /\ info[p].owner = "child" <=> child[p] \in {"mark", "signal", "unlock"}
  /\ ~info[p].alive \/ child[p] = "none" => ~info[p].started /\ info[p].owner = "free"

ResultKept(p) ==
  /\ child[p] \in {"exit", "gone"} => rc[p] = returned[p]
  /\ pc[p] \in {"close", "free"} => joined[p] = returned[p]

IInv ==
  /\ TypeOK
  /\ \A p \in Parents : ParentPlace(p) /\ ChildPlace(p) /\ ResultKept(p)
=============================================================================
