------------------------------- MODULE NvFence ------------------------------
(***************************************************************************)
(* Waiting for fences of the GPU (nvidia/fence.c, system 2.0.0 and later). *)
(* Threads that wait at once take different slots out of a mask, without a *)
(* lock, and with a slot comes an event of the driver, registered when it  *)
(* is needed first.  The driver signals it when the fence it was armed for *)
(* is reached.                                                             *)
(***************************************************************************)
EXTENDS Naturals, FiniteSets

CONSTANTS
  Threads, NoThread,
  NumSlots,    \* 64 in the code
  NumFindable  \* slots __builtin_ffs can find: it looks at an int, so 32

NvFenceAssumption ==
  NoThread \notin Threads /\ NumSlots \in Nat /\ NumFindable \in 1..NumSlots

Slots == 0..NumSlots - 1
NoSlot == NumSlots

VARIABLES
  mask,       \* g_NvEventUsedMask, as the set of its bits
  registered, \* slots whose event is registered and open
  signalled,  \* slots whose event is signalled
  armed,      \* the driver: the thread whose fence a slot's event is for
  reached,    \* the GPU: threads whose fence is reached
  pc, cur,    \* of every thread: where it is, the mask it read
  slot, rc,   \* the slot it has, what it will answer
  late        \* history: slots on which a wait has timed out

vars == <<mask, registered, signalled, armed, reached, pc, cur, slot, rc, late>>

Init ==
  /\ mask = {} /\ registered = {} /\ signalled = {} /\ reached = {} /\ late = {}
  /\ armed = [s \in Slots |-> NoThread]
  /\ pc = [t \in Threads |-> "idle"] /\ cur = [t \in Threads |-> {}]
  /\ slot = [t \in Threads |-> NoSlot] /\ rc = [t \in Threads |-> "none"]

Goto(t, l) == pc' = [pc EXCEPT ![t] = l]
Free(m) == {s \in 0..NumFindable - 1 : s \notin m}
Lowest(S) == CHOOSE s \in S : \A x \in S : s <= x

(* The compare-and-swap that stores a new mask: it is the one that was read. *)
BadStores(t) == TRUE
Stores(t) == mask = cur[t]

(* The wait is over; its fence, and what it read, are forgotten. *)
Return(t) ==
  /\ Goto(t, "idle") /\ rc' = [rc EXCEPT ![t] = "none"]
  /\ cur' = [cur EXCEPT ![t] = {}] /\ reached' = reached \ {t}

-----------------------------------------------------------------------------
nvFenceWait(t) ==
  /\ pc[t] = "idle"
  /\ cur' = [cur EXCEPT ![t] = mask]
  /\ Goto(t, "take")
  /\ UNCHANGED <<mask, registered, signalled, armed, reached, slot, rc, late>>

(* One round of the loop with the compare-and-swap. *)
_nvGetEventSlot(t) ==
  /\ pc[t] = "take"
  /\ \/ /\ Free(cur[t]) = {}   \* InsufficientMemory
        /\ Return(t) /\ UNCHANGED <<mask, slot>>
     \/ /\ Free(cur[t]) # {} /\ Stores(t)
        /\ mask' = mask \cup {Lowest(Free(cur[t]))}
        /\ slot' = [slot EXCEPT ![t] = Lowest(Free(cur[t]))]
        /\ cur' = [cur EXCEPT ![t] = {}]
        /\ Goto(t, "event") /\ UNCHANGED <<rc, reached>>
     \/ /\ Free(cur[t]) # {} /\ ~Stores(t)
        /\ cur' = [cur EXCEPT ![t] = mask]
        /\ UNCHANGED <<mask, slot, pc, rc, reached>>
  /\ UNCHANGED <<registered, signalled, armed, late>>

ToFree(t, answer) ==
  /\ rc' = [rc EXCEPT ![t] = answer]
  /\ cur' = [cur EXCEPT ![t] = mask] /\ Goto(t, "free")

(* Registers the event, or finds it registered; a failure is undone. *)
_nvGetEvent(t) ==
  /\ pc[t] = "event"
  /\ \/ /\ registered' = registered \cup {slot[t]}
        /\ Goto(t, "arm") /\ UNCHANGED <<cur, rc>>
     \/ /\ slot[t] \notin registered
        /\ ToFree(t, "no memory") /\ UNCHANGED registered
  /\ UNCHANGED <<mask, signalled, armed, reached, slot, late>>

(* nvioctlNvhostCtrl_EventWaitAsync: the fence is reached, or its event    *)
(* will be signalled ("timeout"), or the request is refused.               *)
EventWaitAsync(t) ==
  /\ pc[t] = "arm"
  /\ \/ t \in reached /\ ToFree(t, "ok") /\ UNCHANGED armed
     \/ ToFree(t, "error") /\ UNCHANGED armed
     \/ /\ t \notin reached
        /\ armed' = [armed EXCEPT ![slot[t]] = t]
        /\ Goto(t, "wait") /\ UNCHANGED <<cur, rc>>
  /\ UNCHANGED <<mask, registered, signalled, reached, slot, late>>

(* eventWait returns with the signal, which it clears, or after the time.  *)
_nvFenceEventWaitCommon(t) ==
  /\ pc[t] = "wait"
  /\ \/ /\ slot[t] \in signalled /\ signalled' = signalled \ {slot[t]}
        /\ ToFree(t, "ok")
     \/ Goto(t, "cancel") /\ UNCHANGED <<signalled, cur, rc>>
  /\ UNCHANGED <<mask, registered, armed, reached, slot, late>>

(* nvioctlNvhostCtrl_EventSignal ends the asynchronous wait; whether the   *)
(* event is then signalled is the driver's affair.                         *)
EventSignal(t) ==
  /\ pc[t] = "cancel"
  /\ armed' = [armed EXCEPT ![slot[t]] = NoThread]
  /\ \E also \in SUBSET {slot[t]} : signalled' = signalled \cup also
  /\ late' = late \cup {slot[t]}
  /\ ToFree(t, "timeout")
  /\ UNCHANGED <<mask, registered, reached, slot>>

_nvFreeEventSlot(t) ==
  /\ pc[t] = "free"
  /\ IF Stores(t)
     THEN /\ mask' = mask \ {slot[t]} /\ slot' = [slot EXCEPT ![t] = NoSlot]
          /\ Return(t)
     ELSE cur' = [cur EXCEPT ![t] = mask] /\ UNCHANGED <<mask, slot, pc, rc, reached>>
  /\ UNCHANGED <<registered, signalled, armed, late>>

(* The last user leaves: no thread waits any more. *)
nvFenceExit ==
  /\ \A t \in Threads : pc[t] = "idle"
  /\ registered' = {} /\ signalled' = {} /\ late' = {}
  /\ armed' = [s \in Slots |-> NoThread]
  /\ UNCHANGED <<mask, reached, pc, cur, slot, rc>>

(* The GPU reaches the fence a thread waits for; that it did so before, and *)
(* when, shows only once the thread asks.                                   *)
Reach(t) ==
  /\ pc[t] \in {"arm", "wait", "cancel"} /\ t \notin reached
  /\ reached' = reached \cup {t}
  /\ signalled' = signalled \cup {s \in Slots : armed[s] = t}
  /\ armed' = [s \in Slots |-> IF armed[s] = t THEN NoThread ELSE armed[s]]
  /\ UNCHANGED <<mask, registered, pc, cur, slot, rc, late>>

Next ==
  \/ \E t \in Threads :
       \/ nvFenceWait(t) \/ _nvGetEventSlot(t) \/ _nvGetEvent(t) \/ EventWaitAsync(t)
       \/ _nvFenceEventWaitCommon(t) \/ EventSignal(t) \/ _nvFreeEventSlot(t) \/ Reach(t)
  \/ nvFenceExit

Spec == Init /\ [][Next]_vars

-----------------------------------------------------------------------------
TypeOK ==
  /\ mask \subseteq Slots /\ registered \subseteq Slots /\ signalled \subseteq registered
  /\ armed \in [Slots -> Threads \cup {NoThread}] /\ reached \subseteq Threads
  /\ slot \in [Threads -> Slots \cup {NoSlot}] /\ cur \in [Threads -> SUBSET Slots]
  /\ rc \in [Threads -> {"none", "no memory", "ok", "error", "timeout"}]
  /\ pc \in [Threads -> {"idle", "take", "event", "arm", "wait", "cancel", "free"}]

(* The bits of the mask are the slots of the threads, each of one thread;  *)
(* a success is that of the thread's own fence, as long as no wait on the  *)
(* slot has timed out: the signal of a fence reached too late stays.       *)
OwnFence ==
  /\ \A t, u \in Threads : t # u /\ slot[t] # NoSlot => slot[t] # slot[u]
  /\ mask = {slot[t] : t \in Threads} \ {NoSlot}
  /\ \A t \in Threads : rc[t] = "ok" /\ pc[t] = "free" /\ slot[t] \notin late => t \in reached
  /\ \A t \in Threads : pc[t] = "wait" => slot[t] \in registered

(* The slots whose bits are set are those that threads have, each of one   *)
(* thread, while it waits for an event, a registered one.                  *)
MaskIsSlots == \A s \in Slots : s \in mask <=> \E t \in Threads : slot[t] = s
OneEach == \A t, u \in Threads : t # u /\ slot[t] # NoSlot => slot[t] # slot[u]
SlotsTaken ==
  \A t \in Threads :
    /\ slot[t] = NoSlot <=> pc[t] \in {"idle", "take"}
    /\ pc[t] \in {"arm", "wait", "cancel"} => slot[t] \in registered

(* An event is armed for, and then signalled to, the thread that waits for *)
(* it; after a wait that timed out, it may be armed or signalled still.    *)
ArmedFits ==
  \A s \in Slots, t \in Threads : armed[s] = t =>
    /\ s \in registered
    /\ s \notin late => s \notin signalled /\ slot[t] = s /\ pc[t] \in {"wait", "cancel"}
SignalFits ==
  \A s \in signalled \ late :
    \E t \in Threads : t \in reached /\ slot[t] = s /\ pc[t] \in {"wait", "cancel"}

ReachedFirst ==
  \A t \in Threads : rc[t] = "ok" /\ pc[t] = "free" /\ slot[t] \notin late => t \in reached

IInv ==
  /\ TypeOK /\ MaskIsSlots /\ OneEach /\ SlotsTaken /\ ArmedFits /\ SignalFits /\ ReachedFirst
=============================================================================
