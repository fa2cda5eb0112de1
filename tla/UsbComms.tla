------------------------------ MODULE UsbComms ------------------------------
(***************************************************************************)
(* The usbComms device (runtime/devices/usb_comms.c on services/usbds.c):  *)
(* a few USB interfaces, each with an endpoint and a buffer for either     *)
(* direction.  Controllers initialise and exit it, users read and write.   *)
(* Four kinds of read/write locks are taken, all but one of them only for  *)
(* writing: that of the device and, of every interface, lock, lock_in and  *)
(* lock_out.  Data are left out: a transfer is a number of chunks.         *)
(***************************************************************************)
EXTENDS Naturals

CONSTANTS
  Controllers, Users, NoThread,
  NumInterfaces   \* TOTAL_INTERFACES, 4 in the code

UsbCommsAssumption ==
  NoThread \notin Controllers \cup Users /\ NumInterfaces \in Nat \ {0}

Callers == Controllers \cup Users
Interfaces == 0..NumInterfaces - 1
Directions == {"in", "out"}

VARIABLES
  ds,           \* the usb:ds session is open
  initialized,  \* g_usbCommsInitialized
  intf,         \* of every interface: initialized, and which endpoints and buffers it has
  gLock,        \* holder of g_usbCommsLock
  lock,         \* of every interface: who holds lock for writing
  dirLock,      \* and lock_in and lock_out
  pc, at, want, \* of every thread: where it is, the interface it is at, how many it initialises
  dir, attempt, \* the direction of its transfer, first or second attempt
  configured,   \* the state of the bus is 5
  crashed       \* an endpoint that is NULL was used

vars == <<ds, initialized, intf, gLock, lock, dirLock, pc, at, want, dir, attempt, configured, crashed>>

Gone == [initialized |-> FALSE, buffers |-> {}, endpoints |-> {}]
Full == [initialized |-> TRUE, buffers |-> Directions, endpoints |-> Directions]

Init ==
  /\ ds = FALSE /\ initialized = FALSE /\ configured = FALSE /\ crashed = FALSE
  /\ intf = [i \in Interfaces |-> Gone]
  /\ gLock = NoThread /\ lock = [i \in Interfaces |-> NoThread]
  /\ dirLock = [i \in Interfaces |-> [d \in Directions |-> NoThread]]
  /\ pc = [t \in Callers |-> "idle"] /\ at = [t \in Callers |-> 0]
  /\ want = [t \in Callers |-> 0] /\ attempt = [t \in Callers |-> 1]
  /\ dir = [t \in Callers |-> "in"]

Goto(t, l) == pc' = [pc EXCEPT ![t] = l]
transfer == <<dir, attempt, configured, crashed>>
device == <<ds, initialized, gLock>>

-----------------------------------------------------------------------------
(* usbCommsInitializeEx, for n interfaces.  A device that is initialised is *)
(* left alone.                                                              *)
usbCommsInitializeEx(c, n) ==
  /\ pc[c] = "idle" /\ gLock = NoThread /\ ~initialized
  /\ gLock' = c /\ want' = [want EXCEPT ![c] = n]
  /\ Goto(c, "open")
  /\ UNCHANGED <<ds, initialized, intf, lock, dirLock, at, transfer>>

(* usbDsInitialize, and from 5.0.0 the descriptors, of which one may fail. *)
OpenSession(c) ==
  /\ pc[c] = "open"
  /\ \/ ds' = TRUE /\ Goto(c, "lock") /\ at' = [at EXCEPT ![c] = 0]
     \/ ds' \in BOOLEAN /\ Goto(c, "exit") /\ UNCHANGED at
  /\ UNCHANGED <<initialized, intf, gLock, lock, dirLock, want, transfer>>

(* Exit frees all interfaces, Initialize holds the device and prepares the *)
(* first few.                                                              *)
Freeing(c) == gLock # c
Last(c) == IF Freeing(c) THEN NumInterfaces ELSE want[c]
GoOn(c) == at' = [at EXCEPT ![c] = @ + 1] /\ Goto(c, "lock")

LockInterface(c) ==
  /\ pc[c] = "lock" /\ at[c] < Last(c) /\ lock[at[c]] = NoThread
  /\ IF Freeing(c) /\ ~intf[at[c]].initialized
     THEN GoOn(c) /\ UNCHANGED lock
     ELSE lock' = [lock EXCEPT ![at[c]] = c] /\ Goto(c, "lock_in") /\ UNCHANGED at
  /\ UNCHANGED <<device, intf, dirLock, want, transfer>>

LockIn(c) ==
  /\ pc[c] = "lock_in" /\ dirLock[at[c]]["in"] = NoThread
  /\ dirLock' = [dirLock EXCEPT ![at[c]]["in"] = c]
  /\ Goto(c, "lock_out")
  /\ UNCHANGED <<device, intf, lock, at, want, transfer>>

Unlock(c) ==
  /\ lock' = [lock EXCEPT ![at[c]] = NoThread]
  /\ dirLock' = [dirLock EXCEPT ![at[c]]["in"] = NoThread]

(* What _usbCommsInterfaceInit leaves behind when it fails. *)
Halfway ==
  [initialized : {TRUE}, buffers : {{}, {"in"}}, endpoints : {{}}]
    \cup [initialized : {TRUE}, buffers : {Directions}, endpoints : {{}, {"in"}, Directions}]

BadLockOut(c) == pc[c] = "lock_out"  \* mutant: lock_out is not taken

LockOut(c) == pc[c] = "lock_out" /\ dirLock[at[c]]["out"] = NoThread

(* With all three locks: _usbCommsInterfaceInit, or the rest of            *)
(* _usbCommsInterfaceFree.                                                 *)
WorkOnInterface(c) ==
  /\ LockOut(c)
  /\ IF Freeing(c)
     THEN intf' = [intf EXCEPT ![at[c]] = Gone] /\ GoOn(c)
     ELSE \/ intf' = [intf EXCEPT ![at[c]] = Full] /\ GoOn(c)
          \/ /\ \E h \in Halfway : intf' = [intf EXCEPT ![at[c]] = h]
             /\ Goto(c, "exit") /\ UNCHANGED at
  /\ Unlock(c)
  /\ UNCHANGED <<device, want, transfer>>

(* A failure of usbDsEnable that is not undone. *)
BadInitialized(c) ==
  /\ pc[c] = "lock" /\ at[c] = Last(c) /\ ~Freeing(c)
  /\ initialized' \in BOOLEAN /\ gLock' = NoThread /\ Goto(c, "idle")
  /\ UNCHANGED <<ds, intf, lock, dirLock, at, want, transfer>>

(* usbDsEnable may still fail. *)
Initialized(c) ==
  /\ pc[c] = "lock" /\ at[c] = Last(c) /\ ~Freeing(c)
  /\ \/ initialized' = TRUE /\ gLock' = NoThread /\ Goto(c, "idle")
     \/ Goto(c, "exit") /\ UNCHANGED <<initialized, gLock>>
  /\ UNCHANGED <<ds, intf, lock, dirLock, at, want, transfer>>

(* usbCommsExit, from the program or from a failing Initialize, which      *)
(* holds the lock this one asks for.                                       *)
usbCommsExit(c) ==
  /\ pc[c] = "idle" /\ Goto(c, "exit")
  /\ UNCHANGED <<device, intf, lock, dirLock, at, want, transfer>>

CloseSession(c) ==
  /\ pc[c] = "exit" /\ gLock = NoThread
  /\ ds' = FALSE /\ initialized' = FALSE
  /\ at' = [at EXCEPT ![c] = 0] /\ Goto(c, "lock")
  /\ UNCHANGED <<gLock, intf, lock, dirLock, want, transfer>>

Exited(c) ==
  /\ pc[c] = "lock" /\ at[c] = Last(c) /\ Freeing(c)
  /\ Goto(c, "idle")
  /\ UNCHANGED <<device, intf, lock, dirLock, at, want, transfer>>

-----------------------------------------------------------------------------
(* usbCommsReadEx ("out") and usbCommsWriteEx ("in"): the flag is read     *)
(* under lock, which is then given back.                                   *)
usbCommsTransfer(t, i, d) ==
  /\ pc[t] = "idle" /\ lock[i] = NoThread /\ intf[i].initialized
  /\ at' = [at EXCEPT ![t] = i] /\ dir' = [dir EXCEPT ![t] = d]
  /\ attempt' = [attempt EXCEPT ![t] = 1]
  /\ Goto(t, "enter")
  /\ UNCHANGED <<device, intf, lock, dirLock, want, configured, crashed>>

Enter(t) ==
  /\ pc[t] = "enter" /\ dirLock[at[t]][dir[t]] = NoThread
  /\ dirLock' = [dirLock EXCEPT ![at[t]][dir[t]] = t]
  /\ Goto(t, "ready")
  /\ UNCHANGED <<device, intf, lock, at, want, transfer>>

Leave(t, l) ==
  dirLock' = [dirLock EXCEPT ![at[t]][dir[t]] = NoThread] /\ Goto(t, l)

(* usbDsWaitReady: fails without a session, sleeps while the bus is not    *)
(* configured.                                                             *)
WaitReady(t) ==
  /\ pc[t] = "ready"
  /\ \/ Leave(t, "failed")                      \* usbDsGetState failed
     \/ ds /\ configured /\ Goto(t, "post") /\ UNCHANGED dirLock
     \/ ds /\ ~configured /\ Goto(t, "asleep") /\ UNCHANGED dirLock
  /\ UNCHANGED <<device, intf, lock, at, want, transfer>>

(* A chunk is posted: without a session, and at the driver's will, an error. *)
PostBufferAsync(t) ==
  /\ pc[t] = "post"
  /\ IF dir[t] \notin intf[at[t]].endpoints
     THEN crashed' = TRUE /\ UNCHANGED <<dirLock, pc>>
     ELSE /\ \/ Leave(t, "failed")
             \/ ds /\ Goto(t, "wait") /\ UNCHANGED dirLock
          /\ UNCHANGED crashed
  /\ UNCHANGED <<device, intf, lock, at, want, dir, attempt, configured>>

(* The transfer ends, or was cancelled by usbDsExit; its report says how.  *)
Completion(t) ==
  /\ pc[t] = "wait"
  /\ \/ Leave(t, "failed")
     \/ ds /\ Leave(t, "idle")                            \* the last chunk, or a short one
     \/ ds /\ Goto(t, "post") /\ UNCHANGED dirLock
  /\ UNCHANGED <<device, intf, lock, at, want, transfer>>

(* A transfer the bus went away from is tried once more, from the start.   *)
TryAgain(t) ==
  /\ pc[t] = "failed"
  /\ \/ Goto(t, "idle") /\ UNCHANGED attempt
     \/ /\ attempt[t] = 1 /\ ds /\ ~configured
        /\ attempt' = [attempt EXCEPT ![t] = 2]
        /\ Goto(t, "enter")
  /\ UNCHANGED <<device, intf, lock, dirLock, at, want, dir, configured, crashed>>

(* The host configures the device or lets go of it; the event wakes those  *)
(* who sleep, if it is still open.                                         *)
StateChange ==
  /\ configured' = ~configured
  /\ pc' = [t \in Callers |-> IF ds /\ pc[t] = "asleep" THEN "ready" ELSE pc[t]]
  /\ UNCHANGED <<device, intf, lock, dirLock, at, want, dir, attempt, crashed>>

Control(c) ==
  \/ \E n \in 1..NumInterfaces : usbCommsInitializeEx(c, n)
  \/ OpenSession(c) \/ LockInterface(c) \/ LockIn(c) \/ WorkOnInterface(c) \/ Initialized(c)
  \/ usbCommsExit(c) \/ CloseSession(c) \/ Exited(c)

Transfer(t) ==
  \/ \E i \in Interfaces, d \in Directions : usbCommsTransfer(t, i, d)
  \/ Enter(t) \/ WaitReady(t) \/ PostBufferAsync(t) \/ Completion(t) \/ TryAgain(t)

Next ==
  /\ ~crashed
  /\ \/ \E c \in Controllers : Control(c)
     \/ \E t \in Users : Transfer(t)
     \/ StateChange

Spec == Init /\ [][Next]_vars

(* Controllers run, but for the calls they may or may not make. *)
FairSpec ==
  Spec /\ \A c \in Controllers : WF_vars(~crashed /\ pc[c] # "idle" /\ Control(c))

-----------------------------------------------------------------------------
(* Where a controller works on the device, where a user is inside an       *)
(* endpoint.                                                               *)
Working == {"open", "lock", "lock_in", "lock_out", "exit"}
Inside == {"ready", "asleep", "post", "wait"}

TypeOK ==
  /\ ds \in BOOLEAN /\ initialized \in BOOLEAN /\ configured \in BOOLEAN /\ crashed \in BOOLEAN
  /\ intf \in [Interfaces -> {Gone, Full} \cup Halfway]
  /\ gLock \in Callers \cup {NoThread} /\ lock \in [Interfaces -> Callers \cup {NoThread}]
  /\ dirLock \in [Interfaces -> [Directions -> Callers \cup {NoThread}]]
  /\ pc \in [Callers -> Working \cup Inside \cup {"idle", "enter", "failed"}]
  /\ at \in [Callers -> 0..NumInterfaces] /\ want \in [Callers -> 0..NumInterfaces]
  /\ dir \in [Callers -> Directions] /\ attempt \in [Callers -> 1..2]

(* A transfer under way has its endpoint and its buffer to itself, and     *)
(* neither is freed before it has ended, though usbCommsExit does not wait *)
(* for transfers when it closes the session.                               *)
TransferKeepsBuffer ==
  \A t \in Users : pc[t] = "wait" =>
    /\ dir[t] \in intf[at[t]].endpoints /\ dir[t] \in intf[at[t]].buffers
    /\ \A u \in Users : u # t /\ pc[u] \in Inside =>
         at[u] # at[t] \/ dir[u] # dir[t]

(* The device of the only controller c is set up as c asked. *)
Whole(c) ==
  initialized /\ ds /\ \A i \in Interfaces : intf[i] = IF i < want[c] THEN Full ELSE Gone

(* c is freeing the interfaces and has not come to i. *)
StillToFree(c, i) == pc[c] \in {"lock", "lock_in", "lock_out"} /\ i >= at[c]

Empty(c) ==
  ~initialized /\ ~ds /\ \A i \in Interfaces : intf[i] = Gone \/ StillToFree(c, i)

(* The initialization of c has failed, and c waits for its own lock. *)
Failed(c) == gLock = c /\ pc[c] = "exit"

(* What a failure leaves, whichever step it was: some interfaces complete, *)
(* the next one perhaps half, no other.                                    *)
LeftBehind(c) ==
  /\ ~initialized
  /\ ds \/ \A i \in Interfaces : intf[i] = Gone
  /\ \E n \in 0..want[c] : \A i \in Interfaces :
       /\ i < n => intf[i] = Full
       /\ i = n => intf[i] \in {Gone} \cup Halfway
       /\ i > n => intf[i] = Gone

(* With one controller, a device that is neither set up as it was asked    *)
(* for nor being emptied is locked: when the lock is free nobody finds it  *)
(* half done.  A failed initialization does not undo what it did           *)
(* (usb_comms.c:145 waits for the lock first): it never gives the lock     *)
(* back, and leaves the device marked as not initialized, with what it had *)
(* set up in order and nothing behind it.                                  *)
HalfDoneIsLocked ==
  \A c \in Controllers : Controllers = {c} =>
    /\ gLock = NoThread => Whole(c) \/ Empty(c)
    /\ Failed(c) => LeftBehind(c)

(* Who holds the locks of an interface. *)
LocksHeld ==
  \A t \in Callers :
    /\ pc[t] \in {"lock_in", "lock_out", "enter", "failed"} \cup Inside => at[t] \in Interfaces
    /\ pc[t] \in {"lock_in", "lock_out"} => lock[at[t]] = t
    /\ pc[t] = "lock_out" => dirLock[at[t]]["in"] = t
    /\ pc[t] \in Inside => dirLock[at[t]][dir[t]] = t

(* How far the only controller has come with its interfaces; one whose     *)
(* initialization failed holds the lock, and never has it again.           *)
Progress(c) ==
  /\ gLock \in {c, NoThread}
  /\ gLock = c => pc[c] \in Working
  /\ pc[c] = "open" => gLock = c /\ ~ds /\ ~initialized /\ \A i \in Interfaces : intf[i] = Gone
  /\ pc[c] \in {"lock", "lock_in", "lock_out"} =>
       /\ ~initialized /\ at[c] <= Last(c)
       /\ pc[c] # "lock" => at[c] < Last(c)
       /\ IF Freeing(c)
          THEN ~ds /\ \A i \in Interfaces : i < at[c] => intf[i] = Gone
          ELSE ds /\ \A i \in Interfaces : intf[i] = IF i < at[c] THEN Full ELSE Gone
  /\ pc[c] \notin Working \/ (pc[c] = "exit" /\ gLock # c) =>
       Whole(c) \/ (~initialized /\ ~ds /\ \A i \in Interfaces : intf[i] = Gone)
  /\ Failed(c) => LeftBehind(c)

HowFar == \A c \in Controllers : Controllers = {c} => Progress(c)

IInv == TypeOK /\ LocksHeld /\ TransferKeepsBuffer /\ HowFar

(* usbCommsInitializeEx answers with a Result: it comes to an end           *)
(* (usb_comms.h).                                                           *)
InitializeReturns ==
  \A c \in Controllers : pc[c] = "open" ~> pc[c] = "idle"
=============================================================================
