------------------------------- MODULE Display ------------------------------
(***************************************************************************)
(* A native window and the frame buffers drawn to it                       *)
(* (display/native_window.c, display/framebuffer.c).  The window mirrors   *)
(* in its own fields what it has registered with the buffer queue of the   *)
(* compositor; the queue is the other side: it owns the state of every     *)
(* slot, takes buffers to show them and returns them, and any request to   *)
(* it may fail.  The window's functions hold its mutex to the end, so each *)
(* is one action.  Width and height behave alike and are one size; usage   *)
(* behaves like the size.                                                  *)
(***************************************************************************)
EXTENDS Integers, FiniteSets

CONSTANTS
  Framebuffers,  \* the Framebuffer structures of the program
  NumSlots,      \* slots, and the most buffers framebufferCreate registers
  Sizes,         \* dimensions of windows and buffers, without 0
  DefaultSize,   \* what the compositor reports
  Margins        \* coordinates of crop rectangles, negative ones included

DisplayAssumption ==
  NumSlots \in Nat \ {0} /\ Sizes \subseteq Nat \ {0} /\ DefaultSize \in Sizes /\ Margins \subseteq Int

Slots == 0..NumSlots - 1

VARIABLES
  nw,     \* the window: valid, connected, configured, requested, cur, size, format, crop
  queue,  \* the compositor's slots: state, and the framebuffer whose memory it is
  live,   \* framebuffers whose memory is allocated
  torn,   \* history: a request to disconnect failed
  fatal   \* fatalSimple ended the program

vars == <<nw, queue, live, torn, fatal>>

NoFormat == -1      \* ~0U, the format of a new window
Empty == [state |-> "empty", of |-> {}, size |-> 0]

Closed ==  \* all zero: slot 0 is current
  [valid |-> FALSE, connected |-> FALSE, configured |-> {}, requested |-> {}, cur |-> 0,
   size |-> 0, format |-> 0, crop |-> <<0, 0>>]

Created == [Closed EXCEPT !.valid = TRUE, !.cur = -1, !.format = NoFormat]

Init ==
  /\ nw = Closed /\ queue = [s \in Slots |-> Empty]
  /\ live = {} /\ torn = FALSE /\ fatal = FALSE

-----------------------------------------------------------------------------
(* A disconnect after which the window still believes its slots requested. *)
Bad_nwindowDisconnect(w) ==
  [w EXCEPT !.connected = FALSE, !.configured = {}, !.cur = -1, !.size = 0, !.format = 0]

(* The window forgets its buffers only when the queue has; its crop it keeps. *)
_nwindowDisconnect(w) ==
  [w EXCEPT !.connected = FALSE, !.configured = {}, !.requested = {}, !.cur = -1,
            !.size = 0, !.format = 0]

nwindowCreate ==
  /\ ~fatal /\ ~nw.valid
  /\ nw' = [Created EXCEPT !.connected = TRUE]   \* or it fails, and is closed again
  /\ queue' = [s \in Slots |-> Empty] /\ torn' = FALSE   \* another layer
  /\ UNCHANGED <<live, fatal>>

nwindowClose ==
  /\ ~fatal /\ nw.valid
  /\ nw' = Closed
  /\ IF nw.connected
     THEN \E ok \in BOOLEAN :
            /\ queue' = IF ok THEN [s \in Slots |-> Empty] ELSE queue
            /\ torn' = (torn \/ ~ok)
     ELSE UNCHANGED <<queue, torn>>
  /\ UNCHANGED <<live, fatal>>

nwindowSetDimensions(size) ==
  /\ ~fatal /\ nw.valid
  /\ ~(nw.size # 0 /\ nw.configured # {})
  /\ nw' = [nw EXCEPT !.size = size, !.crop = <<0, 0>>]
  /\ UNCHANGED <<queue, live, torn, fatal>>

Dimension == IF nw.size # 0 THEN nw.size ELSE DefaultSize

(* The right margin is compared as an unsigned number. *)
nwindowSetCrop(left, right) ==
  /\ ~fatal /\ nw.valid /\ right >= left
  /\ nw' = [nw EXCEPT !.crop = <<IF left < 0 THEN 0 ELSE left,
                                 IF right < 0 \/ right > Dimension THEN Dimension ELSE right>>]
  /\ UNCHANGED <<queue, live, torn, fatal>>

(* nwindowConfigureBuffer, for buffers of a size: the window connects and   *)
(* adopts the size before the queue is asked whether it takes the buffer.   *)
Adopted(w, size) ==
  [w EXCEPT !.connected = TRUE, !.size = IF @ = 0 THEN size ELSE @,
            !.format = IF @ = NoFormat THEN 1 ELSE @]

(* After the first n slots were configured. *)
Registered(w, n, size) ==
  IF n = 0 THEN w ELSE [Adopted(w, size) EXCEPT !.configured = @ \cup 0..n - 1]

Preallocated(q, n, fb, size) ==
  [s \in Slots |-> IF s < n THEN [state |-> "free", of |-> {fb}, size |-> size] ELSE q[s]]

(* What nwindowReleaseBuffers makes of the window, the queue and torn.  The *)
(* answers to bqDetachBuffer are ignored; gone are the slots where it       *)
(* worked.                                                                  *)
Released(w, q) ==
  IF w.valid /\ w.cur < 0 /\ w.connected /\ w.configured # {}
  THEN {[nw |-> _nwindowDisconnect(w), queue |-> [s \in Slots |-> Empty], torn |-> torn]}
       \cup {[nw |-> w, queue |-> [s \in Slots |-> IF s \in gone THEN Empty ELSE q[s]], torn |-> TRUE]
               : gone \in SUBSET w.configured}
  ELSE {[nw |-> w, queue |-> q, torn |-> torn]}

ReleaseBuffers(w, q) ==
  \E r \in Released(w, q) : nw' = r.nw /\ queue' = r.queue /\ torn' = r.torn

nwindowReleaseBuffers ==
  /\ ~fatal /\ nw.valid
  /\ ReleaseBuffers(nw, queue)
  /\ UNCHANGED <<live, fatal>>

nwindowDequeueBuffer ==
  /\ nw.valid /\ nw.configured # {} /\ nw.cur < 0
  /\ \E s \in Slots :
       /\ queue[s].state = "free"
       /\ \/ /\ nw' = [nw EXCEPT !.cur = s, !.requested = @ \cup {s}]
             /\ queue' = [queue EXCEPT ![s].state = "dequeued"]
             /\ fatal' = FALSE
          \/ /\ s \notin nw.requested       \* bqRequestBuffer failed, and
             /\ \E cancelled \in BOOLEAN :  \* the answer to bqCancelBuffer is ignored
                  queue' = [queue EXCEPT ![s].state = IF cancelled THEN "free" ELSE "dequeued"]
             /\ nw' = nw /\ fatal' = TRUE

nwindowCancelBuffer ==
  /\ ~fatal /\ nw.valid /\ nw.cur >= 0
  /\ nw' = [nw EXCEPT !.cur = -1]
  /\ queue' = [queue EXCEPT ![nw.cur].state = "free"]
  /\ UNCHANGED <<live, torn, fatal>>

-----------------------------------------------------------------------------
(* nvInitialize, nvMapInit and nvFenceInit undo themselves, and without     *)
(* memory nothing was registered; any later failure is followed by          *)
(* framebufferClose.  Slot k may be configured already or be refused by the *)
(* queue, when k slots of this framebuffer are registered.                  *)
framebufferCreate(fb, size, n) ==
  LET w(k) == Registered(nw, k, size)
      q(k) == Preallocated(queue, k, fb, size)
      Free(k) == 0..k - 1 \cap nw.configured = {}
  IN  /\ ~fatal /\ nw.valid /\ fb \notin live
      /\ \/ UNCHANGED <<nw, queue, live, torn>>
         \/ ReleaseBuffers(nw, queue) /\ UNCHANGED live   \* nvMapCreate, or bqConnect, failed
         \/ /\ \E k \in 0..n - 1 :
                 /\ Free(k)
                 /\ ReleaseBuffers(IF k \in nw.configured THEN w(k) ELSE Adopted(w(k), size), q(k))
            /\ UNCHANGED live
         \/ Free(n) /\ nw' = w(n) /\ queue' = q(n) /\ live' = live \cup {fb} /\ torn' = torn
      /\ fatal' = fatal

(* Begin and End come in pairs: a framebuffer is closed only after End. *)
framebufferClose(fb) ==
  /\ ~fatal /\ fb \in live /\ (nw.valid => nw.cur < 0)
  /\ ReleaseBuffers(nw, queue)
  /\ live' = live \ {fb}
  /\ UNCHANGED fatal

framebufferBegin(fb) ==
  /\ ~fatal /\ fb \in live
  /\ IF nw.valid /\ nw.configured # {} /\ nw.cur < 0
     THEN nwindowDequeueBuffer
     ELSE fatal' = TRUE /\ UNCHANGED <<nw, queue>>
  /\ UNCHANGED <<live, torn>>

framebufferEnd(fb) ==
  /\ ~fatal /\ fb \in live
  /\ IF nw.valid /\ nw.cur >= 0
     THEN \/ /\ nw' = [nw EXCEPT !.cur = -1]
             /\ queue' = [queue EXCEPT ![nw.cur].state = "queued"]
             /\ UNCHANGED fatal
          \/ fatal' = TRUE /\ UNCHANGED <<nw, queue>>
     ELSE fatal' = TRUE /\ UNCHANGED <<nw, queue>>
  /\ UNCHANGED <<live, torn>>

(* The compositor takes a buffer to show it, and returns it. *)
Compose ==
  /\ \E s \in Slots :
       \/ queue[s].state = "queued" /\ queue' = [queue EXCEPT ![s].state = "acquired"]
       \/ queue[s].state = "acquired" /\ queue' = [queue EXCEPT ![s].state = "free"]
  /\ UNCHANGED <<nw, live, torn, fatal>>

Next ==
  \/ nwindowCreate \/ nwindowClose \/ nwindowReleaseBuffers \/ nwindowCancelBuffer \/ Compose
  \/ \E size \in Sizes : nwindowSetDimensions(size)
  \/ \E left, right \in Margins : nwindowSetCrop(left, right)
  \/ \E fb \in Framebuffers :
       \/ framebufferClose(fb) \/ framebufferBegin(fb) \/ framebufferEnd(fb)
       \/ \E size \in Sizes, n \in 1..NumSlots : framebufferCreate(fb, size, n)

Spec == Init /\ [][Next]_vars

-----------------------------------------------------------------------------
Windows ==
  [valid : BOOLEAN, connected : BOOLEAN, configured : SUBSET Slots, requested : SUBSET Slots,
   cur : -1..NumSlots - 1, size : Sizes \cup {0}, format : {NoFormat, 0, 1}, crop : Int \X Int]

Buffers ==
  [state : {"empty", "free", "dequeued", "queued", "acquired"}, of : SUBSET Framebuffers,
   size : Sizes \cup {0}]

TypeOK ==
  /\ nw \in Windows /\ queue \in [Slots -> Buffers]
  /\ live \subseteq Framebuffers /\ torn \in BOOLEAN /\ fatal \in BOOLEAN

(* The window and the compositor agree: the slots the window believes it   *)
(* has configured are those that hold a buffer, a current slot is dequeued *)
(* and is the only one.                                                    *)
SlotsAgree ==
  ~torn /\ ~fatal /\ nw.valid =>
    /\ nw.configured = {s \in Slots : queue[s].state # "empty"}
    /\ nw.requested \subseteq nw.configured
    /\ {s \in Slots : queue[s].state = "dequeued"} = {nw.cur} \cap Slots

(* The compositor never holds memory that was given back to the heap: a    *)
(* failing framebufferCreate and every framebufferClose release the        *)
(* buffers, even those another framebuffer registered, before they free.   *)
BuffersAlive == ~torn => \A s \in Slots : queue[s].of \subseteq live

(* A window registers slots from the first on, while it is connected; one  *)
(* that is not has nothing in the queue.                                   *)
FirstSlots ==
  ~torn =>
    /\ \A s \in Slots : queue[s].state = "empty" => queue[s].of = {}
    /\ ~fatal /\ nw.valid /\ nw.configured # {} => 0 \in nw.configured /\ nw.connected
    /\ ~fatal /\ ~(nw.valid /\ nw.connected) => \A s \in Slots : queue[s].state = "empty"

(* Both, what every function of the window and the framebuffer relies on. *)
WindowMatchesQueue == SlotsAgree /\ BuffersAlive

IInv == TypeOK /\ FirstSlots /\ WindowMatchesQueue
=============================================================================
