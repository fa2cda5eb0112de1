-------------------------- MODULE MultiWaitProofs --------------------------
(***************************************************************************)
(* Proofs about MultiWait for any number of threads, objects and ticks:    *)
(* the inductive invariant IInv, when no waitable has two listeners at     *)
(* once and the compare-exchange does not fail spuriously, and from it     *)
(* that the lists stay sound and no signal or timer change is slept over.  *)
(***************************************************************************)
EXTENDS MultiWait, WellFoundedInduction, TLAPS

-----------------------------------------------------------------------------
(* Operators *)

LEMMA LowestIn ==
  ASSUME NEW S, S \subseteq Nat, S # {} PROVE Lowest(S) \in S
<1> DEFINE R == {ss \in Nat \X Nat : ss[1] < ss[2]}
<1>1. IsWellFoundedOn(R, Nat)
  BY NatLessThanWellFounded DEF OpToRel
<1>2. \A j, l \in Nat : j < l => <<j, l>> \in R
  OBVIOUS
<1> HIDE DEF R
<1>3. PICK k \in S : \A j \in S : ~ (<<j, k>> \in R)
  BY <1>1, WFMin
<1>4. ASSUME NEW j \in S PROVE k <= j
  <2>1. j \in Nat /\ k \in Nat
    OBVIOUS
  <2>2. ~ (<<j, k>> \in R)
    BY <1>3
  <2>3. ~ (j < k)
    BY <2>1, <2>2, <1>2
  <2> QED BY <2>1, <2>3
<1> QED BY <1>4 DEF Lowest

(* Rounding up to a multiple of the interval. *)
LEMMA CeilDivNat ==
  ASSUME NEW a \in Nat, NEW b \in Nat \ {0} PROVE CeilDiv(a, b) * b \in Nat
<1>1. a + b - 1 \in Nat
  OBVIOUS
<1>2. CeilDiv(a, b) \in Nat
  BY <1>1 DEF CeilDiv
<1> QED BY <1>2

(* What _utimerRecalculate leaves. *)
LEMMA RecalculateType ==
  ASSUME started \in [Timers -> BOOLEAN], nextTick \in [Timers -> Nat], now \in Nat,
         NEW m \in Timers, NEW old \in Nat, old <= now, Recalculate(m, old)
  PROVE  /\ started' \in [Timers -> BOOLEAN] /\ nextTick' \in [Timers -> Nat]
         /\ \A n \in Timers \ {m} : started'[n] = started[n] /\ nextTick'[n] = nextTick[n]
<1>1. Interval[m] \in Nat \ {0}
  BY MultiWaitAssumption
<1> DEFINE later == old + CeilDiv(now - old, Interval[m]) * Interval[m]
<1>2. later \in Nat
  BY <1>1, CeilDivNat
<1>3. \/ nextTick' = [nextTick EXCEPT ![m] = later] /\ started' = started
      \/ started' = [started EXCEPT ![m] = FALSE] /\ nextTick' = [nextTick EXCEPT ![m] = 0]
      \/ started' = started /\ nextTick' = nextTick
  BY DEF Recalculate
<1> HIDE DEF later
<1>4. CASE nextTick' = [nextTick EXCEPT ![m] = later] /\ started' = started
  BY <1>2, <1>4
<1>5. CASE started' = [started EXCEPT ![m] = FALSE] /\ nextTick' = [nextTick EXCEPT ![m] = 0]
  BY <1>5
<1> QED BY <1>3, <1>4, <1>5

-----------------------------------------------------------------------------
(* What a step leaves alone. *)

(* A step of t on its own frame. *)
OthersKeep(t) ==
  \A u \in Threads \ {t} :
    pc'[u] = pc[u] /\ frame'[u] = frame[u] /\ trig'[u] = trig[u] /\ cancel'[u] = cancel[u]

(* A step that adds and removes no listener. *)
SameListeners ==
  \A t \in Threads :
    frame'[t].objects = frame[t].objects /\ frame'[t].added = frame[t].added

LEMMA KeepLive ==
  ASSUME SameListeners
  PROVE  /\ \A w : Live(w)' = Live(w)
         /\ \A t \in Threads : /\ Array(t)' = Array(t)
                               /\ \A w : Listens(t, w)' <=> Listens(t, w)
                               /\ \A w : Listening(t, w)' <=> Listening(t, w)
<1>1. ASSUME NEW t \in Threads
      PROVE  /\ Array(t)' = Array(t)
             /\ \A w : Listens(t, w)' <=> Listens(t, w)
             /\ \A w : Listening(t, w)' <=> Listening(t, w)
  BY DEF SameListeners, Array, Listens, Listening
<1>2. ASSUME NEW w PROVE Live(w)' = Live(w)
  BY DEF SameListeners, Live, Array, Nodes
<1> QED BY <1>1, <1>2

LEMMA KeepLists ==
  ASSUME IInv, SameListeners, UNCHANGED <<next, prev>>
  PROVE  Apart' /\ ListShape'
BY KeepLive DEF IInv, Apart, ListShape

LEMMA KeepWalks ==
  ASSUME IInv, \A w \in Waitables : mutex[w] # Nobody => Live(w)' = Live(w),
         UNCHANGED <<mutex, walker>>
  PROVE  Walks'
<1>1. ASSUME NEW s \in Signallers PROVE WalkTells(s)'
  <2>1. CASE walker[s] = Idle
    BY <2>1 DEF WalkTells, Idle
  <2>2. CASE walker[s] # Idle
    <3>1. walker[s].list \in Waitables /\ mutex[walker[s].list] = s
      BY <2>2 DEF IInv, Walks, WalkTells
    <3>2. Live(walker[s].list)' = Live(walker[s].list)
      BY <3>1, MultiWaitAssumption
    <3> QED BY <2>2, <3>1, <3>2 DEF IInv, Walks, WalkTells
  <2> QED BY <2>1, <2>2
<1>2. HeldByWalk'
  BY DEF IInv, Walks, HeldByWalk, Idle
<1> QED BY <1>1, <1>2 DEF Walks

(* The types, the frames apart. *)
Typed ==
  /\ TypeOK /\ frame \in [Threads -> Frames]
  /\ walker \in [Signallers -> [at : {"out", "walk", "cancel"}, list : Waitables \cup {Nobody},
                                 node : Links \cup {Nobody}]]
  /\ trig \in [Threads -> Nat]

LEMMA TypedInIInv == IInv => Typed
BY DEF IInv, Typed

LEMMA KeepTyped ==
  ASSUME IInv, NEW t \in Threads, OthersKeep(t), UNCHANGED <<now, mutex>>,
         walker' \in [Signallers -> [at : {"out", "walk", "cancel"}, list : Waitables \cup {Nobody},
                                     node : Links \cup {Nobody}]],
         pc' \in [Threads -> {"out", "loop", "begin", "blocked", "woken", "clean"}],
         frame' \in [Threads -> Frames], trig' \in [Threads -> Nat],
         cancel' \in [Threads -> BOOLEAN],
         FrameTells(t)', trig'[t] \in {0} \cup DOMAIN frame'[t].objects,
         signal' \in [Events -> BOOLEAN], started' \in [Timers -> BOOLEAN],
         nextTick' \in [Timers -> Nat], hsig' \subseteq Handles,
         next' \in [Links -> Links], prev' \in [Links -> Links]
  PROVE  Typed'
<1>1. ASSUME NEW u \in Threads
      PROVE  /\ Array(u)' \in WaitArrays \cup {<<>>}
             /\ frame'[u].added \subseteq DOMAIN Array(u)'
             /\ frame'[u].endIdx \in {0} \cup DOMAIN Array(u)'
             /\ frame'[u].endTick \in Times /\ frame'[u].wakeAt \in Times
             /\ trig'[u] \in {0} \cup DOMAIN Array(u)'
  <2>1. frame'[u] \in Frames
    OBVIOUS
  <2>2. CASE u = t
    BY <2>1, <2>2 DEF Frames, FrameTells, Array
  <2>3. CASE u # t
    BY <2>1, <2>3 DEF OthersKeep, IInv, TypeOK, Array
  <2> QED BY <2>2, <2>3
<1>2. TypeOK'
  BY <1>1 DEF IInv, TypeOK
<1> QED BY <1>2 DEF IInv, Typed

(* What is said of the other threads. *)
LEMMA OthersTell ==
  ASSUME IInv, NEW t \in Threads, OthersKeep(t), now' = now
  PROVE  \A u \in Threads \ {t} : FrameTells(u)' /\ EndTells(u)'
BY DEF IInv, OthersKeep, FrameTells, EndTells

(* A step of t that does not bring it nearer to sleep, and that takes      *)
(* signals away or looks after timers of its own array.                    *)
LEMMA LeaveWait ==
  ASSUME IInv, NEW t \in Threads, OthersKeep(t), UNCHANGED walker,
         pc'[t] \notin {"begin", "blocked"},
         \A e \in Events : signal'[e] => signal[e],
         \A m \in Timers : \/ Listens(t, m)
                           \/ started'[m] = started[m] /\ nextTick'[m] = nextTick[m]
  PROVE  PickedIsTold' /\ SignalPicks' /\ EndFitsTimers'
<1>1. PickedIsTold'
  BY DEF IInv, PickedIsTold, OthersKeep
<1>2. ASSUME NEW u \in Threads, u # t
      PROVE  \A w : (Listening(u, w)' <=> Listening(u, w)) /\ (Ahead(w)' <=> Ahead(w))
  BY <1>2 DEF OthersKeep, Listening, Array, Ahead
<1>3. SignalPicks'
  BY <1>2 DEF IInv, SignalPicks, OthersKeep
<1>4. ASSUME NEW u \in Threads, u # t, NEW m \in Timers, Listening(u, m)
      PROVE  started'[m] = started[m] /\ nextTick'[m] = nextTick[m]
  <2>1. Listens(u, m)
    BY <1>4 DEF Listening, Listens, IInv, TypeOK
  <2>2. ~ Listens(t, m)
    BY <2>1, <1>4 DEF IInv, Apart, Waitables
  <2> QED BY <2>2
<1>5. EndFitsTimers'
  BY <1>2, <1>4 DEF IInv, EndFitsTimers, OthersKeep, Array
<1> QED BY <1>1, <1>3, <1>5

(* A step of t out of the wait proper that adds and removes no listener. *)
LEMMA StepOut ==
  ASSUME IInv, NEW t \in Threads, OthersKeep(t), UNCHANGED <<now, mutex, lists, walker>>,
         pc' \in [Threads -> {"out", "loop", "begin", "blocked", "woken", "clean"}],
         frame' \in [Threads -> Frames], trig' \in [Threads -> Nat],
         cancel' \in [Threads -> BOOLEAN],
         pc'[t] \notin {"begin", "blocked"},
         frame'[t].objects = frame[t].objects, frame'[t].added = frame[t].added,
         FrameTells(t)', EndTells(t)', trig'[t] \in {0} \cup DOMAIN frame[t].objects,
         signal' \in [Events -> BOOLEAN], \A e \in Events : signal'[e] => signal[e],
         started' \in [Timers -> BOOLEAN], nextTick' \in [Timers -> Nat],
         \A m \in Timers : \/ Listens(t, m)
                           \/ started'[m] = started[m] /\ nextTick'[m] = nextTick[m],
         hsig' \subseteq Handles
  PROVE  IInv'
<1>1. SameListeners
  BY DEF SameListeners, OthersKeep
<1>2. Typed'
  BY KeepTyped DEF IInv, TypeOK, lists
<1>3. \A u \in Threads : FrameTells(u)' /\ EndTells(u)'
  BY OthersTell
<1>4. Apart' /\ ListShape' /\ Walks'
  BY <1>1, KeepLists, KeepLive, KeepWalks DEF lists
<1>5. PickedIsTold' /\ SignalPicks' /\ EndFitsTimers'
  BY LeaveWait
<1> QED BY <1>2, <1>3, <1>4, <1>5 DEF IInv, Typed

(* The result of a wait is left in its frame. *)
SameButResult(f, g) ==
  /\ f.objects = g.objects /\ f.deadline = g.deadline /\ f.i = g.i /\ f.added = g.added
  /\ f.curTick = g.curTick /\ f.endTick = g.endTick /\ f.endIdx = g.endIdx

LeavesResult(t, rc, idx) == frame' = [frame EXCEPT ![t].rc = rc, ![t].idx = idx]

LEMMA ResultLeft ==
  ASSUME IInv, NEW t \in Threads, NEW rc \in Outcomes, NEW idx \in Nat, LeavesResult(t, rc, idx)
  PROVE  /\ frame' \in [Threads -> Frames]
         /\ \A u \in Threads \ {t} : frame'[u] = frame[u]
         /\ SameButResult(frame'[t], frame[t]) /\ frame'[t].wakeAt = frame[t].wakeAt
         /\ frame'[t].rc = rc /\ frame'[t].idx = idx
<1>1. frame \in [Threads -> Frames] /\ frame[t] \in Frames
  BY DEF IInv
<1> DEFINE g == [[frame[t] EXCEPT !.rc = rc] EXCEPT !.idx = idx]
<1>2. g \in Frames /\ SameButResult(g, frame[t]) /\ g.wakeAt = frame[t].wakeAt
      /\ g.rc = rc /\ g.idx = idx
  BY <1>1 DEF Frames, SameButResult
<1>3. frame' = [frame EXCEPT ![t] = g]
  BY <1>1 DEF LeavesResult
<1> HIDE DEF g
<1> QED BY <1>1, <1>2, <1>3

(* Leaving the wait proper with a result keeps what the frame tells. *)
LEMMA ResultTells ==
  ASSUME IInv, NEW t \in Threads, now' = now, pc'[t] \in {"woken", "clean"},
         SameButResult(frame'[t], frame[t]), Len(Array(t)) <= MaxWaitObjects
  PROVE  FrameTells(t)'
<1>1. FrameTells(t)
  BY DEF IInv
<1> QED BY <1>1 DEF FrameTells, SameButResult, Array

-----------------------------------------------------------------------------
(* One lemma per action: it keeps the inductive invariant. *)

(* A wait that is over goes on to remove its listeners. *)
LEMMA FinishKeeps ==
  ASSUME IInv, NEW t \in Threads, NEW rc \in Outcomes, NEW idx \in Nat, Finish(t, rc, idx),
         pc[t] \in {"begin", "woken"},
         UNCHANGED <<now, trig, cancel, mutex, lists, walker>>,
         signal' \in [Events -> BOOLEAN], \A e \in Events : signal'[e] => signal[e],
         started' \in [Timers -> BOOLEAN], nextTick' \in [Timers -> Nat],
         \A m \in Timers : \/ Listens(t, m)
                           \/ started'[m] = started[m] /\ nextTick'[m] = nextTick[m],
         hsig' \subseteq Handles
  PROVE  IInv'
<1>1. FrameTells(t) /\ LeavesResult(t, rc, idx)
  BY DEF IInv, Finish, LeavesResult
<1>2. /\ frame' \in [Threads -> Frames]
      /\ \A u \in Threads \ {t} : frame'[u] = frame[u]
      /\ SameButResult(frame'[t], frame[t])
  BY <1>1, ResultLeft
<1>3. pc'[t] = "clean" /\ pc' \in [Threads -> {"out", "loop", "begin", "blocked", "woken", "clean"}]
  BY DEF IInv, TypeOK, Finish, Goto
<1>4. OthersKeep(t)
  BY <1>2 DEF OthersKeep, IInv, TypeOK, Finish, Goto
<1>5. FrameTells(t)'
  BY <1>1, <1>2, <1>3, ResultTells DEF FrameTells, Array
<1>6. EndTells(t)'
  BY <1>3 DEF EndTells
<1> QED
  BY <1>2, <1>3, <1>4, <1>5, <1>6, StepOut DEF IInv, TypeOK, Array, SameButResult

(* The index a wait reports. *)
LEMMA IndexIsNat ==
  ASSUME IInv, NEW t \in Threads
  PROVE  /\ DOMAIN Array(t) \subseteq Nat \ {0} /\ Len(Array(t)) \in Nat
         /\ DOMAIN Array(t) = 1 .. Len(Array(t))
         /\ \A k \in DOMAIN Array(t) : Array(t)[k] \in Objects
<1>1. Array(t) \in WaitArrays \cup {<<>>}
  BY DEF IInv, TypeOK
<1>2. <<>> \in Seq(Objects)
  OBVIOUS
<1>3. Array(t) \in Seq(Objects)
  BY <1>1, <1>2, MultiWaitAssumption
<1> HIDE DEF Array
<1> QED BY <1>3

LEMMA AfterSignalledKeeps ==
  ASSUME IInv, NEW t \in Threads, AfterSignalled(t) PROVE IInv'
<1> USE DEF AfterSignalled
<1> DEFINE h == Array(t)[frame[t].idx]
           rc == IF h \in AutoClear /\ h \notin hsig THEN "Cancelled" ELSE "ok"
<1>1. rc \in Outcomes /\ frame[t].idx \in Nat
  BY DEF Outcomes, IInv, Frames
<1>2. Finish(t, rc, frame[t].idx) /\ hsig' \subseteq Handles
  BY DEF IInv, TypeOK
<1> HIDE DEF h, rc
<1> QED BY <1>1, <1>2, FinishKeeps DEF IInv, TypeOK, objects

LEMMA AfterTimeoutKeeps ==
  ASSUME IInv, NEW t \in Threads, AfterTimeout(t) PROVE IInv'
<1> USE DEF AfterTimeout
<1>1. CASE frame[t].endIdx = 0
  <2>1. frame[t].idx \in Nat /\ "TimedOut" \in Outcomes
    BY DEF IInv, Frames, Outcomes
  <2> QED BY <1>1, <2>1, FinishKeeps DEF IInv, TypeOK
<1>2. CASE frame[t].endIdx # 0
  <2> DEFINE m == Array(t)[frame[t].endIdx]
             old == frame[t].endTick + frame[t].curTick
  <2>1. frame[t] \in Frames /\ FrameTells(t) /\ EndTells(t)
    BY DEF IInv
  <2>2. m \in Timers /\ Listens(t, m)
    BY <1>2, <2>1 DEF FrameTells, Array, Listens
  <2>3. old \in Nat /\ old <= now
    BY <1>2, <2>1 DEF FrameTells, EndTells, Frames, Times
  <2>4. frame[t].endIdx \in Nat /\ "ok" \in Outcomes
    BY <2>1 DEF Frames, Outcomes
  <2>5. Recalculate(m, old) /\ Finish(t, "ok", frame[t].endIdx)
    BY <1>2
  <2> HIDE DEF m, old
  <2>6. /\ started' \in [Timers -> BOOLEAN] /\ nextTick' \in [Timers -> Nat]
        /\ \A n \in Timers \ {m} : started'[n] = started[n] /\ nextTick'[n] = nextTick[n]
    BY <2>2, <2>3, <2>5, RecalculateType DEF IInv, TypeOK
  <2> QED BY <2>2, <2>4, <2>5, <2>6, FinishKeeps DEF IInv, TypeOK
<1> QED BY <1>1, <1>2

LEMMA AfterCancelledKeeps ==
  ASSUME IInv, NEW t \in Threads, AfterCancelled(t) PROVE IInv'
<1> USE DEF AfterCancelled
<1>1. /\ signal' \in [Events -> BOOLEAN]
      /\ \A e \in Events : signal'[e] => signal[e]
  BY DEF IInv, TypeOK
<1>2. trig[t] \in Nat /\ "ok" \in Outcomes /\ "Cancelled" \in Outcomes
  BY DEF IInv, Outcomes
<1>3. Finish(t, "ok", trig[t]) \/ Finish(t, "Cancelled", 0)
  OBVIOUS
<1> QED BY <1>1, <1>2, <1>3, FinishKeeps DEF IInv, TypeOK

LEMMA LoopAgainKeeps ==
  ASSUME IInv, NEW t \in Threads, LoopAgain(t) PROVE IInv'
<1> USE DEF LoopAgain, Goto
<1>1. /\ pc' \in [Threads -> {"out", "loop", "begin", "blocked", "woken", "clean"}]
      /\ pc'[t] = "loop" /\ OthersKeep(t)
  BY DEF IInv, TypeOK, OthersKeep
<1>2. FrameTells(t) /\ EndTells(t)
  BY DEF IInv
<1>3. FrameTells(t)' /\ EndTells(t)'
  BY <1>1, <1>2 DEF FrameTells, EndTells
<1> QED BY <1>1, <1>3, StepOut DEF IInv, TypeOK, objects, Array

(* A wait without listeners comes or goes. *)
LEMMA NoListenerStep ==
  ASSUME IInv, NEW t \in Threads, OthersKeep(t),
         UNCHANGED <<now, cancel, objects, hsig, mutex, lists, walker>>,
         frame[t].added = {}, frame' \in [Threads -> Frames], frame'[t].added = {},
         pc' \in [Threads -> {"out", "loop", "begin", "blocked", "woken", "clean"}],
         trig' \in [Threads -> Nat], trig'[t] = 0,
         FrameTells(t)', EndTells(t)'
  PROVE  Typed' /\ (\A u \in Threads : FrameTells(u)' /\ EndTells(u)')
         /\ ListShape' /\ Walks' /\ PickedIsTold' /\ SignalPicks' /\ EndFitsTimers'
<1>1. Typed'
  BY KeepTyped DEF IInv, TypeOK, objects, lists
<1>2. \A u \in Threads : FrameTells(u)' /\ EndTells(u)'
  BY OthersTell
<1>3. \A w : Live(w)' = Live(w)
  BY DEF Live, Array, OthersKeep, Nodes
<1>4. ListShape' /\ Walks'
  BY <1>3, KeepWalks DEF IInv, ListShape, lists
<1>5. ASSUME NEW u \in Threads
      PROVE  \A w : Listening(u, w)' <=> Listening(u, w)
  BY DEF OthersKeep, Listening, Array
<1>6. ~ (\E w : Listening(t, w)')
  BY DEF Listening
<1>7. PickedIsTold'
  BY DEF IInv, PickedIsTold, OthersKeep
<1>8. SignalPicks'
  BY <1>5, <1>6 DEF IInv, SignalPicks, OthersKeep, Ahead, objects
<1>9. EndFitsTimers'
  BY <1>5, <1>6 DEF IInv, EndFitsTimers, OthersKeep, Ahead, objects, Array
<1> QED BY <1>1, <1>2, <1>4, <1>7, <1>8, <1>9

LEMMA WaitCallKeeps ==
  ASSUME IInv, OneListener, NEW t \in Threads, NEW array \in WaitArrays,
         NEW timeout \in Timeouts, WaitCall(t, array, timeout)
  PROVE  IInv'
<1> USE DEF WaitCall, Goto
<1>1. pc[t] = "out" /\ frame[t].added = {} /\ frame[t].objects = <<>> /\ trig[t] = 0
  BY DEF IInv, FrameTells, TypeOK, Array
<1> DEFINE d == IF timeout = Forever THEN Forever ELSE now + timeout
           g == [NoFrame EXCEPT !.objects = array, !.deadline = d]
<1>2. d \in Times
  BY MultiWaitAssumption DEF Times, IInv, TypeOK
<1>3. frame' = [frame EXCEPT ![t] = g]
  OBVIOUS
<1>4. g \in Frames /\ g.objects = array /\ g.added = {} /\ g.curTick = 0 /\ g.endIdx = 0
  BY <1>2 DEF NoFrame, Frames, Outcomes, Times
<1> HIDE DEF d, g
<1>5. /\ frame' \in [Threads -> Frames] /\ frame'[t] = g
      /\ pc' \in [Threads -> {"out", "loop", "begin", "blocked", "woken", "clean"}]
      /\ pc'[t] = "loop" /\ OthersKeep(t) /\ now' = now /\ now \in Nat
      /\ trig' \in [Threads -> Nat] /\ trig'[t] = trig[t]
  BY <1>3, <1>4 DEF IInv, TypeOK, OthersKeep
<1> HIDE DEF WaitCall, Goto
<1>6. FrameTells(t)' /\ EndTells(t)'
  BY <1>4, <1>5 DEF FrameTells, EndTells
<1>7. Typed' /\ (\A u \in Threads : FrameTells(u)' /\ EndTells(u)')
      /\ ListShape' /\ Walks' /\ PickedIsTold' /\ SignalPicks' /\ EndFitsTimers'
  BY <1>1, <1>4, <1>5, <1>6, NoListenerStep DEF WaitCall
<1>8. \A u \in Threads \ {t}, w \in Waitables : ~ (Listens(u, w)' /\ Listens(t, w)')
  BY <1>4, <1>5 DEF OneListener, Listens, Array, OthersKeep, WaitCall
<1>9. \A u \in Threads \ {t} : Array(u)' = Array(u)
  BY <1>5 DEF OthersKeep, Array
<1>10. Apart'
  BY <1>8, <1>9 DEF IInv, Apart, Listens
<1> QED BY <1>7, <1>10 DEF IInv, Typed

LEMMA ReturnKeeps ==
  ASSUME IInv, NEW t \in Threads, Return(t) PROVE IInv'
<1> USE DEF Return, Goto
<1>1. NoFrame \in Frames /\ NoFrame.objects = <<>> /\ NoFrame.added = {}
      /\ NoFrame.curTick = 0 /\ NoFrame.endIdx = 0
  BY DEF NoFrame, Frames, Outcomes, Times
<1>2. /\ frame' \in [Threads -> Frames] /\ frame'[t] = NoFrame
      /\ pc' \in [Threads -> {"out", "loop", "begin", "blocked", "woken", "clean"}]
      /\ pc'[t] = "out" /\ OthersKeep(t) /\ trig' \in [Threads -> Nat] /\ trig'[t] = 0
  BY <1>1 DEF IInv, TypeOK, OthersKeep
<1>3. FrameTells(t)' /\ EndTells(t)'
  BY <1>1, <1>2 DEF FrameTells, EndTells, IInv, TypeOK
<1>4. Typed' /\ (\A u \in Threads : FrameTells(u)' /\ EndTells(u)')
      /\ ListShape' /\ Walks' /\ PickedIsTold' /\ SignalPicks' /\ EndFitsTimers'
  BY <1>1, <1>2, <1>3, NoListenerStep
<1>5. \A u \in Threads \ {t} : Array(u)' = Array(u)
  BY <1>2 DEF OthersKeep, Array
<1>6. \A w : ~ Listens(t, w)'
  BY <1>1, <1>2 DEF Listens, Array
<1>7. Apart'
  BY <1>5, <1>6 DEF IInv, Apart, Listens
<1> QED BY <1>4, <1>7 DEF IInv, Typed

LEMMA LoopTurnKeeps ==
  ASSUME IInv, NEW t \in Threads, LoopTurn(t) PROVE IInv'
<1>1. FrameTells(t) /\ frame[t] \in Frames /\ pc[t] = "loop" /\ frame[t].added = {}
  BY DEF IInv, FrameTells, LoopTurn
<1>2. CASE Len(frame[t].objects) > MaxWaitObjects
  <2> USE DEF LoopTurn, Finish, Goto
  <2>1. /\ "OutOfRange" \in Outcomes /\ 0 \in Nat
        /\ LeavesResult(t, "OutOfRange", 0)
    BY <1>2 DEF Outcomes, LeavesResult
  <2>2. /\ frame' \in [Threads -> Frames]
        /\ \A u \in Threads \ {t} : frame'[u] = frame[u]
        /\ SameButResult(frame'[t], frame[t])
    BY <2>1, ResultLeft
  <2>3. /\ pc' \in [Threads -> {"out", "loop", "begin", "blocked", "woken", "clean"}]
        /\ pc'[t] = "clean" /\ UNCHANGED trig
    BY <1>2 DEF IInv, TypeOK
  <2>4. OthersKeep(t)
    BY <2>2, <2>3 DEF OthersKeep, IInv, TypeOK
  <2>5. FrameTells(t)' /\ EndTells(t)'
    BY <1>1, <2>2, <2>3 DEF FrameTells, EndTells, SameButResult
  <2> QED
    BY <2>2, <2>3, <2>4, <2>5, StepOut DEF IInv, TypeOK, objects, Array, SameButResult
<1>3. CASE ~ (Len(frame[t].objects) > MaxWaitObjects)
  <2> DEFINE f == frame[t]
             remaining == IF f.deadline = Forever THEN Forever
                          ELSE IF f.deadline > now THEN f.deadline - now ELSE 0
             g == [NoFrame EXCEPT !.objects = f.objects, !.deadline = f.deadline, !.i = 1,
                                  !.curTick = now, !.endTick = remaining]
  <2>1. remaining \in Times
    BY <1>1 DEF Times, Frames, IInv, TypeOK
  <2>2. frame' = [frame EXCEPT ![t] = g]
    BY <1>3 DEF LoopTurn
  <2> HIDE DEF remaining
  <2>3. pc' = [pc EXCEPT ![t] = "begin"] /\ trig' = [trig EXCEPT ![t] = 0] /\ cancel' = cancel
    BY <1>3 DEF LoopTurn, Goto
  <2>4. now \in Nat
    BY DEF IInv, TypeOK
  <2>5. g \in Frames
    BY <1>1, <2>1, <2>4 DEF Frames, NoFrame, Outcomes, Times
  <2>6. g.objects = f.objects /\ g.added = {} /\ g.i = 1 /\ g.curTick = now /\ g.endIdx = 0
    BY DEF NoFrame
  <2> HIDE DEF g
  <2>7. /\ frame' \in [Threads -> Frames] /\ frame'[t] = g
        /\ pc' \in [Threads -> {"out", "loop", "begin", "blocked", "woken", "clean"}]
        /\ pc'[t] = "begin" /\ OthersKeep(t) /\ trig' \in [Threads -> Nat] /\ trig'[t] = 0
    BY <2>2, <2>5, <2>3 DEF IInv, TypeOK, OthersKeep
  <2>8. Len(f.objects) \in Nat
    BY IndexIsNat DEF Array
  <2>9. FrameTells(t)' /\ EndTells(t)'
    BY <1>3, <2>4, <2>6, <2>7, <2>8, MultiWaitAssumption DEF FrameTells, EndTells, LoopTurn
  <2>10. Typed' /\ (\A u \in Threads : FrameTells(u)' /\ EndTells(u)')
        /\ ListShape' /\ Walks' /\ PickedIsTold' /\ SignalPicks' /\ EndFitsTimers'
    BY <1>1, <2>6, <2>7, <2>9, NoListenerStep DEF LoopTurn
  <2>11. \A u \in Threads : Array(u)' = Array(u)
    BY <2>6, <2>7 DEF OthersKeep, Array
  <2>12. Apart'
    BY <2>11 DEF IInv, Apart, Listens
  <2> QED BY <2>10, <2>12 DEF IInv, Typed
<1> QED BY <1>2, <1>3

(* A step of t that goes on waiting for the same things. *)
LEMMA StillWaits ==
  ASSUME IInv, NEW t \in Threads, OthersKeep(t),
         UNCHANGED <<now, trig, cancel, objects, hsig, mutex, lists, walker>>,
         pc[t] = "begin",
         pc' \in [Threads -> {"out", "loop", "begin", "blocked", "woken", "clean"}],
         frame' \in [Threads -> Frames],
         frame'[t].objects = frame[t].objects, frame'[t].added = frame[t].added,
         frame'[t].curTick = frame[t].curTick, frame'[t].endTick = frame[t].endTick,
         frame'[t].endIdx = frame[t].endIdx,
         FrameTells(t)', EndTells(t)'
  PROVE  IInv'
<1>1. SameListeners
  BY DEF SameListeners, OthersKeep
<1>2. Typed'
  BY KeepTyped DEF IInv, TypeOK, objects, lists, Array
<1>3. \A u \in Threads : FrameTells(u)' /\ EndTells(u)'
  BY OthersTell
<1>4. Apart' /\ ListShape' /\ Walks'
  BY <1>1, KeepLists, KeepLive, KeepWalks DEF lists
<1>5. \A u \in Threads : \A w : Listening(u, w)' <=> Listening(u, w)
  BY <1>1, KeepLive
<1>6. \A u \in Threads : pc'[u] \in {"begin", "blocked"} => pc[u] \in {"begin", "blocked"}
  BY DEF OthersKeep
<1>7. \A u \in Threads :
        /\ frame'[u].curTick = frame[u].curTick /\ frame'[u].endTick = frame[u].endTick
        /\ frame'[u].endIdx = frame[u].endIdx /\ Array(u)' = Array(u)
  BY DEF OthersKeep, Array
<1>8. PickedIsTold'
  BY <1>6 DEF IInv, PickedIsTold
<1>9. SignalPicks'
  BY <1>5, <1>6 DEF IInv, SignalPicks, Ahead, objects
<1>10. EndFitsTimers'
  BY <1>5, <1>6, <1>7 DEF IInv, EndFitsTimers, Ahead, objects
<1> QED BY <1>2, <1>3, <1>4, <1>8, <1>9, <1>10 DEF IInv, Typed

LEMMA BeginHandleKeeps ==
  ASSUME IInv, NEW t \in Threads, BeginHandle(t) PROVE IInv'
<1> DEFINE g == [frame[t] EXCEPT !.i = frame[t].i + 1]
<1>1. FrameTells(t) /\ EndTells(t) /\ frame[t] \in Frames /\ pc[t] = "begin"
  BY DEF IInv, BeginHandle
<1>2. frame' = [frame EXCEPT ![t] = g]
  BY DEF BeginHandle
<1>3. /\ g \in Frames
      /\ g.objects = frame[t].objects /\ g.added = frame[t].added
      /\ g.curTick = frame[t].curTick /\ g.endTick = frame[t].endTick
      /\ g.endIdx = frame[t].endIdx /\ g.i = frame[t].i + 1
  BY <1>1 DEF Frames
<1> HIDE DEF g
<1>4. frame' \in [Threads -> Frames] /\ frame'[t] = g /\ OthersKeep(t)
  BY <1>2, <1>3 DEF IInv, OthersKeep, BeginHandle
<1>5. frame[t].i \in 1 .. Len(Array(t)) /\ Len(Array(t)) \in Nat
  BY IndexIsNat DEF BeginHandle
<1>6. \A k \in frame[t].added : k \in Nat
  BY <1>1 DEF Frames
<1>7. FrameTells(t)' /\ EndTells(t)'
  BY <1>1, <1>3, <1>4, <1>5, <1>6 DEF FrameTells, EndTells, BeginHandle, Array
<1> QED BY <1>1, <1>3, <1>4, <1>7, StillWaits DEF BeginHandle, IInv, TypeOK

LEMMA ReadyIndex ==
  ASSUME IInv, NEW t \in Threads, NEW S, S \subseteq DOMAIN Array(t), S # {}
  PROVE  Lowest(S) \in S /\ Lowest(S) \in Nat
BY LowestIn, IndexIsNat

(* The system call ends a wait. *)
LEMMA WakeKeeps ==
  ASSUME IInv, NEW t \in Threads, NEW rc \in {"ok", "TimedOut", "Cancelled"}, NEW idx \in Nat,
         Wake(t, rc, idx), pc[t] \in {"begin", "blocked"},
         rc = "ok" => idx \in DOMAIN Array(t) /\ Array(t)[idx] \in Handles,
         rc = "TimedOut" /\ frame[t].endIdx # 0 => frame[t].curTick + frame[t].endTick <= now,
         UNCHANGED <<now, trig, objects, hsig, mutex, lists, walker>>,
         cancel' \in [Threads -> BOOLEAN], \A u \in Threads \ {t} : cancel'[u] = cancel[u]
  PROVE  IInv'
<1>1. /\ FrameTells(t) /\ rc \in Outcomes
      /\ LeavesResult(t, rc, idx)
  BY DEF IInv, Outcomes, Wake, LeavesResult
<1>2. /\ frame' \in [Threads -> Frames]
      /\ \A u \in Threads \ {t} : frame'[u] = frame[u]
      /\ SameButResult(frame'[t], frame[t])
      /\ frame'[t].rc = rc /\ frame'[t].idx = idx
  BY <1>1, ResultLeft
<1>3. pc'[t] = "woken" /\ pc' \in [Threads -> {"out", "loop", "begin", "blocked", "woken", "clean"}]
  BY DEF IInv, TypeOK, Wake, Goto
<1>4. OthersKeep(t)
  BY <1>2 DEF OthersKeep, IInv, TypeOK, Wake, Goto
<1>5. FrameTells(t)'
  BY <1>1, <1>2, <1>3, ResultTells DEF FrameTells, Array
<1>6. EndTells(t)'
  BY <1>2, <1>3 DEF EndTells, SameButResult, Array
<1> QED
  BY <1>2, <1>3, <1>4, <1>5, <1>6, StepOut DEF IInv, TypeOK, Array, SameButResult, objects

LEMMA KernelTimeoutKeeps ==
  ASSUME IInv, NEW t \in Threads, KernelTimeout(t) PROVE IInv'
<1>1. FrameTells(t) /\ EndTells(t) /\ frame[t] \in Frames /\ now \in Nat
  BY DEF IInv, TypeOK
<1>2. frame[t].endIdx # 0 => frame[t].curTick + frame[t].endTick <= now
  BY <1>1 DEF EndTells, FrameTells, Frames, Times, KernelTimeout
<1> QED BY <1>2, WakeKeeps DEF KernelTimeout, IInv, TypeOK

LEMMA WaitSynchronizationKeeps ==
  ASSUME IInv, NEW t \in Threads, WaitSynchronization(t) PROVE IInv'
<1>1. /\ FrameTells(t) /\ EndTells(t) /\ frame[t] \in Frames /\ pc[t] = "begin"
      /\ UNCHANGED <<now, trig, objects, hsig, mutex, lists, walker>>
  BY DEF IInv, WaitSynchronization
<1>2. CASE Ready(t) # {} /\ Wake(t, "ok", Lowest(Ready(t))) /\ UNCHANGED cancel
  <2>1. Lowest(Ready(t)) \in Ready(t) /\ Lowest(Ready(t)) \in Nat
    BY <1>2, ReadyIndex DEF Ready
  <2>2. Array(t)[Lowest(Ready(t))] \in Handles /\ Lowest(Ready(t)) \in DOMAIN Array(t)
    BY <2>1 DEF Ready, IInv, TypeOK
  <2> QED BY <1>1, <1>2, <2>1, <2>2, WakeKeeps DEF IInv, TypeOK
<1>3. CASE frame[t].endTick = 0 /\ Wake(t, "TimedOut", 0) /\ UNCHANGED cancel
  <2>1. frame[t].curTick + frame[t].endTick <= now
    BY <1>1, <1>3 DEF FrameTells, Frames, IInv, TypeOK
  <2>2. Wake(t, "TimedOut", 0) /\ UNCHANGED cancel /\ cancel \in [Threads -> BOOLEAN]
    BY <1>3 DEF IInv, TypeOK
  <2> QED BY <1>1, <2>1, <2>2, WakeKeeps
<1>4. CASE Wake(t, "Cancelled", 0) /\ cancel' = [cancel EXCEPT ![t] = FALSE]
  BY <1>1, <1>4, WakeKeeps DEF IInv, TypeOK
<1>5. CASE /\ ~cancel[t] /\ Goto(t, "blocked") /\ UNCHANGED cancel
           /\ frame' = [frame EXCEPT ![t].wakeAt = IF frame[t].endTick = Forever
                                        THEN Forever ELSE now + frame[t].endTick]
  <2> DEFINE at == IF frame[t].endTick = Forever THEN Forever ELSE now + frame[t].endTick
             g == [frame[t] EXCEPT !.wakeAt = at]
  <2>1. at \in Times /\ now \in Nat
    BY <1>1 DEF Frames, Times, IInv, TypeOK
  <2>2. frame' = [frame EXCEPT ![t] = g]
    BY <1>5
  <2>3. at # Forever => frame[t].endTick # Forever /\ frame[t].curTick + frame[t].endTick <= at
    BY <1>1, <2>1 DEF Frames, Times, FrameTells
  <2> HIDE DEF at
  <2>4. /\ g \in Frames /\ g.objects = frame[t].objects /\ g.added = frame[t].added
        /\ g.curTick = frame[t].curTick /\ g.endTick = frame[t].endTick
        /\ g.endIdx = frame[t].endIdx /\ g.wakeAt = at
    BY <1>1, <2>1 DEF Frames
  <2> HIDE DEF g
  <2>5. /\ frame' \in [Threads -> Frames] /\ frame'[t] = g /\ OthersKeep(t)
        /\ pc' \in [Threads -> {"out", "loop", "begin", "blocked", "woken", "clean"}]
        /\ pc'[t] = "blocked"
    BY <1>1, <1>5, <2>2, <2>4 DEF IInv, TypeOK, OthersKeep, Goto
  <2>6. FrameTells(t)'
    BY <1>1, <2>4, <2>5 DEF FrameTells
  <2>7. EndTells(t)'
    BY <1>5, <2>3, <2>4, <2>5 DEF EndTells
  <2> QED BY <1>1, <1>5, <2>4, <2>5, <2>6, <2>7, StillWaits
<1> QED BY <1>2, <1>3, <1>4, <1>5 DEF WaitSynchronization

-----------------------------------------------------------------------------
(* The steps of those that signal. *)

(* A step that leaves the frames and the listeners alone. *)
LEMMA FramesKept ==
  ASSUME IInv, UNCHANGED <<pc, frame>>, now' \in 0 .. MaxTime, now <= now',
         cancel' = cancel
  PROVE  /\ SameListeners
         /\ \A t \in Threads : FrameTells(t)' /\ EndTells(t)'
<1>1. SameListeners
  BY DEF SameListeners
<1>2. ASSUME NEW t \in Threads PROVE FrameTells(t)' /\ EndTells(t)'
  <2>1. FrameTells(t) /\ EndTells(t) /\ frame[t] \in Frames
    BY DEF IInv
  <2>2. now \in Nat /\ now' \in Nat
    BY MultiWaitAssumption DEF IInv, TypeOK
  <2>3. FrameTells(t)'
    BY <2>1, <2>2 DEF FrameTells, Frames
  <2>4. EndTells(t)'
    BY <2>1, <2>2 DEF EndTells, Frames, Times, FrameTells
  <2> QED BY <2>3, <2>4
<1> QED BY <1>1, <1>2

LEMMA TickKeeps ==
  ASSUME IInv, Tick PROVE IInv'
<1> USE DEF Tick, waiting, objects, lists
<1>1. now' \in 0 .. MaxTime /\ now <= now'
  BY MultiWaitAssumption DEF IInv, TypeOK
<1>2. SameListeners /\ \A t \in Threads : FrameTells(t)' /\ EndTells(t)'
  BY <1>1, FramesKept
<1>3. Apart' /\ ListShape' /\ Walks'
  BY <1>2, KeepLists, KeepLive, KeepWalks
<1>4. Typed'
  BY <1>1 DEF IInv, Typed, TypeOK, Array
<1>5. PickedIsTold /\ SignalPicks /\ EndFitsTimers
  BY DEF IInv
<1>6. PickedIsTold'
  BY <1>5 DEF PickedIsTold
<1>7. SignalPicks'
  BY <1>5 DEF SignalPicks, Listening, Ahead, Array
<1>8. EndFitsTimers'
  BY <1>5 DEF EndFitsTimers, Listening, Ahead, Array
<1> QED BY <1>2, <1>3, <1>4, <1>6, <1>7, <1>8 DEF IInv, Typed

LEMMA ClearKeeps ==
  ASSUME IInv, NEW s \in Signallers, NEW e \in Events, Clear(s, e) PROVE IInv'
<1> USE DEF Clear, waiting, lists
<1>1. signal' \in [Events -> BOOLEAN] /\ \A x \in Events : signal'[x] => signal[x]
  BY DEF IInv, TypeOK
<1>2. SameListeners /\ \A t \in Threads : FrameTells(t)' /\ EndTells(t)'
  BY FramesKept DEF IInv, TypeOK
<1>3. Apart' /\ ListShape' /\ Walks'
  BY <1>2, KeepLists, KeepLive, KeepWalks
<1>4. Typed'
  BY <1>1 DEF IInv, Typed, TypeOK, Array
<1>5. PickedIsTold' /\ SignalPicks' /\ EndFitsTimers'
  BY <1>1 DEF IInv, PickedIsTold, SignalPicks, EndFitsTimers, Listening, Ahead, Array
<1> QED BY <1>2, <1>3, <1>4, <1>5 DEF IInv, Typed

(* A walk begins: the mutex is taken and the whole list lies ahead. *)
LEMMA WalkBegins ==
  ASSUME IInv, NEW s \in Signallers, NEW w \in Waitables, StartWalk(s, w),
         UNCHANGED <<now, waiting, hsig, lists>>,
         signal' \in [Events -> BOOLEAN], \A e \in Events \ {w} : signal'[e] = signal[e],
         started' \in [Timers -> BOOLEAN], nextTick' \in [Timers -> Nat],
         \A m \in Timers \ {w} : started'[m] = started[m] /\ nextTick'[m] = nextTick[m]
  PROVE  IInv'
<1> USE DEF waiting, lists
<1> DEFINE a == [at |-> "walk", list |-> w, node |-> w]
<1>1. /\ walker' = [walker EXCEPT ![s] = a] /\ mutex' = [mutex EXCEPT ![w] = s]
      /\ walker[s] = Idle /\ mutex[w] = Nobody
  BY DEF StartWalk
<1>2. a.at = "walk" /\ a.list = w /\ a.node = w /\ a # Idle
      /\ a \in [at : {"out", "walk", "cancel"}, list : Waitables \cup {Nobody},
                node : Links \cup {Nobody}]
  BY DEF Idle, Links
<1>3. a = [at |-> a.at, list |-> a.list, node |-> a.node]
  OBVIOUS
<1> HIDE DEF a
<1>4. /\ walker' \in [Signallers -> [at : {"out", "walk", "cancel"}, list : Waitables \cup {Nobody},
                                    node : Links \cup {Nobody}]]
      /\ walker'[s] = a /\ \A r \in Signallers \ {s} : walker'[r] = walker[r]
      /\ mutex' \in [Waitables -> Signallers \cup {Nobody}]
      /\ mutex'[w] = s /\ \A v \in Waitables \ {w} : mutex'[v] = mutex[v]
  BY <1>1, <1>2 DEF IInv, TypeOK
<1>5. SameListeners /\ \A t \in Threads : FrameTells(t)' /\ EndTells(t)'
  BY FramesKept DEF IInv, TypeOK
<1>6. Apart' /\ ListShape'
  BY <1>5, KeepLists
<1>7. Typed'
  BY <1>4 DEF IInv, Typed, TypeOK, Array
<1>8. \A v : Live(v)' = Live(v)
  BY <1>5, KeepLive
<1>9. ASSUME NEW r \in Signallers PROVE WalkTells(r)'
  <2>1. CASE r = s
    BY <1>2, <1>3, <1>4, <2>1 DEF WalkTells
  <2>2. CASE r # s /\ walker[r] = Idle
    BY <1>4, <2>2 DEF WalkTells, Idle
  <2>3. CASE r # s /\ walker[r] # Idle
    <3>1. WalkTells(r)
      BY DEF IInv, Walks
    <3>2. walker[r].list # w
      BY <1>1, <2>3, <3>1, MultiWaitAssumption DEF WalkTells
    <3> QED BY <1>4, <1>8, <2>3, <3>1, <3>2 DEF WalkTells
  <2> QED BY <2>1, <2>2, <2>3
<1>10. HeldByWalk'
  <2>1. ASSUME NEW v \in Waitables, mutex'[v] # Nobody
        PROVE  walker'[mutex'[v]] # Idle /\ walker'[mutex'[v]].list = v
    <3>1. CASE v = w
      BY <1>2, <1>4, <3>1
    <3>2. CASE v # w
      <4>1. mutex'[v] = mutex[v] /\ mutex[v] \in Signallers
        BY <1>4, <2>1, <3>2 DEF IInv, TypeOK
      <4>2. walker[mutex[v]] # Idle /\ walker[mutex[v]].list = v
        BY <2>1, <4>1 DEF IInv, Walks, HeldByWalk
      <4> QED BY <1>1, <1>4, <4>1, <4>2
    <3> QED BY <3>1, <3>2
  <2> QED BY <2>1 DEF HeldByWalk, Idle
<1>11. PickedIsTold'
  <2>1. \A r \in Signallers : walker[r].at = "cancel" => walker'[r] = walker[r]
    BY <1>1, <1>4 DEF Idle
  <2> QED BY <2>1 DEF IInv, PickedIsTold
<1>12. Ahead(w)' /\ \A v : Ahead(v) => Ahead(v)'
  BY <1>1, <1>4 DEF Ahead, a, Idle
<1>13. SignalPicks'
  BY <1>12 DEF IInv, SignalPicks, Listening, Array
<1>14. EndFitsTimers'
  BY <1>12 DEF IInv, EndFitsTimers, Listening, Array
<1> QED
  BY <1>5, <1>6, <1>7, <1>9, <1>10, <1>11, <1>13, <1>14 DEF IInv, Typed, Walks

LEMMA SignalKeeps ==
  ASSUME IInv, NEW s \in Signallers, NEW e \in Events, Signal(s, e) PROVE IInv'
BY WalkBegins, MultiWaitAssumption DEF Signal, IInv, TypeOK, Waitables

LEMMA StartKeeps ==
  ASSUME IInv, NEW s \in Signallers, NEW m \in Timers, Start(s, m) PROVE IInv'
<1>1. now + Interval[m] \in Nat
  BY MultiWaitAssumption DEF IInv, TypeOK
<1>2. started' \in [Timers -> BOOLEAN] /\ nextTick' \in [Timers -> Nat]
      /\ \A n \in Timers \ {m} : started'[n] = started[n] /\ nextTick'[n] = nextTick[n]
  BY <1>1 DEF Start, IInv, TypeOK
<1> QED BY <1>2, WalkBegins, MultiWaitAssumption DEF Start, IInv, TypeOK, Waitables

LEMMA StopKeeps ==
  ASSUME IInv, NEW s \in Signallers, NEW m \in Timers, Stop(s, m) PROVE IInv'
BY WalkBegins, MultiWaitAssumption DEF Stop, IInv, TypeOK, Waitables

(* A walk that has a next node is at the head of its list, and that node   *)
(* is the listener.                                                        *)
LEMMA AtHead ==
  ASSUME IInv, NEW s \in Signallers, walker[s].at = "walk"
  PROVE  LET w == walker[s].list
             n == next[walker[s].node]
         IN  /\ w \in Waitables /\ mutex[w] = s
             /\ n = w => Live(w) = {} \/ walker[s].node # w
             /\ n # w => n \in Live(w) /\ walker[s].node = w /\ Live(w) = {n}
<1>1. walker[s] # Idle
  BY DEF Idle
<1>2. WalkTells(s)
  BY DEF IInv, Walks
<1>3. ListShape
  BY DEF IInv
<1>4. walker[s].list \notin Live(walker[s].list)
  BY <1>1, <1>2, MultiWaitAssumption DEF WalkTells, Live
<1> QED BY <1>1, <1>2, <1>3, <1>4 DEF WalkTells, ListShape

(* The thread a live node belongs to. *)
LEMMA NodeOfListener ==
  ASSUME IInv, NEW w \in Waitables, NEW n \in Live(w)
  PROVE  /\ n \in Nodes /\ n[1] \in Threads /\ n[2] \in Nat \ {0}
         /\ n[2] \in frame[n[1]].added /\ Array(n[1])[n[2]] = w
         /\ n[2] \in DOMAIN Array(n[1]) /\ Listens(n[1], w) /\ Listening(n[1], w)
BY DEF Live, Nodes, Listens, Listening, IInv, TypeOK

LEMMA ListenerIsLive ==
  ASSUME IInv, NEW w \in Waitables, NEW t \in Threads, Listening(t, w)
  PROVE  \E k : <<t, k>> \in Live(w)
<1>1. PICK k \in frame[t].added : Array(t)[k] = w
  BY DEF Listening
<1>2. FrameTells(t) /\ frame[t] \in Frames
  BY DEF IInv
<1>3. k \in 1 .. Len(Array(t)) /\ Len(Array(t)) <= MaxWaitObjects /\ Len(Array(t)) \in Nat
  BY <1>1, <1>2, IndexIsNat DEF FrameTells, Array
<1>4. k \in 1 .. MaxWaitObjects
  BY <1>3, MultiWaitAssumption
<1> QED BY <1>1, <1>4 DEF Live, Nodes

LEMMA WalkNodeKeeps ==
  ASSUME IInv, ~WeakFails, NEW s \in Signallers, WalkNode(s) PROVE IInv'
<1> DEFINE w == walker[s].list
           n == next[walker[s].node]
           at == IF trig[n[1]] = 0 THEN "cancel" ELSE "walk"
           a == [at |-> at, list |-> w, node |-> n]
<1>1. /\ walker[s].at = "walk" /\ n # w
      /\ UNCHANGED <<now, pc, frame, cancel, objects, hsig, mutex, lists>>
  BY DEF WalkNode
<1>2. /\ w \in Waitables /\ mutex[w] = s /\ n \in Live(w)
      /\ walker[s].node = w /\ Live(w) = {n} /\ walker[s] # Idle
  BY <1>1, AtHead DEF Idle
<1>3. /\ n \in Nodes /\ n[1] \in Threads /\ n[2] \in Nat \ {0}
      /\ n[2] \in DOMAIN Array(n[1]) /\ Listens(n[1], w)
  BY <1>2, NodeOfListener
<1>4. walker[s] = [at |-> "walk", list |-> w, node |-> w]
  BY <1>1, <1>2 DEF IInv, Walks, WalkTells
<1>5. \/ /\ trig[n[1]] = 0 /\ trig' = [trig EXCEPT ![n[1]] = n[2]]
         /\ walker' = [walker EXCEPT ![s] = [[walker[s] EXCEPT !.at = "cancel"] EXCEPT !.node = n]]
      \/ trig[n[1]] # 0 /\ trig' = trig /\ walker' = [walker EXCEPT ![s] = [walker[s] EXCEPT !.node = n]]
  BY DEF WalkNode
<1> HIDE DEF w, n
<1>6. walker' = [walker EXCEPT ![s] = a]
  <2>1. [[walker[s] EXCEPT !.at = "cancel"] EXCEPT !.node = n]
          = [at |-> "cancel", list |-> w, node |-> n]
    <3>1. [walker[s] EXCEPT !.at = "cancel"] = [at |-> "cancel", list |-> w, node |-> w]
      BY <1>4
    <3>2. [[at |-> "cancel", list |-> w, node |-> w] EXCEPT !.node = n]
            = [at |-> "cancel", list |-> w, node |-> n]
      OBVIOUS
    <3> QED BY <3>1, <3>2
  <2>2. [walker[s] EXCEPT !.node = n] = [at |-> "walk", list |-> w, node |-> n]
    BY <1>4
  <2>3. CASE trig[n[1]] = 0
    BY <1>5, <2>1, <2>3
  <2>4. CASE trig[n[1]] # 0
    BY <1>5, <2>2, <2>4
  <2> QED BY <2>3, <2>4
<1>7. /\ a.at = at /\ a.list = w /\ a.node = n /\ a # Idle /\ at \in {"walk", "cancel"}
      /\ a = [at |-> a.at, list |-> a.list, node |-> a.node]
      /\ a \in [at : {"out", "walk", "cancel"}, list : Waitables \cup {Nobody},
                node : Links \cup {Nobody}]
  BY <1>2, <1>3 DEF Idle, Links
<1> HIDE DEF a
<1>8. /\ walker' \in [Signallers -> [at : {"out", "walk", "cancel"}, list : Waitables \cup {Nobody},
                                    node : Links \cup {Nobody}]]
      /\ walker'[s] = a /\ \A r \in Signallers \ {s} : walker'[r] = walker[r]
  BY <1>6, <1>7 DEF IInv
<1>9. /\ trig' \in [Threads -> Nat] /\ trig'[n[1]] # 0
      /\ \A t \in Threads : trig[t] # 0 => trig'[t] = trig[t]
      /\ \A t \in Threads \ {n[1]} : trig'[t] = trig[t]
      /\ trig'[n[1]] \in {trig[n[1]], n[2]}
  BY <1>3, <1>5 DEF IInv
<1>10. SameListeners /\ \A t \in Threads : FrameTells(t)' /\ EndTells(t)'
  BY <1>1, FramesKept DEF IInv, TypeOK
<1>11. Apart' /\ ListShape' /\ \A v : Live(v)' = Live(v)
  BY <1>1, <1>10, KeepLists, KeepLive DEF lists
<1>12. \A t \in Threads : trig'[t] \in {0} \cup DOMAIN Array(t)
  BY <1>3, <1>9 DEF IInv, TypeOK
<1>13. Typed'
  BY <1>1, <1>8, <1>9, <1>12 DEF IInv, Typed, TypeOK, Array, objects, lists
<1>14. Walks'
  <2>1. \A r \in Signallers : WalkTells(r)'
    BY <1>1, <1>2, <1>7, <1>8, <1>11 DEF IInv, Walks, WalkTells, Idle
  <2>2. ASSUME NEW v \in Waitables, mutex'[v] # Nobody
        PROVE  walker'[mutex'[v]] # Idle /\ walker'[mutex'[v]].list = v
    <3>1. mutex'[v] = mutex[v] /\ mutex[v] \in Signallers
      BY <1>1, <2>2 DEF IInv, TypeOK
    <3>2. walker[mutex[v]] # Idle /\ walker[mutex[v]].list = v
      BY <2>2, <3>1 DEF IInv, Walks, HeldByWalk
    <3> QED BY <1>7, <1>8, <3>1, <3>2 DEF w
  <2> QED BY <2>1, <2>2 DEF Walks, HeldByWalk, Idle
<1>15. PickedIsTold'
  <2>1. CASE trig[n[1]] = 0
    <3>1. walker'[s].at = "cancel" /\ walker'[s].node[1] = n[1]
      BY <1>7, <1>8, <2>1
    <3>2. \A r \in Signallers : walker[r].at = "cancel" => walker'[r] = walker[r]
      BY <1>1, <1>8
    <3>3. ASSUME NEW t \in Threads, pc'[t] \in {"begin", "blocked"}, trig'[t] # 0
          PROVE  cancel'[t] \/ \E r \in Signallers : walker'[r].at = "cancel" /\ walker'[r].node[1] = t
      <4>1. CASE t = n[1]
        BY <3>1, <4>1
      <4>2. CASE t # n[1]
        BY <1>1, <1>9, <3>2, <3>3, <4>2 DEF IInv, PickedIsTold
      <4> QED BY <4>1, <4>2
    <3> QED BY <3>3 DEF PickedIsTold
  <2>2. CASE trig[n[1]] # 0
    <3>1. \A r \in Signallers : walker[r].at = "cancel" => walker'[r] = walker[r]
      BY <1>1, <1>8
    <3>2. \A t \in Threads : trig'[t] # 0 => trig[t] # 0
      BY <1>9, <2>2
    <3> QED BY <1>1, <3>1, <3>2 DEF IInv, PickedIsTold
  <2> QED BY <2>1, <2>2
<1>16. ASSUME NEW t \in Threads, NEW v \in Waitables, Listening(t, v), Ahead(v)
       PROVE  trig'[t] # 0 \/ Ahead(v)'
  <2>1. PICK r \in Signallers : walker[r] = [at |-> "walk", list |-> v, node |-> v]
    BY <1>16 DEF Ahead
  <2>2. CASE r # s
    BY <1>8, <2>1, <2>2 DEF Ahead
  <2>3. CASE r = s
    <3>1. v = w
      BY <2>1, <2>3 DEF w
    <3>2. t = n[1]
      BY <1>2, <1>3, <1>16, <3>1 DEF Listening, Listens, IInv, Apart, TypeOK
    <3> QED BY <1>9, <3>2
  <2> QED BY <2>2, <2>3
<1>17. SignalPicks'
  <2>1. ASSUME NEW t \in Threads, NEW e \in Events, pc'[t] \in {"begin", "blocked"},
               Listening(t, e)', signal'[e]
        PROVE  trig'[t] # 0 \/ Ahead(e)'
    <3>1. Listening(t, e) /\ pc[t] \in {"begin", "blocked"} /\ signal[e] /\ e \in Waitables
      BY <1>1, <2>1 DEF Listening, Array, objects, Waitables
    <3>2. trig[t] # 0 \/ Ahead(e)
      BY <3>1 DEF IInv, SignalPicks
    <3> QED BY <1>9, <1>16, <3>1, <3>2
  <2> QED BY <2>1 DEF SignalPicks
<1>18. EndFitsTimers'
  <2>1. ASSUME NEW t \in Threads, NEW m \in Timers, pc'[t] \in {"begin", "blocked"},
               Listening(t, m)', trig'[t] = 0, ~ Ahead(m)'
        PROVE  /\ started'[m] => ~Earlier(nextTick'[m] - frame'[t].curTick, frame'[t].endTick)
               /\ frame'[t].endIdx # 0 /\ Array(t)'[frame'[t].endIdx] = m =>
                    started'[m] /\ nextTick'[m] = frame'[t].curTick + frame'[t].endTick
    <3>1. Listening(t, m) /\ pc[t] \in {"begin", "blocked"} /\ m \in Waitables
      BY <1>1, <2>1 DEF Listening, Array, Waitables
    <3>2. trig[t] = 0 /\ ~ Ahead(m)
      BY <1>9, <1>16, <2>1, <3>1
    <3> QED BY <1>1, <3>1, <3>2 DEF IInv, EndFitsTimers, Array, objects
  <2> QED BY <2>1 DEF EndFitsTimers
<1> QED
  BY <1>10, <1>11, <1>13, <1>14, <1>15, <1>17, <1>18 DEF IInv, Typed

LEMMA WalkEndKeeps ==
  ASSUME IInv, NEW s \in Signallers, WalkEnd(s) PROVE IInv'
<1> DEFINE w == walker[s].list
<1>1. /\ walker[s].at = "walk" /\ next[walker[s].node] = w
      /\ mutex' = [mutex EXCEPT ![w] = Nobody] /\ walker' = [walker EXCEPT ![s] = Idle]
      /\ UNCHANGED <<now, waiting, objects, hsig, lists>>
  BY DEF WalkEnd
<1>2. /\ w \in Waitables /\ mutex[w] = s /\ walker[s] # Idle
      /\ Live(w) = {} \/ walker[s].node # w
  BY <1>1, AtHead DEF Idle
<1> HIDE DEF w
<1>3. Idle \in [at : {"out", "walk", "cancel"}, list : Waitables \cup {Nobody},
                node : Links \cup {Nobody}]
  BY DEF Idle
<1>4. /\ walker' \in [Signallers -> [at : {"out", "walk", "cancel"}, list : Waitables \cup {Nobody},
                                    node : Links \cup {Nobody}]]
      /\ walker'[s] = Idle /\ \A r \in Signallers \ {s} : walker'[r] = walker[r]
      /\ mutex' \in [Waitables -> Signallers \cup {Nobody}]
      /\ mutex'[w] = Nobody /\ \A v \in Waitables \ {w} : mutex'[v] = mutex[v]
  BY <1>1, <1>2, <1>3 DEF IInv, TypeOK
<1>5. SameListeners /\ \A t \in Threads : FrameTells(t)' /\ EndTells(t)'
  BY <1>1, FramesKept DEF IInv, TypeOK, waiting
<1>6. Apart' /\ ListShape' /\ \A v : Live(v)' = Live(v)
  BY <1>1, <1>5, KeepLists, KeepLive DEF lists
<1>7. Typed'
  BY <1>1, <1>4 DEF IInv, Typed, TypeOK, Array, waiting, objects, lists
<1>8. Walks'
  <2>1. ASSUME NEW r \in Signallers PROVE WalkTells(r)'
    <3>1. WalkTells(r)
      BY DEF IInv, Walks
    <3>2. CASE r = s
      BY <1>4, <3>2 DEF WalkTells, Idle
    <3>3. CASE r # s /\ walker[r] = Idle
      BY <1>4, <3>3 DEF WalkTells, Idle
    <3>4. CASE r # s /\ walker[r] # Idle
      <4>1. walker[r].list # w
        BY <1>2, <3>1, <3>4 DEF WalkTells
      <4> QED BY <1>4, <1>6, <3>1, <3>4, <4>1 DEF WalkTells
    <3> QED BY <3>2, <3>3, <3>4
  <2>2. ASSUME NEW v \in Waitables, mutex'[v] # Nobody
        PROVE  walker'[mutex'[v]] # Idle /\ walker'[mutex'[v]].list = v
    <3>1. v # w /\ mutex'[v] = mutex[v] /\ mutex[v] \in Signallers
      BY <1>4, <2>2 DEF IInv, TypeOK
    <3>2. walker[mutex[v]] # Idle /\ walker[mutex[v]].list = v
      BY <2>2, <3>1 DEF IInv, Walks, HeldByWalk
    <3>3. mutex[v] # s
      BY <3>1, <3>2 DEF w
    <3> QED BY <1>4, <3>1, <3>2, <3>3
  <2> QED BY <2>1, <2>2 DEF Walks, HeldByWalk, Idle
<1>9. \A t \in Threads : ~ (walker[s].node = w /\ Listening(t, w))
  BY <1>2, ListenerIsLive
<1>10. \A t \in Threads, v \in Waitables : Listening(t, v) /\ Ahead(v) => Ahead(v)'
  <2>1. ASSUME NEW t \in Threads, NEW v \in Waitables, Listening(t, v), Ahead(v)
        PROVE  Ahead(v)'
    <3>1. PICK r \in Signallers : walker[r] = [at |-> "walk", list |-> v, node |-> v]
      BY <2>1 DEF Ahead
    <3>2. r # s
      BY <1>9, <2>1, <3>1 DEF w
    <3> QED BY <1>4, <3>1, <3>2 DEF Ahead
  <2> QED BY <2>1
<1>11. PickedIsTold'
  <2>1. \A r \in Signallers : walker[r].at = "cancel" => walker'[r] = walker[r]
    BY <1>1, <1>4
  <2> QED BY <1>1, <2>1 DEF IInv, PickedIsTold, waiting
<1>12. SignalPicks'
  BY <1>1, <1>10 DEF IInv, SignalPicks, Listening, Array, waiting, objects, Waitables
<1>13. EndFitsTimers'
  <2>1. \A t \in Threads, m \in Timers : Listening(t, m) /\ Ahead(m) => Ahead(m)'
    BY <1>10 DEF Waitables
  <2> QED BY <1>1, <2>1 DEF IInv, EndFitsTimers, Listening, Array, waiting, objects
<1> QED BY <1>5, <1>6, <1>7, <1>8, <1>11, <1>12, <1>13 DEF IInv, Typed

(* A thread is told: its wait ends, or the next one will. *)
LEMMA CancelSynchronizationKeeps ==
  ASSUME IInv, NEW s \in Signallers, CancelSynchronization(s) PROVE IInv'
<1> DEFINE w == walker[s].list
           a == [walker[s] EXCEPT !.at = "walk"]
<1>1. /\ walker[s].at = "cancel" /\ walker' = [walker EXCEPT ![s] = a]
      /\ UNCHANGED <<now, trig, objects, hsig, mutex, lists>>
  BY DEF CancelSynchronization
<1>2. /\ walker[s] # Idle /\ w \in Waitables /\ mutex[w] = s /\ walker[s].node \in Live(w)
      /\ walker[s] = [at |-> "cancel", list |-> w, node |-> walker[s].node]
  BY <1>1 DEF IInv, Walks, WalkTells, Idle
<1>3. PICK t \in Threads : t = walker[s].node[1] /\ walker[s].node \in Nodes
  BY <1>2, NodeOfListener
<1>4. /\ a = [at |-> "walk", list |-> w, node |-> walker[s].node]
      /\ a.at = "walk" /\ a.list = w /\ a.node = walker[s].node
      /\ a \in [at : {"out", "walk", "cancel"}, list : Waitables \cup {Nobody},
                node : Links \cup {Nobody}]
  BY <1>2, <1>3 DEF Links
<1>5. a # Idle /\ a.node # w
  BY <1>3, <1>4, <1>2, MultiWaitAssumption DEF Idle
<1> HIDE DEF a
<1>6. /\ walker' \in [Signallers -> [at : {"out", "walk", "cancel"}, list : Waitables \cup {Nobody},
                                    node : Links \cup {Nobody}]]
      /\ walker'[s] = a /\ \A r \in Signallers \ {s} : walker'[r] = walker[r]
  BY <1>1, <1>4 DEF IInv
<1>7. \/ /\ pc[t] = "blocked" /\ LeavesResult(t, "Cancelled", 0)
         /\ pc' = [pc EXCEPT ![t] = "woken"] /\ cancel' = cancel
      \/ pc[t] # "blocked" /\ pc' = pc /\ frame' = frame /\ cancel' = [cancel EXCEPT ![t] = TRUE]
  BY <1>3 DEF CancelSynchronization, Wake, Goto, LeavesResult
<1>8. /\ pc' \in [Threads -> {"out", "loop", "begin", "blocked", "woken", "clean"}]
      /\ cancel' \in [Threads -> BOOLEAN]
      /\ \A u \in Threads \ {t} : pc'[u] = pc[u] /\ cancel'[u] = cancel[u]
      /\ pc'[t] \in {"begin", "blocked"} => pc'[t] = "begin" /\ pc[t] = pc'[t] /\ cancel'[t]
      /\ pc[t] = "blocked" => pc'[t] = "woken"
  BY <1>3, <1>7 DEF IInv, TypeOK
<1>9. "Cancelled" \in Outcomes
  BY DEF Outcomes
<1>10. /\ frame' \in [Threads -> Frames]
       /\ \A u \in Threads \ {t} : frame'[u] = frame[u]
       /\ SameButResult(frame'[t], frame[t])
  BY <1>3, <1>7, <1>9, ResultLeft DEF SameButResult, IInv
<1>11. /\ OthersKeep(t)
       /\ SameListeners
       /\ \A u \in Threads :
            /\ frame'[u].curTick = frame[u].curTick /\ frame'[u].endTick = frame[u].endTick
            /\ frame'[u].endIdx = frame[u].endIdx /\ Array(u)' = Array(u)
  <2>1. OthersKeep(t)
    BY <1>1, <1>8, <1>10 DEF OthersKeep
  <2>2. ASSUME NEW u \in Threads
        PROVE  /\ frame'[u].objects = frame[u].objects /\ frame'[u].added = frame[u].added
               /\ frame'[u].curTick = frame[u].curTick /\ frame'[u].endTick = frame[u].endTick
               /\ frame'[u].endIdx = frame[u].endIdx
    <3>1. CASE u = t
      BY <1>10, <3>1 DEF SameButResult
    <3>2. CASE u # t
      BY <1>10, <3>2
    <3> QED BY <3>1, <3>2
  <2> QED BY <2>1, <2>2 DEF SameListeners, Array
<1>12. FrameTells(t)' /\ EndTells(t)'
  <2>1. FrameTells(t) /\ EndTells(t)
    BY <1>3 DEF IInv
  <2>2. CASE pc[t] # "blocked" /\ pc' = pc /\ frame' = frame
    <3>1. FrameTells(t)'
      BY <1>1, <2>1, <2>2 DEF FrameTells
    <3>2. EndTells(t)'
      BY <1>1, <2>1, <2>2 DEF EndTells
    <3> QED BY <3>1, <3>2
  <2>3. CASE pc[t] = "blocked" /\ LeavesResult(t, "Cancelled", 0)
    <3>1. FrameTells(t)'
      <4>1. Len(Array(t)) <= MaxWaitObjects
        BY <2>1, <2>3 DEF FrameTells, Array
      <4>2. now' = now /\ pc'[t] \in {"woken", "clean"} /\ SameButResult(frame'[t], frame[t])
        BY <1>1, <1>8, <1>10, <2>3
      <4> QED BY <4>1, <4>2, ResultTells
    <3>2. frame'[t].rc = "Cancelled"
      BY <1>3, <1>9, <2>3, ResultLeft
    <3> QED BY <1>8, <2>3, <3>1, <3>2 DEF EndTells
  <2> QED BY <1>7, <2>2, <2>3
<1>13. \A u \in Threads : FrameTells(u)' /\ EndTells(u)'
  BY <1>1, <1>3, <1>11, <1>12, OthersTell
<1>14. Apart' /\ ListShape' /\ \A v : Live(v)' = Live(v)
  BY <1>1, <1>11, KeepLists, KeepLive DEF lists
<1>15. Typed'
  <2>1. trig'[t] \in {0} \cup DOMAIN frame'[t].objects
    BY <1>1, <1>11 DEF IInv, TypeOK, Array
  <2> QED
    BY <1>1, <1>3, <1>6, <1>8, <1>10, <1>11, <1>12, <2>1, KeepTyped DEF IInv, TypeOK, objects, lists
<1>16. Walks'
  <2>1. \A r \in Signallers : WalkTells(r)'
    BY <1>1, <1>2, <1>4, <1>5, <1>6, <1>14 DEF IInv, Walks, WalkTells, Idle
  <2>2. HeldByWalk'
    BY <1>1, <1>2, <1>4, <1>5, <1>6 DEF IInv, Walks, HeldByWalk, Idle
  <2> QED BY <2>1, <2>2 DEF Walks
<1>17. ASSUME NEW u \in Threads, pc'[u] \in {"begin", "blocked"}, trig'[u] # 0
       PROVE  cancel'[u] \/ \E r \in Signallers : walker'[r].at = "cancel" /\ walker'[r].node[1] = u
  <2>1. CASE u = t
    BY <1>8, <1>17, <2>1
  <2>2. CASE u # t
    <3>1. cancel[u] \/ \E r \in Signallers : walker[r].at = "cancel" /\ walker[r].node[1] = u
      BY <1>1, <1>8, <1>17, <2>2 DEF IInv, PickedIsTold
    <3>2. walker[s].node[1] # u
      BY <1>3, <2>2
    <3> QED BY <1>6, <1>8, <2>2, <3>1, <3>2
  <2> QED BY <2>1, <2>2
<1>18. \A v : Ahead(v) => Ahead(v)'
  BY <1>1, <1>6 DEF Ahead
<1>19. \A u \in Threads : /\ \A v : Listening(u, v)' <=> Listening(u, v)
                          /\ pc'[u] \in {"begin", "blocked"} => pc[u] \in {"begin", "blocked"}
  BY <1>8, <1>11, KeepLive DEF OthersKeep
<1>20. SignalPicks'
  BY <1>1, <1>18, <1>19 DEF IInv, SignalPicks, objects
<1>21. EndFitsTimers'
  BY <1>1, <1>11, <1>18, <1>19 DEF IInv, EndFitsTimers, objects
<1> QED BY <1>13, <1>14, <1>15, <1>16, <1>17, <1>20, <1>21 DEF IInv, Typed, PickedIsTold

LEMMA SignalHandleKeeps ==
  ASSUME IInv, NEW h \in Handles, SignalHandle(h) PROVE IInv'
<1> DEFINE woken == {t \in Threads : pc[t] = "blocked" /\ Listens(t, h)}
           first(t) == Lowest({k \in DOMAIN Array(t) : Array(t)[k] = h})
           g(t) == [[frame[t] EXCEPT !.rc = "ok"] EXCEPT !.idx = first(t)]
<1>1. /\ pc' = [t \in Threads |-> IF t \in woken THEN "woken" ELSE pc[t]]
      /\ frame' = [t \in Threads |-> IF t \in woken THEN g(t) ELSE frame[t]]
      /\ hsig' = hsig \cup {h}
      /\ UNCHANGED <<now, trig, cancel, objects, mutex, lists, walker>>
  BY DEF SignalHandle
<1>2. ASSUME NEW t \in woken
      PROVE  /\ g(t) \in Frames /\ SameButResult(g(t), frame[t]) /\ g(t).rc = "ok"
             /\ g(t).idx \in DOMAIN Array(t) /\ Array(t)[g(t).idx] \in Handles
  <2> DEFINE S == {k \in DOMAIN Array(t) : Array(t)[k] = h}
  <2>1. S # {} /\ S \subseteq DOMAIN Array(t)
    BY DEF Listens
  <2>2. first(t) \in S /\ first(t) \in Nat
    BY <2>1, ReadyIndex
  <2>3. first(t) \in DOMAIN Array(t) /\ Array(t)[first(t)] = h
    BY <2>2
  <2>4. frame[t] \in Frames
    BY DEF IInv
  <2> HIDE DEF first
  <2>5. g(t) \in Frames /\ SameButResult(g(t), frame[t]) /\ g(t).rc = "ok" /\ g(t).idx = first(t)
    BY <2>2, <2>4 DEF Frames, SameButResult, Outcomes
  <2> HIDE DEF g
  <2> QED BY <2>3, <2>5
<1> HIDE DEF g, first
<1>3. ASSUME NEW t \in Threads
      PROVE  /\ frame'[t] \in Frames /\ SameButResult(frame'[t], frame[t])
             /\ pc'[t] \in {"out", "loop", "begin", "blocked", "woken", "clean"}
             /\ pc'[t] \in {"begin", "blocked"} => pc[t] \in {"begin", "blocked"}
             /\ FrameTells(t)' /\ EndTells(t)'
  <2>1. FrameTells(t) /\ EndTells(t) /\ frame[t] \in Frames
    BY DEF IInv
  <2>2. CASE t \notin woken
    <3>1. frame'[t] = frame[t] /\ pc'[t] = pc[t]
      BY <1>1, <2>2
    <3> QED
      BY <1>1, <2>1, <3>1 DEF SameButResult, FrameTells, EndTells, IInv, TypeOK
  <2>3. CASE t \in woken
    <3>1. frame'[t] = g(t) /\ pc'[t] = "woken" /\ pc[t] = "blocked"
      BY <1>1, <2>3
    <3>2. FrameTells(t)'
      BY <1>1, <1>2, <2>1, <2>3, <3>1, ResultTells DEF FrameTells, Array
    <3>3. EndTells(t)'
      BY <1>2, <2>3, <3>1 DEF EndTells, SameButResult, Array
    <3> QED BY <1>2, <2>3, <3>1, <3>2, <3>3
  <2> QED BY <2>2, <2>3
<1>4. SameListeners
  BY <1>3 DEF SameListeners, SameButResult
<1>5. Apart' /\ ListShape' /\ Walks'
  BY <1>1, <1>4, KeepLists, KeepLive, KeepWalks DEF lists
<1>6. \A t \in Threads :
        /\ frame'[t].curTick = frame[t].curTick /\ frame'[t].endTick = frame[t].endTick
        /\ frame'[t].endIdx = frame[t].endIdx /\ Array(t)' = Array(t)
        /\ frame'[t].added = frame[t].added
  BY <1>3 DEF SameButResult, Array
<1>7. Typed'
  <2>1. frame' \in [Threads -> Frames]
        /\ pc' \in [Threads -> {"out", "loop", "begin", "blocked", "woken", "clean"}]
    BY <1>1, <1>3
  <2>2. ASSUME NEW t \in Threads
        PROVE  /\ Array(t)' \in WaitArrays \cup {<<>>}
               /\ frame'[t].added \subseteq DOMAIN Array(t)'
               /\ frame'[t].endIdx \in {0} \cup DOMAIN Array(t)'
               /\ frame'[t].endTick \in Times /\ frame'[t].wakeAt \in Times
               /\ trig'[t] \in {0} \cup DOMAIN Array(t)'
    BY <1>1, <1>3, <1>6 DEF IInv, TypeOK, Frames
  <2> QED BY <1>1, <2>1, <2>2 DEF IInv, Typed, TypeOK, objects, lists
<1>8. \A t \in Threads : \A w : Listening(t, w)' <=> Listening(t, w)
  BY <1>4, KeepLive
<1>9. PickedIsTold'
  BY <1>1, <1>3 DEF IInv, PickedIsTold
<1>10. SignalPicks'
  BY <1>1, <1>3, <1>8 DEF IInv, SignalPicks, Ahead, objects
<1>11. EndFitsTimers'
  BY <1>1, <1>3, <1>6, <1>8 DEF IInv, EndFitsTimers, Ahead, objects
<1> QED BY <1>3, <1>5, <1>7, <1>9, <1>10, <1>11 DEF IInv, Typed

-----------------------------------------------------------------------------
(* The steps that change a list. *)

(* A listener leaves: the list of its waitable is empty again. *)
LEMMA ListenerLeaves ==
  ASSUME IInv, NEW t \in Threads, NEW i \in frame[t].added, NEW w \in Waitables,
         Array(t)[i] = w, NodeRemove(<<t, i>>)
  PROVE  /\ Live(w) = {<<t, i>>} /\ <<t, i>> \in Nodes
         /\ next' = [next EXCEPT ![w] = w] /\ prev' = [prev EXCEPT ![w] = w]
         /\ next' \in [Links -> Links] /\ prev' \in [Links -> Links]
<1> DEFINE n == <<t, i>>
<1>1. n \in Nodes
  <2>1. FrameTells(t)
    BY DEF IInv
  <2>2. i \in 1 .. Len(Array(t)) /\ Len(Array(t)) <= MaxWaitObjects /\ Len(Array(t)) \in Nat
    BY <2>1, IndexIsNat DEF FrameTells, Array
  <2> QED BY <2>2, MultiWaitAssumption DEF Nodes
<1>2. n[1] = t /\ n[2] = i
  OBVIOUS
<1>3. n \in Live(w)
  BY <1>1, <1>2 DEF Live
<1> HIDE DEF n
<1>4. next[w] = n /\ next[n] = w /\ prev[n] = w /\ \A m \in Live(w) : m = n
  BY <1>3 DEF IInv, ListShape
<1>5. n # w /\ n \in Links /\ w \in Links
  BY <1>1, MultiWaitAssumption DEF Links
<1>6. next \in [Links -> Links] /\ prev \in [Links -> Links]
  BY DEF IInv, TypeOK
<1>7. next' = [next EXCEPT ![w] = w]
  BY <1>4 DEF NodeRemove, n
<1>8. prev' = [prev EXCEPT ![w] = w]
  <2>1. prev' = [prev EXCEPT ![next'[n]] = prev[n]]
    BY DEF NodeRemove, n
  <2>2. next'[n] = w
    BY <1>4, <1>5, <1>6, <1>7
  <2> QED BY <1>4, <2>1, <2>2
<1> QED BY <1>1, <1>3, <1>4, <1>5, <1>6, <1>7, <1>8 DEF n

LEMMA RemoveListenerKeeps ==
  ASSUME IInv, NEW t \in Threads, RemoveListener(t) PROVE IInv'
<1>1. FrameTells(t) /\ frame[t] \in Frames
  BY DEF IInv
<1>2. PICK i : i = Lowest(frame[t].added)
  OBVIOUS
<1>3. i \in frame[t].added
  <2>1. frame[t].added \subseteq Nat /\ frame[t].added # {}
    BY <1>1 DEF Frames, RemoveListener
  <2> QED BY <1>2, <2>1, LowestIn
<1>4. PICK w \in Waitables : w = Array(t)[i]
  BY <1>1, <1>3 DEF FrameTells, Array
<1> DEFINE n == <<t, i>>
           g == [frame[t] EXCEPT !.added = frame[t].added \ {i}]
<1>5. /\ pc[t] = "clean" /\ mutex[w] = Nobody /\ NodeRemove(n)
      /\ frame' = [frame EXCEPT ![t] = g]
      /\ UNCHANGED <<now, pc, trig, cancel, objects, hsig, mutex, walker>>
  BY <1>2, <1>4 DEF RemoveListener
<1>6. /\ Live(w) = {n} /\ n \in Nodes
      /\ next' = [next EXCEPT ![w] = w] /\ prev' = [prev EXCEPT ![w] = w]
      /\ next' \in [Links -> Links] /\ prev' \in [Links -> Links]
  BY <1>3, <1>4, <1>5, ListenerLeaves
<1>7. /\ g \in Frames /\ g.objects = frame[t].objects /\ g.added = frame[t].added \ {i}
      /\ g.curTick = frame[t].curTick /\ g.endTick = frame[t].endTick
      /\ g.endIdx = frame[t].endIdx
  BY <1>1 DEF Frames
<1> HIDE DEF g
<1>8. frame' \in [Threads -> Frames] /\ frame'[t] = g /\ OthersKeep(t)
  BY <1>5, <1>7 DEF IInv, OthersKeep
<1>9. FrameTells(t)' /\ EndTells(t)'
  BY <1>1, <1>5, <1>7, <1>8 DEF FrameTells, EndTells
<1>10. \A u \in Threads : Array(u)' = Array(u)
  BY <1>7, <1>8 DEF Array, OthersKeep
<1>11. Apart'
  BY <1>10 DEF IInv, Apart, Listens
<1>12. \A v : Live(v)' = Live(v) \ {n}
  <2>1. ASSUME NEW v, NEW m \in Nodes
        PROVE  m \in Live(v)' <=> m \in Live(v) /\ m # n
    <3>1. m[1] \in Threads /\ (m = n <=> m[1] = t /\ m[2] = i)
      BY DEF Nodes
    <3>2. CASE m[1] = t
      BY <1>7, <1>8, <1>10, <3>1, <3>2 DEF Live
    <3>3. CASE m[1] # t
      BY <1>8, <1>10, <3>1, <3>3 DEF Live, OthersKeep
    <3> QED BY <3>2, <3>3
  <2> QED BY <2>1 DEF Live
<1>13. \A v \in Waitables \ {w} : Live(v)' = Live(v)
  BY <1>6, <1>12 DEF Live
<1>14. ListShape'
  <2>1. ASSUME NEW v \in Waitables
        PROVE  /\ Live(v)' = {} => next'[v] = v
               /\ \A m \in Live(v)' : next'[v] = m /\ next'[m] = v /\ prev'[m] = v
    <3>1. v \in Links /\ w \in Links /\ next \in [Links -> Links] /\ prev \in [Links -> Links]
      BY DEF Links, IInv, TypeOK
    <3>2. CASE v = w
      BY <1>6, <1>12, <3>1, <3>2
    <3>3. CASE v # w
      <4>1. Live(v)' = Live(v) /\ next'[v] = next[v]
        BY <1>6, <1>13, <3>1, <3>3
      <4>2. \A m \in Live(v) : m # w /\ m \in Links
        BY MultiWaitAssumption DEF Live, Links
      <4> QED BY <1>6, <3>1, <4>1, <4>2 DEF IInv, ListShape
    <3> QED BY <3>2, <3>3
  <2> QED BY <2>1 DEF ListShape
<1>15. Walks'
  BY <1>5, <1>13, KeepWalks
<1>16. Typed'
  BY <1>5, <1>6, <1>7, <1>8, <1>9, KeepTyped DEF IInv, TypeOK, objects, Array
<1>17. \A u \in Threads : FrameTells(u)' /\ EndTells(u)'
  BY <1>5, <1>8, <1>9, OthersTell
<1>18. PickedIsTold' /\ SignalPicks' /\ EndFitsTimers'
  BY <1>5, <1>8, LeaveWait DEF objects
<1> QED BY <1>11, <1>14, <1>15, <1>16, <1>17, <1>18 DEF IInv, Typed

(* The end of the wait of t is the one timer m gives. *)
EndFits(t, m) ==
  /\ started[m] => ~Earlier(nextTick[m] - frame[t].curTick, frame[t].endTick)
  /\ frame[t].endIdx # 0 /\ Array(t)[frame[t].endIdx] = m =>
       started[m] /\ nextTick[m] = frame[t].curTick + frame[t].endTick

(* A listener joins: the list of its waitable was empty. *)
LEMMA ListenerJoins ==
  ASSUME IInv, OneListener, NEW t \in Threads, NEW i, i = frame[t].i, pc[t] = "begin",
         NEW w \in Waitables, i \in DOMAIN Array(t), Array(t)[i] = w
  PROVE  /\ Live(w) = {} /\ next[w] = w /\ i \notin frame[t].added
         /\ <<t, i>> \in Nodes /\ \A k \in frame[t].added : Array(t)[k] # w
<1>1. FrameTells(t)
  BY DEF IInv
<1>2. \A k \in frame[t].added : k \in Nat /\ k < i
  BY <1>1 DEF FrameTells, IInv, Frames
<1>3. Len(Array(t)) <= MaxWaitObjects /\ Array(t) \in WaitArrays \cup {<<>>}
  BY <1>1 DEF FrameTells, Array, IInv, TypeOK
<1>4. \A k \in frame[t].added : k \in DOMAIN Array(t)
  BY <1>1 DEF FrameTells, Array
<1>5. i \in Nat /\ i \notin frame[t].added
  BY <1>2, IndexIsNat
<1>6. \A k \in frame[t].added : Array(t)[k] # w
  BY <1>3, <1>4, <1>5 DEF OneListener
<1>7. Listens(t, w)
  BY DEF Listens
<1>8. Live(w) = {}
  <2>1. ASSUME NEW n \in Live(w) PROVE FALSE
    <3>1. n[1] \in Threads /\ n[2] \in frame[n[1]].added /\ Array(n[1])[n[2]] = w /\ Listens(n[1], w)
      BY NodeOfListener
    <3>2. n[1] = t
      BY <1>7, <3>1 DEF IInv, Apart
    <3> QED BY <1>6, <3>1, <3>2
  <2> QED BY <2>1
<1>9. next[w] = w
  BY <1>8 DEF IInv, ListShape
<1>10. <<t, i>> \in Nodes
  <2>1. i \in 1 .. MaxWaitObjects
    BY <1>3, IndexIsNat, MultiWaitAssumption
  <2> QED BY <2>1 DEF Nodes
<1> QED BY <1>5, <1>6, <1>8, <1>9, <1>10

LEMMA ListenKeeps ==
  ASSUME IInv, OneListener, NEW t \in Threads, NEW i, i = frame[t].i, pc[t] = "begin",
         NEW w \in Waitables, i \in DOMAIN Array(t), Array(t)[i] = w, mutex[w] = Nobody,
         Listen(t, w), OthersKeep(t),
         UNCHANGED <<now, pc, trig, cancel, objects, hsig, mutex, walker>>,
         frame' \in [Threads -> Frames], frame'[t].objects = frame[t].objects,
         frame'[t].added = frame[t].added \cup {i}, FrameTells(t)',
         w \in Events => ~ signal[w],
         \A m \in Timers : Listening(t, m)' =>
            \/ trig[t] # 0 \/ Ahead(m)
            \/ EndFits(t, m)'
  PROVE  IInv'
<1> DEFINE n == <<t, i>>
<1>1. /\ Live(w) = {} /\ next[w] = w /\ i \notin frame[t].added
      /\ n \in Nodes /\ \A k \in frame[t].added : Array(t)[k] # w
  BY ListenerJoins
<1>2. /\ next' = [next EXCEPT ![n] = w, ![w] = n] /\ prev' = [prev EXCEPT ![n] = w]
  BY <1>1 DEF Listen, NodeAdd
<1>3. n[1] = t /\ n[2] = i
  OBVIOUS
<1> HIDE DEF n
<1>4. /\ n \in Links /\ w \in Links /\ n # w /\ \A v \in Waitables : v # n /\ v \in Links
      /\ next \in [Links -> Links] /\ prev \in [Links -> Links]
  BY <1>1, MultiWaitAssumption DEF Links, IInv, TypeOK
<1>5. /\ next' \in [Links -> Links] /\ prev' \in [Links -> Links]
      /\ next'[w] = n /\ next'[n] = w /\ prev'[n] = w
      /\ \A x \in Links : x # n /\ x # w => next'[x] = next[x] /\ prev'[x] = prev[x]
  BY <1>2, <1>4
<1>6. \A u \in Threads : Array(u)' = Array(u)
  BY DEF Array, OthersKeep
<1>7. Apart'
  BY <1>6 DEF IInv, Apart, Listens
<1>8. ASSUME NEW v, NEW m \in Nodes
      PROVE  m \in Live(v)' <=> m \in Live(v) \/ (m = n /\ v = w)
  <2>1. m[1] \in Threads /\ (m = n <=> m[1] = t /\ m[2] = i)
    BY DEF Nodes, n
  <2>2. CASE m[1] = t
    BY <1>1, <1>6, <2>1, <2>2 DEF Live
  <2>3. CASE m[1] # t
    BY <1>6, <2>1, <2>3 DEF Live, OthersKeep
  <2> QED BY <2>2, <2>3
<1>9. Live(w)' = {n}
  <2>1. \A m \in Live(w)' : m \in Nodes
    BY DEF Live
  <2> QED BY <1>1, <1>8, <2>1
<1>10. \A v \in Waitables \ {w} : Live(v)' = Live(v)
  BY <1>8 DEF Live
<1>11. \A v : n \notin Live(v)
  BY <1>1, <1>3 DEF Live
<1>12. ListShape'
  <2>1. ASSUME NEW v \in Waitables
        PROVE  /\ Live(v)' = {} => next'[v] = v
               /\ \A m \in Live(v)' : next'[v] = m /\ next'[m] = v /\ prev'[m] = v
    <3>1. CASE v = w
      BY <1>5, <1>9, <3>1
    <3>2. CASE v # w
      <4>1. Live(v)' = Live(v) /\ next'[v] = next[v]
        BY <1>4, <1>5, <1>10, <3>2
      <4>2. \A m \in Live(v) : m # w /\ m # n /\ m \in Links
        BY <1>11, MultiWaitAssumption DEF Live, Links
      <4> QED BY <1>5, <4>1, <4>2 DEF IInv, ListShape
    <3> QED BY <3>1, <3>2
  <2> QED BY <2>1 DEF ListShape
<1>13. Walks'
  BY <1>10, KeepWalks
<1>14. Typed'
  BY <1>5, KeepTyped DEF IInv, TypeOK, objects, Array
<1>15. \A u \in Threads : FrameTells(u)' /\ EndTells(u)'
  <2>1. EndTells(t)'
    BY DEF EndTells
  <2> QED BY <2>1, OthersTell
<1>16. PickedIsTold'
  BY DEF IInv, PickedIsTold
<1>17. \A u \in Threads \ {t} : \A v : Listening(u, v)' <=> Listening(u, v)
  BY <1>6 DEF Listening, OthersKeep
<1>18. \A v : Listening(t, v)' => Listening(t, v) \/ v = w
  BY <1>6 DEF Listening
<1>19. SignalPicks'
  <2>1. ASSUME NEW u \in Threads, NEW e \in Events, pc'[u] \in {"begin", "blocked"},
               Listening(u, e)', signal'[e]
        PROVE  trig'[u] # 0 \/ Ahead(e)'
    <3>1. Listening(u, e) /\ signal[e]
      BY <1>17, <1>18, <2>1 DEF objects
    <3> QED BY <2>1, <3>1 DEF IInv, SignalPicks, Ahead
  <2> QED BY <2>1 DEF SignalPicks
<1>20. EndFitsTimers'
  <2>1. ASSUME NEW u \in Threads, NEW m \in Timers, pc'[u] \in {"begin", "blocked"},
               Listening(u, m)', trig'[u] = 0, ~ Ahead(m)'
        PROVE  EndFits(u, m)'
    <3>1. trig[u] = 0 /\ ~ Ahead(m)
      BY <2>1 DEF Ahead
    <3>2. CASE u = t
      BY <2>1, <3>1, <3>2
    <3>3. CASE u # t
      <4>1. Listening(u, m) /\ pc[u] \in {"begin", "blocked"} /\ frame'[u] = frame[u]
        BY <1>17, <2>1, <3>3 DEF OthersKeep
      <4>2. EndFits(u, m)
        BY <3>1, <4>1 DEF IInv, EndFitsTimers, EndFits
      <4> QED BY <1>6, <4>1, <4>2 DEF EndFits, objects
    <3> QED BY <3>2, <3>3
  <2> QED BY <2>1 DEF EndFitsTimers, EndFits
<1> QED BY <1>7, <1>12, <1>13, <1>14, <1>15, <1>16, <1>19, <1>20 DEF IInv, Typed

(* The frame of a wait that has listened, and that has a new end. *)
Listened(f, i) == [[f EXCEPT !.i = i + 1] EXCEPT !.added = f.added \cup {i}]

Joined(f, i, tick, idx) ==
  [[Listened(f, i) EXCEPT !.endTick = tick] EXCEPT !.endIdx = idx]

LEMMA FrameListens ==
  ASSUME NEW f \in Frames, NEW i \in Nat
  PROVE  /\ Listened(f, i) \in Frames
         /\ Listened(f, i).objects = f.objects /\ Listened(f, i).added = f.added \cup {i}
         /\ Listened(f, i).i = i + 1 /\ Listened(f, i).curTick = f.curTick
         /\ Listened(f, i).endTick = f.endTick /\ Listened(f, i).endIdx = f.endIdx
<1> DEFINE j == i + 1
           added == f.added \cup {i}
           f1 == [f EXCEPT !.i = j]
           f2 == [f1 EXCEPT !.added = added]
<1>1. j \in Nat /\ added \in SUBSET Nat
  BY DEF Frames
<1>2. Listened(f, i) = f2
  BY DEF Listened
<1> HIDE DEF j, added
<1>3. /\ f1 \in Frames /\ f1.objects = f.objects /\ f1.i = j /\ f1.curTick = f.curTick
      /\ f1.endTick = f.endTick /\ f1.endIdx = f.endIdx
  BY <1>1 DEF Frames
<1> HIDE DEF f1
<1>4. /\ f2 \in Frames /\ f2.objects = f.objects /\ f2.i = j /\ f2.curTick = f.curTick
      /\ f2.added = added /\ f2.endTick = f.endTick /\ f2.endIdx = f.endIdx
  BY <1>1, <1>3 DEF Frames
<1> HIDE DEF f2
<1> QED BY <1>2, <1>4 DEF j, added

LEMMA FrameJoins ==
  ASSUME NEW f \in Frames, NEW i \in Nat, NEW tick \in Times, NEW idx \in Nat
  PROVE  /\ Joined(f, i, tick, idx) \in Frames
         /\ Joined(f, i, tick, idx).objects = f.objects
         /\ Joined(f, i, tick, idx).added = f.added \cup {i}
         /\ Joined(f, i, tick, idx).i = i + 1
         /\ Joined(f, i, tick, idx).curTick = f.curTick
         /\ Joined(f, i, tick, idx).endTick = tick /\ Joined(f, i, tick, idx).endIdx = idx
<1> DEFINE f2 == Listened(f, i)
           f3 == [f2 EXCEPT !.endTick = tick]
           f4 == [f3 EXCEPT !.endIdx = idx]
<1>1. Joined(f, i, tick, idx) = f4
  BY DEF Joined
<1>2. /\ f2 \in Frames /\ f2.objects = f.objects /\ f2.i = i + 1 /\ f2.curTick = f.curTick
      /\ f2.added = f.added \cup {i}
  BY FrameListens
<1> HIDE DEF f2
<1>3. /\ f3 \in Frames /\ f3.objects = f.objects /\ f3.i = i + 1 /\ f3.curTick = f.curTick
      /\ f3.added = f.added \cup {i} /\ f3.endTick = tick
  BY <1>2 DEF Frames
<1> HIDE DEF f3
<1>4. /\ f4 \in Frames /\ f4.objects = f.objects /\ f4.i = i + 1 /\ f4.curTick = f.curTick
      /\ f4.added = f.added \cup {i} /\ f4.endTick = tick /\ f4.endIdx = idx
  BY <1>3 DEF Frames
<1> HIDE DEF f4
<1> QED BY <1>1, <1>4

LEMMA BeginEventKeeps ==
  ASSUME IInv, OneListener, NEW t \in Threads, BeginEvent(t) PROVE IInv'
<1>1. PICK i : i = frame[t].i
  OBVIOUS
<1>2. PICK e : e = Array(t)[i]
  OBVIOUS
<1>3. /\ pc[t] = "begin" /\ i \in DOMAIN Array(t) /\ e \in Events /\ mutex[e] = Nobody
      /\ UNCHANGED <<now, trig, cancel, started, nextTick, hsig, mutex, walker>>
  BY <1>1, <1>2 DEF BeginEvent
<1>4. CASE /\ signal' = [signal EXCEPT ![e] = e \notin AutoClear] /\ signal[e]
           /\ Finish(t, "ok", i) /\ UNCHANGED lists
  <2>1. i \in Nat /\ "ok" \in Outcomes
    BY <1>3, IndexIsNat DEF Outcomes
  <2>2. signal' \in [Events -> BOOLEAN] /\ \A x \in Events : signal'[x] => signal[x]
    BY <1>3, <1>4 DEF IInv, TypeOK
  <2> QED BY <1>3, <1>4, <2>1, <2>2, FinishKeeps DEF IInv, TypeOK
<1>5. CASE /\ ~ signal[e] /\ Listen(t, e) /\ UNCHANGED <<signal, pc>>
           /\ frame' = [frame EXCEPT ![t].i = i + 1, ![t].added = @ \cup {i}]
  <2> DEFINE g == Listened(frame[t], i)
  <2>1. FrameTells(t) /\ frame[t] \in Frames
    BY DEF IInv
  <2>2. i \in 1 .. Len(Array(t)) /\ Len(Array(t)) \in Nat
    BY <1>3, IndexIsNat
  <2>3. frame' = [frame EXCEPT ![t] = g]
    BY <1>5 DEF Listened
  <2>4. /\ g \in Frames /\ g.objects = frame[t].objects /\ g.added = frame[t].added \cup {i}
        /\ g.curTick = frame[t].curTick /\ g.endTick = frame[t].endTick
        /\ g.endIdx = frame[t].endIdx /\ g.i = i + 1
    <3>1. i \in Nat
      BY <2>2
    <3> QED BY <2>1, <3>1, FrameListens
  <2> HIDE DEF g
  <2>5. frame' \in [Threads -> Frames] /\ frame'[t] = g /\ OthersKeep(t)
    BY <1>3, <1>5, <2>3, <2>4 DEF IInv, OthersKeep
  <2>6. \A k \in frame[t].added : k \in Nat /\ k < i
    BY <1>1, <1>3, <2>1 DEF FrameTells, Frames
  <2>7. FrameTells(t)'
    <3>1. g.added \subseteq DOMAIN g.objects /\ \A k \in g.added : g.objects[k] \in Waitables
      BY <1>2, <1>3, <2>1, <2>4 DEF FrameTells, Array, Waitables
    <3>2. g.i \in 1 .. Len(g.objects) + 1 /\ \A k \in g.added : k < g.i
      BY <2>2, <2>4, <2>6 DEF Array
    <3> QED BY <1>3, <1>5, <2>1, <2>4, <2>5, <3>1, <3>2 DEF FrameTells
  <2>8. ASSUME NEW m \in Timers, Listening(t, m)'
        PROVE  trig[t] # 0 \/ Ahead(m) \/ EndFits(t, m)'
    <3>1. Array(t)' = Array(t) /\ e # m
      BY <1>3, <2>4, <2>5, MultiWaitAssumption DEF Array
    <3>2. Listening(t, m)
      BY <1>2, <2>4, <2>5, <2>8, <3>1 DEF Listening
    <3>3. trig[t] # 0 \/ Ahead(m) \/ EndFits(t, m)
      BY <1>3, <3>2 DEF IInv, EndFitsTimers, EndFits
    <3> QED BY <1>3, <2>4, <2>5, <3>1, <3>3 DEF EndFits
  <2>9. e \in Waitables
    BY <1>3 DEF Waitables
  <2> QED
    BY <1>1, <1>2, <1>3, <1>5, <2>4, <2>5, <2>7, <2>8, <2>9, ListenKeeps DEF objects
<1> QED BY <1>1, <1>2, <1>4, <1>5 DEF BeginEvent

LEMMA BeginTimerKeeps ==
  ASSUME IInv, OneListener, NEW t \in Threads, BeginTimer(t) PROVE IInv'
<1>1. PICK i : i = frame[t].i
  OBVIOUS
<1>2. PICK m : m = Array(t)[i]
  OBVIOUS
<1> DEFINE f == frame[t]
           diff == IF started[m] THEN nextTick[m] - f.curTick ELSE Forever
           sooner == Earlier(diff, f.endTick)
<1>3. /\ pc[t] = "begin" /\ i \in DOMAIN Array(t) /\ m \in Timers /\ mutex[m] = Nobody
      /\ UNCHANGED <<now, trig, cancel, signal, hsig, mutex, walker>>
  BY <1>1, <1>2 DEF BeginTimer
<1>4. FrameTells(t) /\ f \in Frames /\ now \in Nat /\ m \in Waitables
  BY <1>3 DEF IInv, TypeOK, Waitables
<1>5. i \in 1 .. Len(Array(t)) /\ Len(Array(t)) \in Nat
  BY <1>3, IndexIsNat
<1>6. CASE /\ started[m] /\ diff < 0 /\ Recalculate(m, nextTick[m])
           /\ Finish(t, "ok", i) /\ UNCHANGED lists
  <2>1. i \in Nat /\ "ok" \in Outcomes
    BY <1>5 DEF Outcomes
  <2>2. nextTick[m] \in Nat
    BY <1>3 DEF IInv, TypeOK
  <2>3. nextTick[m] <= now
    BY <1>4, <1>6, <2>2 DEF FrameTells, Frames
  <2>4. Listens(t, m)
    BY <1>2, <1>3 DEF Listens
  <2>5. /\ started' \in [Timers -> BOOLEAN] /\ nextTick' \in [Timers -> Nat]
        /\ \A x \in Timers \ {m} : started'[x] = started[x] /\ nextTick'[x] = nextTick[x]
    BY <1>3, <1>6, <2>2, <2>3, RecalculateType DEF IInv, TypeOK
  <2> QED BY <1>3, <1>6, <2>1, <2>4, <2>5, FinishKeeps DEF IInv, TypeOK
<1>7. CASE /\ started[m] => diff >= 0
           /\ Listen(t, m) /\ UNCHANGED <<pc, started, nextTick>>
           /\ frame' = [frame EXCEPT
                 ![t].i = @ + 1,
                 ![t].added = @ \cup {i},
                 ![t].endTick = IF sooner THEN diff ELSE @,
                 ![t].endIdx = IF sooner THEN i ELSE @]
  <2> DEFINE tick == IF sooner THEN diff ELSE f.endTick
             idx == IF sooner THEN i ELSE f.endIdx
             g == Joined(f, i, tick, idx)
  <2>1. diff \in Times /\ tick \in Times /\ idx \in Nat
    BY <1>3, <1>4, <1>5, <1>7 DEF Times, Frames, IInv, TypeOK
  <2> HIDE DEF diff, sooner
  <2>2. frame' = [frame EXCEPT ![t] = g]
    BY <1>1, <1>7 DEF Joined, Listened
  <2> HIDE DEF tick, idx
  <2>3. g \in Frames /\ i \in Nat
    BY <1>4, <1>5, <2>1, FrameJoins
  <2>4. /\ g.objects = f.objects /\ g.added = f.added \cup {i} /\ g.i = i + 1
        /\ g.curTick = f.curTick /\ g.endTick = tick /\ g.endIdx = idx
    <3>1. f \in Frames /\ i \in Nat /\ tick \in Times /\ idx \in Nat
      BY <1>4, <2>1, <2>3
    <3>2. g = Joined(f, i, tick, idx)
      OBVIOUS
    <3> HIDE DEF f, g
    <3> QED BY ONLY <3>1, <3>2, FrameJoins
  <2> HIDE DEF g
  <2>5. frame' \in [Threads -> Frames] /\ frame'[t] = g /\ OthersKeep(t)
    <3>1. UNCHANGED pc
      BY <1>7
    <3> QED BY <1>3, <2>2, <2>3, <3>1 DEF IInv, OthersKeep
  <2>6. \A k \in f.added : k \in Nat /\ k < i
    BY <1>1, <1>3, <1>4 DEF FrameTells, Frames
  <2>7. FrameTells(t)'
    <3>1. g.added \subseteq DOMAIN g.objects /\ \A k \in g.added : g.objects[k] \in Waitables
      BY <1>2, <1>3, <1>4, <2>4 DEF FrameTells, Array
    <3>2. g.i \in 1 .. Len(g.objects) + 1 /\ \A k \in g.added : k < g.i
      BY <1>5, <2>4, <2>6 DEF Array
    <3>3. g.endIdx # 0 => /\ g.endIdx \in DOMAIN g.objects /\ g.objects[g.endIdx] \in Timers
                          /\ g.endTick # Forever
      BY <1>2, <1>3, <1>4, <2>4 DEF FrameTells, Array, tick, idx, Earlier, sooner, diff
    <3>4. g.endIdx \in {0} \cup g.added
      BY <1>3, <1>4, <2>4 DEF FrameTells, idx
    <3> QED BY <1>3, <1>4, <1>7, <2>4, <2>5, <3>1, <3>2, <3>3, <3>4 DEF FrameTells
  <2>8. ASSUME NEW x \in Timers, Listening(t, x)'
        PROVE  trig[t] # 0 \/ Ahead(x) \/ EndFits(t, x)'
    <3>1. /\ Array(t)' = Array(t) /\ frame'[t].curTick = f.curTick
          /\ frame'[t].endTick = tick /\ frame'[t].endIdx = idx
      BY <2>4, <2>5 DEF Array
    <3>2. \A k \in f.added : Array(t)[k] # m
      BY <1>1, <1>2, <1>3, <1>4, ListenerJoins
    <3>3. f.endIdx \in {0} \cup f.added
      BY <1>3, <1>4 DEF FrameTells
    <3>4. CASE x = m
      <4>1. started[m] => nextTick[m] - f.curTick = diff /\ ~ Earlier(diff, tick)
        BY <2>1, <1>4 DEF tick, Earlier, Times, Frames, sooner, diff
      <4>2. idx # 0 /\ Array(t)[idx] = m => sooner
        BY <3>2, <3>3 DEF idx
      <4>3. sooner => started[m] /\ tick = nextTick[m] - f.curTick
        BY DEF tick, Earlier, sooner, diff
      <4>4. sooner => nextTick[m] = f.curTick + tick
        BY <1>3, <1>4, <4>3 DEF Frames, IInv, TypeOK
      <4> QED BY <1>7, <3>1, <3>4, <4>1, <4>2, <4>3, <4>4 DEF EndFits
    <3>5. CASE x # m
      <4>1. Listening(t, x)
        BY <1>2, <2>4, <2>5, <2>8, <3>1, <3>5 DEF Listening
      <4>2. trig[t] # 0 \/ Ahead(x) \/ EndFits(t, x)
        BY <1>3, <4>1 DEF IInv, EndFitsTimers, EndFits
      <4>3. nextTick[x] - f.curTick \in Int
        BY <1>4 DEF Frames, IInv, TypeOK
      <4>4. ~ Earlier(nextTick[x] - f.curTick, f.endTick)
              => ~ Earlier(nextTick[x] - f.curTick, tick)
        BY <1>4, <2>1, <4>3, MultiWaitAssumption DEF tick, Earlier, Times, Frames, sooner
      <4>5. idx # 0 /\ Array(t)[idx] = x => idx = f.endIdx /\ tick = f.endTick
        BY <1>2, <3>5 DEF idx, tick
      <4> QED BY <1>7, <3>1, <4>2, <4>4, <4>5 DEF EndFits
    <3> QED BY <3>4, <3>5
  <2>9. m \in Events => ~ signal[m]
    BY <1>3, MultiWaitAssumption
  <2> QED
    BY <1>1, <1>2, <1>3, <1>4, <1>7, <2>4, <2>5, <2>7, <2>8, <2>9, ListenKeeps DEF objects
<1> QED BY <1>1, <1>2, <1>6, <1>7 DEF BeginTimer

-----------------------------------------------------------------------------
(* The inductive invariant *)

LEMMA InitIInv == Init => IInv
<1> SUFFICES ASSUME Init PROVE IInv
  OBVIOUS
<1> USE DEF Init, Array
<1>1. NoFrame \in Frames /\ NoFrame.objects = <<>> /\ NoFrame.added = {}
  BY DEF NoFrame, Frames, Times, Outcomes
<1>2. /\ NoFrame.curTick = 0 /\ NoFrame.endIdx = 0
      /\ NoFrame.endTick = Forever /\ NoFrame.wakeAt = Forever
  BY DEF NoFrame
<1> HIDE DEF NoFrame
<1>3. Waitables \subseteq Links /\ MaxTime \in Nat
  BY MultiWaitAssumption DEF Links
<1>4. TypeOK
  BY <1>1, <1>2, <1>3, MultiWaitAssumption DEF TypeOK, Times
<1>5. frame \in [Threads -> Frames] /\ trig \in [Threads -> Nat]
  BY <1>1
<1>6. walker \in [Signallers -> [at : {"out", "walk", "cancel"}, list : Waitables \cup {Nobody},
                                  node : Links \cup {Nobody}]]
  BY DEF Idle
<1>7. \A t \in Threads : FrameTells(t) /\ EndTells(t)
  BY <1>1, <1>2 DEF FrameTells, EndTells
<1>8. Apart
  BY <1>1 DEF Apart, Listens
<1>9. ListShape
  <2>1. \A w : Live(w) = {}
    BY <1>1 DEF Live, Nodes
  <2> QED BY <1>3, <2>1 DEF ListShape
<1>10. Walks
  BY DEF Walks, WalkTells, HeldByWalk
<1>11. PickedIsTold /\ SignalPicks /\ EndFitsTimers
  BY <1>1 DEF PickedIsTold, SignalPicks, EndFitsTimers
<1> QED BY <1>4, <1>5, <1>6, <1>7, <1>8, <1>9, <1>10, <1>11 DEF IInv

LEMMA StutterKeeps ==
  ASSUME IInv, UNCHANGED vars PROVE IInv'
<1> USE DEF vars, waiting, objects, lists
<1>1. SameListeners /\ \A t \in Threads : FrameTells(t)' /\ EndTells(t)'
  BY FramesKept DEF IInv, TypeOK
<1>2. Apart' /\ ListShape' /\ Walks' /\ \A w : Live(w)' = Live(w)
  BY <1>1, KeepLists, KeepLive, KeepWalks
<1>3. TypeOK'
  BY DEF IInv, TypeOK, Array
<1>4. PickedIsTold /\ SignalPicks /\ EndFitsTimers
  BY DEF IInv
<1>5. PickedIsTold'
  BY <1>4 DEF PickedIsTold
<1>6. SignalPicks'
  BY <1>4 DEF SignalPicks, Listening, Ahead, Array
<1>7. EndFitsTimers'
  BY <1>4 DEF EndFitsTimers, Listening, Ahead, Array
<1> QED BY <1>1, <1>2, <1>3, <1>5, <1>6, <1>7 DEF IInv

(* Every step of waitObjects, ... *)
LEMMA WaitStepKeeps ==
  ASSUME IInv, OneListener, NEW t \in Threads, WaitStep(t) PROVE IInv'
BY LoopTurnKeeps, BeginHandleKeeps, BeginEventKeeps, BeginTimerKeeps,
   WaitSynchronizationKeeps, KernelTimeoutKeeps, AfterSignalledKeeps, AfterTimeoutKeeps,
   AfterCancelledKeeps, RemoveListenerKeeps, LoopAgainKeeps, ReturnKeeps DEF WaitStep

(* ... and of those who signal. *)
LEMMA NextKeeps ==
  ASSUME IInv, OneListener, ~WeakFails, [Next]_vars PROVE IInv'
<1>1. CASE Tick
  BY <1>1, TickKeeps
<1>2. ASSUME NEW t \in Threads, WaitStep(t) PROVE IInv'
  BY <1>2, WaitStepKeeps
<1>3. ASSUME NEW t \in Threads, NEW array \in WaitArrays, NEW timeout \in Timeouts,
             WaitCall(t, array, timeout)
      PROVE  IInv'
  BY <1>3, WaitCallKeeps
<1>4. ASSUME NEW s \in Signallers, WalkStep(s) PROVE IInv'
  BY <1>4, WalkNodeKeeps, WalkEndKeeps, CancelSynchronizationKeeps DEF WalkStep
<1>5. ASSUME NEW s \in Signallers, NEW e \in Events, Signal(s, e) \/ Clear(s, e) PROVE IInv'
  BY <1>5, SignalKeeps, ClearKeeps
<1>6. ASSUME NEW s \in Signallers, NEW m \in Timers, Start(s, m) \/ Stop(s, m) PROVE IInv'
  BY <1>6, StartKeeps, StopKeeps
<1>7. ASSUME NEW h \in Handles, SignalHandle(h) PROVE IInv'
  BY <1>7, SignalHandleKeeps
<1>8. CASE UNCHANGED vars
  BY <1>8, StutterKeeps
<1> QED BY <1>1, <1>2, <1>3, <1>4, <1>5, <1>6, <1>7, <1>8 DEF Next

(* The lists, the walks, the picked threads and the ends of the waits fit  *)
(* together in every state.                                                *)
THEOREM Invariant ==
  ASSUME OneListener, ~WeakFails PROVE Spec => []IInv
<1>1. Init => IInv
  BY InitIInv
<1>2. IInv /\ [Next]_vars => IInv'
  BY NextKeeps
<1> QED BY <1>1, <1>2, PTL DEF Spec

-----------------------------------------------------------------------------
(* What follows from it *)

(* Every variable has its type. *)
THEOREM TypeCorrect ==
  ASSUME OneListener, ~WeakFails PROVE Spec => []TypeOK
<1>1. IInv => TypeOK
  BY DEF IInv
<1> QED BY <1>1, Invariant, PTL

(* A picked thread that sleeps is being told, and a walk that has not      *)
(* begun is a wake-up to come.                                             *)
LEMMA SleeperIsTold ==
  ASSUME IInv, NEW t \in Threads, NEW w \in Waitables, pc[t] = "blocked",
         trig[t] # 0 \/ Ahead(w)
  PROVE  WakeComing(t, w)
BY DEF IInv, EndTells, PickedIsTold, Ahead, WakeComing

(* No thread sleeps on an event that is signalled. *)
THEOREM NoSignalLost ==
  ASSUME OneListener, ~WeakFails PROVE Spec => []NoLostSignal
<1>1. IInv => NoLostSignal
  BY SleeperIsTold DEF IInv, SignalPicks, NoLostSignal, Waitables
<1> QED BY <1>1, Invariant, PTL

(* No thread sleeps by what a timer was. *)
THEOREM NoTimerStale ==
  ASSUME OneListener, ~WeakFails PROVE Spec => []NoStaleTimer
<1>1. IInv => NoStaleTimer
  BY SleeperIsTold DEF IInv, EndFitsTimers, NoStaleTimer, Waitables
<1> QED BY <1>1, Invariant, PTL

(* The list of a waitable holds the nodes of the waits that listen on it.  *)
THEOREM ListsSound ==
  ASSUME OneListener, ~WeakFails PROVE Spec => []ListSound
<1>1. IInv => ListSound
  <2> SUFFICES ASSUME IInv, NEW w \in Waitables
               PROVE  /\ \A x \in {w} \cup Live(w) : next[x] \in {w} \cup Live(w)
                      /\ \A n \in Live(w) : prev[n] \in {w} \cup Live(w) /\ next[prev[n]] = n
    BY DEF ListSound
  <2>1. /\ Live(w) = {} => next[w] = w
        /\ \A n \in Live(w) : next[w] = n /\ next[n] = w /\ prev[n] = w
    BY DEF IInv, ListShape
  <2> QED BY <2>1
<1> QED BY <1>1, Invariant, PTL

-----------------------------------------------------------------------------
(* What no step does *)

(* A step that ends no wait and takes no signal away. *)
Quiet ==
  /\ \A e \in Events : signal[e] => signal'[e]
  /\ hsig \subseteq hsig'
  /\ \A t \in Threads : pc'[t] = "clean" => pc[t] = "clean"

LEMMA QuietFits ==
  Quiet => SignalsFit
BY DEF Quiet, SignalsFit, Reports

(* A step that ends the wait of t: what t reports is all there is to say.  *)
LEMMA FinishEnds ==
  ASSUME IInv, NEW t \in Threads, NEW rc \in Outcomes, NEW idx \in Nat, Finish(t, rc, idx),
         pc[t] # "clean"
  PROVE  /\ \A u \in Threads \ {t} : pc'[u] = pc[u]
         /\ pc'[t] = "clean" /\ frame'[t].rc = rc /\ frame'[t].idx = idx
<1>1. LeavesResult(t, rc, idx)
  BY DEF Finish, LeavesResult
<1>2. frame'[t].rc = rc /\ frame'[t].idx = idx
  BY <1>1, ResultLeft
<1> QED BY <1>2 DEF Finish, Goto, IInv, TypeOK

LEMMA EndFitsSignals ==
  ASSUME IInv, NEW t \in Threads, NEW rc \in Outcomes, NEW idx \in Nat, Finish(t, rc, idx),
         pc[t] # "clean",
         \A x \in AutoClear : rc = "ok" /\ Array(t)[idx] = x =>
            IF x \in Events THEN signal[x] /\ ~signal'[x] ELSE x \in hsig /\ x \notin hsig',
         \A x \in Events : signal[x] /\ ~signal'[x] => rc = "ok" /\ Array(t)[idx] = x,
         \A x \in Handles : x \in hsig /\ x \notin hsig' => rc = "ok" /\ Array(t)[idx] = x
  PROVE  SignalsFit
<1>1. /\ \A u \in Threads \ {t} : pc'[u] = pc[u]
      /\ pc'[t] = "clean" /\ frame'[t].rc = rc /\ frame'[t].idx = idx
  BY FinishEnds
<1>2. \A u \in Threads : \A x : Reports(u, x) => u = t /\ rc = "ok" /\ Array(t)[idx] = x
  BY <1>1 DEF Reports
<1>3. \A x : rc = "ok" /\ Array(t)[idx] = x => Reports(t, x)
  BY <1>1 DEF Reports
<1> QED BY <1>2, <1>3 DEF SignalsFit

LEMMA WaitStepFits ==
  ASSUME IInv, NEW t \in Threads, WaitStep(t) PROVE SignalsFit
<1> USE DEF objects
<1>1. CASE LoopTurn(t)
  <2>1. /\ pc[t] = "loop" /\ UNCHANGED <<signal, hsig>>
        /\ Finish(t, "OutOfRange", 0) \/ pc' = [pc EXCEPT ![t] = "begin"]
    BY <1>1 DEF LoopTurn, Goto
  <2>2. CASE Finish(t, "OutOfRange", 0)
    BY <2>1, <2>2, EndFitsSignals DEF Outcomes
  <2>3. CASE pc' = [pc EXCEPT ![t] = "begin"]
    BY <2>1, <2>3, QuietFits DEF Quiet, IInv, TypeOK
  <2> QED BY <2>1, <2>2, <2>3
<1>2. CASE BeginHandle(t) \/ LoopAgain(t) \/ Return(t) \/ RemoveListener(t)
  BY <1>2, QuietFits DEF BeginHandle, LoopAgain, Return, RemoveListener, Quiet, Goto, IInv, TypeOK
<1>3. CASE BeginEvent(t)
  <2>1. PICK i : i = frame[t].i
    OBVIOUS
  <2>2. PICK e : e = Array(t)[i]
    OBVIOUS
  <2>3. /\ pc[t] = "begin" /\ i \in DOMAIN Array(t) /\ e \in Events /\ UNCHANGED hsig
    BY <1>3, <2>1, <2>2 DEF BeginEvent
  <2>4. CASE /\ signal' = [signal EXCEPT ![e] = e \notin AutoClear] /\ signal[e]
             /\ Finish(t, "ok", i)
    <3>1. i \in Nat /\ "ok" \in Outcomes
      BY <2>3, IndexIsNat DEF Outcomes
    <3>2. signal[e] /\ (e \in AutoClear => ~ signal'[e])
      BY <2>3, <2>4 DEF IInv, TypeOK
    <3>3. \A x \in Events : signal[x] /\ ~ signal'[x] => x = e
      BY <2>4 DEF IInv, TypeOK
    <3>4. Finish(t, "ok", i)
      BY <2>4
    <3> QED BY <2>2, <2>3, <3>1, <3>2, <3>3, <3>4, EndFitsSignals
  <2>5. CASE UNCHANGED <<signal, pc>>
    BY <2>3, <2>5, QuietFits DEF Quiet
  <2> QED BY <1>3, <2>1, <2>2, <2>4, <2>5 DEF BeginEvent
<1>4. CASE BeginTimer(t)
  <2>1. PICK i : i = frame[t].i
    OBVIOUS
  <2>2. PICK m : m = Array(t)[i]
    OBVIOUS
  <2>3. /\ pc[t] = "begin" /\ i \in DOMAIN Array(t) /\ m \in Timers /\ UNCHANGED <<hsig, signal>>
    BY <1>4, <2>1, <2>2 DEF BeginTimer
  <2>4. i \in Nat /\ "ok" \in Outcomes
    BY <2>3, IndexIsNat DEF Outcomes
  <2>5. m \notin AutoClear
    BY <2>3, MultiWaitAssumption DEF Waitables
  <2>6. CASE Finish(t, "ok", i)
    BY <2>2, <2>3, <2>4, <2>5, <2>6, EndFitsSignals
  <2>7. CASE UNCHANGED pc
    BY <2>3, <2>7, QuietFits DEF Quiet
  <2> QED BY <1>4, <2>1, <2>2, <2>6, <2>7 DEF BeginTimer
<1>5. CASE WaitSynchronization(t) \/ KernelTimeout(t)
  BY <1>5, QuietFits DEF WaitSynchronization, KernelTimeout, Wake, Quiet, Goto, IInv, TypeOK
<1>6. CASE AfterSignalled(t)
  <2>1. PICK h : h = Array(t)[frame[t].idx]
    OBVIOUS
  <2>2. PICK rc : rc = IF h \in AutoClear /\ h \notin hsig THEN "Cancelled" ELSE "ok"
    OBVIOUS
  <2>3. /\ pc[t] = "woken" /\ frame[t].rc = "ok" /\ Finish(t, rc, frame[t].idx)
        /\ hsig' = hsig \ ({h} \cap AutoClear) /\ UNCHANGED signal
    BY <1>6, <2>1, <2>2 DEF AfterSignalled
  <2>4. h \in Handles /\ h \notin Events
    BY <2>1, <2>3, MultiWaitAssumption DEF IInv, EndTells, Array, Waitables
  <2>5. frame[t].idx \in Nat /\ rc \in Outcomes
    BY <2>2 DEF IInv, Frames, Outcomes
  <2> QED BY <2>1, <2>2, <2>3, <2>4, <2>5, EndFitsSignals
<1>7. CASE AfterTimeout(t)
  <2>1. pc[t] = "woken" /\ UNCHANGED <<hsig, signal>>
    BY <1>7 DEF AfterTimeout
  <2>2. /\ frame[t].idx \in Nat /\ frame[t].endIdx \in Nat
        /\ "ok" \in Outcomes /\ "TimedOut" \in Outcomes
    BY DEF IInv, Frames, Outcomes
  <2>3. CASE Finish(t, "TimedOut", frame[t].idx)
    BY <2>1, <2>2, <2>3, EndFitsSignals
  <2>4. CASE frame[t].endIdx # 0 /\ Finish(t, "ok", frame[t].endIdx)
    <3>1. Array(t)[frame[t].endIdx] \in Timers
      BY <2>4 DEF IInv, FrameTells, Array
    <3>2. Array(t)[frame[t].endIdx] \notin AutoClear
      BY <3>1, MultiWaitAssumption DEF Waitables
    <3> QED BY <2>1, <2>2, <2>4, <3>2, EndFitsSignals
  <2> QED BY <1>7, <2>3, <2>4 DEF AfterTimeout
<1>8. CASE AfterCancelled(t)
  <2>1. /\ pc[t] = "woken" /\ UNCHANGED hsig
        /\ "ok" \in Outcomes /\ "Cancelled" \in Outcomes /\ 0 \in Nat /\ trig[t] \in Nat
    BY <1>8 DEF AfterCancelled, IInv, Outcomes
  <2>2. PICK e : e = Array(t)[trig[t]]
    OBVIOUS
  <2>3. CASE UNCHANGED signal /\ Finish(t, "Cancelled", 0)
    BY <2>1, <2>3, EndFitsSignals
  <2>4. CASE /\ e \in Events /\ signal' = [signal EXCEPT ![e] = signal[e] /\ e \notin AutoClear]
             /\ IF e \in AutoClear /\ ~ signal[e] THEN Finish(t, "Cancelled", 0)
                                                  ELSE Finish(t, "ok", trig[t])
    <3>1. /\ e \in AutoClear => ~ signal'[e]
          /\ \A x \in Events : signal[x] /\ ~ signal'[x] => x = e /\ e \in AutoClear
      BY <2>4 DEF IInv, TypeOK
    <3>2. CASE e \in AutoClear /\ ~ signal[e]
      <4>1. Finish(t, "Cancelled", 0)
        BY <2>4, <3>2
      <4>2. \A x \in Events : ~ (signal[x] /\ ~ signal'[x])
        BY <3>1, <3>2
      <4> QED BY <2>1, <4>1, <4>2, EndFitsSignals
    <3>3. CASE ~ (e \in AutoClear /\ ~ signal[e])
      <4>1. Finish(t, "ok", trig[t])
        BY <2>4, <3>3
      <4> QED BY <2>1, <2>2, <2>4, <3>1, <3>3, <4>1, EndFitsSignals
    <3> QED BY <3>2, <3>3
  <2> QED BY <1>8, <2>2, <2>3, <2>4 DEF AfterCancelled
<1> QED BY <1>1, <1>2, <1>3, <1>4, <1>5, <1>6, <1>7, <1>8 DEF WaitStep

(* The steps of others end no wait; ueventClear takes a signal away, but   *)
(* not for a wait.                                                         *)
LEMMA NextFits ==
  ASSUME IInv, [Next]_vars PROVE SignalsFit
<1> USE DEF waiting, objects
<1>1. CASE Tick
  BY <1>1, QuietFits DEF Tick, Quiet
<1>2. ASSUME NEW t \in Threads, WaitStep(t) PROVE SignalsFit
  BY <1>2, WaitStepFits
<1>3. ASSUME NEW t \in Threads, NEW array \in WaitArrays, NEW timeout \in Timeouts,
             WaitCall(t, array, timeout)
      PROVE  SignalsFit
  <2>1. UNCHANGED <<signal, hsig>> /\ pc' = [pc EXCEPT ![t] = "loop"]
    BY <1>3 DEF WaitCall, Goto
  <2> QED BY <2>1, QuietFits DEF Quiet, IInv, TypeOK
<1>4. ASSUME NEW s \in Signallers, WalkStep(s) PROVE SignalsFit
  BY <1>4, QuietFits
     DEF WalkStep, WalkNode, WalkEnd, CancelSynchronization, Wake, Goto, Quiet, IInv, TypeOK
<1>5. ASSUME NEW s \in Signallers, NEW e \in Events, Signal(s, e) PROVE SignalsFit
  BY <1>5, QuietFits DEF Signal, Quiet, IInv, TypeOK
<1>6. ASSUME NEW s \in Signallers, NEW e \in Events, Clear(s, e) PROVE SignalsFit
  <2>1. UNCHANGED <<waiting, hsig>>
    BY <1>6 DEF Clear
  <2> QED BY <2>1 DEF SignalsFit, Reports
<1>7. ASSUME NEW s \in Signallers, NEW m \in Timers, Start(s, m) \/ Stop(s, m) PROVE SignalsFit
  BY <1>7, QuietFits DEF Start, Stop, Quiet
<1>8. ASSUME NEW h \in Handles, SignalHandle(h) PROVE SignalsFit
  BY <1>8, QuietFits DEF SignalHandle, Quiet, IInv, TypeOK
<1>9. CASE UNCHANGED vars
  BY <1>9, QuietFits DEF vars, Quiet
<1> QED BY <1>1, <1>2, <1>3, <1>4, <1>5, <1>6, <1>7, <1>8, <1>9 DEF Next

(* A signal that a wait takes away is the one that wait reports. *)
THEOREM SignalsAreReported ==
  ASSUME OneListener, ~WeakFails PROVE Spec => SignalsReported
<1>1. IInv /\ [Next]_vars => [SignalsFit]_vars
  BY NextFits
<1> QED BY <1>1, Invariant, PTL DEF Spec, SignalsReported

LEMMA MultipleMod ==
  ASSUME NEW q \in Int, NEW b \in Nat \ {0} PROVE q * b = b * q /\ (q * b) % b = 0
OBVIOUS

(* Rounding up from d ends on a multiple, not before d and less than one   *)
(* interval past it.                                                       *)
LEMMA CeilDivBounds ==
  ASSUME NEW d \in Nat, NEW b \in Nat \ {0}
  PROVE  /\ CeilDiv(d, b) * b \in d .. d + b - 1
         /\ (CeilDiv(d, b) * b) % b = 0
<1> DEFINE a == d + b - 1
           q == a \div b
<1>1. a \in Nat /\ a = b * q + (a % b) /\ a % b \in 0 .. b - 1 /\ q \in Nat
  OBVIOUS
<1>2. CeilDiv(d, b) = q
  BY DEF CeilDiv
<1> HIDE DEF q
<1>3. q * b = b * q /\ (q * b) % b = 0
  BY <1>1, MultipleMod
<1> QED BY <1>1, <1>2, <1>3

LEMMA RecalculatePhase ==
  ASSUME IInv, NEW m \in Timers, NEW old \in Nat, old <= now, Recalculate(m, old)
  PROVE  PhaseKept
<1>1. /\ started \in [Timers -> BOOLEAN] /\ nextTick \in [Timers -> Nat] /\ now \in Nat
      /\ Interval \in [Timers -> Nat \ {0}] /\ Repeating \subseteq Timers
  BY MultiWaitAssumption DEF IInv, TypeOK
<1> DEFINE up == CeilDiv(now - old, Interval[m]) * Interval[m]
<1>2. /\ up \in now - old .. (now - old) + Interval[m] - 1
      /\ up % Interval[m] = 0
  <2>1. now - old \in Nat /\ Interval[m] \in Nat \ {0}
    BY <1>1
  <2> QED BY ONLY <2>1, CeilDivBounds
<1>3. ASSUME NEW r \in Repeating, started[r], started'[r], nextTick'[r] # nextTick[r]
      PROVE  r = m /\ nextTick[m] = old /\ nextTick'[m] = old + up
  BY <1>1, <1>3 DEF Recalculate
<1> HIDE DEF up
<1> QED BY <1>1, <1>2, <1>3 DEF PhaseKept

LEMMA NextKeepsPhase ==
  ASSUME IInv, [Next]_vars PROVE PhaseKept
<1> USE DEF waiting, objects
<1>1. UNCHANGED nextTick => PhaseKept
  BY MultiWaitAssumption DEF PhaseKept
<1>2. ASSUME NEW t \in Threads, BeginTimer(t) PROVE PhaseKept
  <2>1. PICK m : m = Array(t)[frame[t].i]
    OBVIOUS
  <2>2. CASE UNCHANGED nextTick
    BY <1>1, <2>2
  <2>3. CASE /\ m \in Timers /\ started[m] /\ nextTick[m] - frame[t].curTick < 0
             /\ Recalculate(m, nextTick[m])
    <3>1. /\ nextTick[m] \in Nat /\ frame[t].curTick \in Nat /\ now \in Nat
          /\ frame[t].curTick <= now
      BY <2>3 DEF IInv, TypeOK, FrameTells, Frames
    <3>2. nextTick[m] <= now
      BY <2>3, <3>1
    <3> QED BY <2>3, <3>1, <3>2, RecalculatePhase
  <2> QED BY <1>2, <2>1, <2>2, <2>3 DEF BeginTimer
<1>3. ASSUME NEW t \in Threads, AfterTimeout(t) PROVE PhaseKept
  <2>1. PICK m : m = Array(t)[frame[t].endIdx]
    OBVIOUS
  <2>2. CASE UNCHANGED nextTick
    BY <1>1, <2>2
  <2>3. CASE frame[t].endIdx # 0 /\ Recalculate(m, frame[t].endTick + frame[t].curTick)
    <3>1. m \in Timers /\ frame[t].endTick # Forever
      BY <2>1, <2>3 DEF IInv, FrameTells, Array
    <3>2. pc[t] = "woken" /\ frame[t].rc = "TimedOut"
      BY <1>3 DEF AfterTimeout
    <3>3. frame[t].endTick \in Nat /\ frame[t].curTick \in Nat
      BY <3>1 DEF IInv, Frames, Times
    <3>4. frame[t].endTick + frame[t].curTick <= now
      BY <2>3, <3>2, <3>3 DEF IInv, EndTells
    <3> QED BY <2>3, <3>1, <3>3, <3>4, RecalculatePhase
  <2> QED BY <1>3, <2>1, <2>2, <2>3 DEF AfterTimeout
<1>4. ASSUME NEW t \in Threads, WaitStep(t) PROVE PhaseKept
  <2>1. CASE \/ LoopTurn(t) \/ BeginHandle(t) \/ BeginEvent(t)
             \/ WaitSynchronization(t) \/ KernelTimeout(t) \/ AfterSignalled(t)
             \/ AfterCancelled(t) \/ RemoveListener(t) \/ LoopAgain(t) \/ Return(t)
    BY <1>1, <2>1 DEF LoopTurn, BeginHandle, BeginEvent, WaitSynchronization, KernelTimeout,
       AfterSignalled, AfterCancelled, RemoveListener, LoopAgain, Return
  <2> QED BY <1>2, <1>3, <1>4, <2>1 DEF WaitStep
<1>5. ASSUME NEW s \in Signallers, NEW m \in Timers, Start(s, m) PROVE PhaseKept
  BY <1>5, MultiWaitAssumption DEF Start, PhaseKept, IInv, TypeOK
<1>6. ASSUME NEW s \in Signallers, NEW m \in Timers, Stop(s, m) PROVE PhaseKept
  BY <1>6, MultiWaitAssumption DEF Stop, PhaseKept, IInv, TypeOK
<1>7. CASE \/ Tick \/ UNCHANGED vars
           \/ \E t \in Threads, array \in WaitArrays, timeout \in Timeouts :
                 WaitCall(t, array, timeout)
           \/ \E s \in Signallers, e \in Events : Signal(s, e) \/ Clear(s, e)
           \/ \E h \in Handles : SignalHandle(h)
  BY <1>1, <1>7 DEF Tick, vars, WaitCall, Signal, Clear, SignalHandle
<1>8. ASSUME NEW s \in Signallers, WalkStep(s) PROVE PhaseKept
  BY <1>1, <1>8 DEF WalkStep, WalkNode, WalkEnd, CancelSynchronization
<1> QED BY <1>4, <1>5, <1>6, <1>7, <1>8 DEF Next

(* A repeating timer that has fired is next due on its own grid, not in    *)
(* the past and within one interval.                                       *)
THEOREM PhaseIsKept ==
  ASSUME OneListener, ~WeakFails PROVE Spec => RepeatingKeepsPhase
<1>1. IInv /\ [Next]_vars => [PhaseKept]_vars
  BY NextKeepsPhase
<1> QED BY <1>1, Invariant, PTL DEF Spec, RepeatingKeepsPhase
=============================================================================
