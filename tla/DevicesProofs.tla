---------------------------- MODULE DevicesProofs ----------------------------
(***************************************************************************)
(* Proofs about the objects of Devices, for every number of threads, slots *)
(* and interfaces, every field of Pong and every address space: the        *)
(* inductive invariant (IInv of its module) of each, kept by each of its   *)
(* steps, and the promises that follow.                                    *)
(***************************************************************************)
EXTENDS Devices, WellFoundedInduction, SequenceTheorems, TLAPS

-----------------------------------------------------------------------------
(* Pong: a ball behind a paddle moves on to the edge, so one that reaches  *)
(* the paddle comes from the field.                                        *)

LEMMA PongMoves ==
  ASSUME DevicesAssumption, NEW from \in Int, NEW to \in {-1, 1}, NEW points,
         points \in [PG!Paddles -> Nat], \A p \in PG!Paddles : points[p] < MaxScore,
         from <= PG!Left => to = -1, from >= PG!Right + PLAYER_W => to = 1,
         PG!Move(from, to, points)
  PROVE  PG!IInv'
<1> DEFINE place == from + to * BALL_SPEED
           outRight == place >= GAME_X + GAME_W - BALL_SIZE
           outLeft == ~outRight /\ place <= GAME_X
           ballTo == IF outRight THEN -1 ELSE IF outLeft THEN 1 ELSE to
<1>1. /\ BALL_SPEED \in Nat /\ PLAYER_W \in Nat /\ MaxScore \in Nat
      /\ PG!Left \in Int /\ PG!Right \in Int /\ PG!Middle \in Int /\ PLAYER_W <= BALL_SPEED
      /\ PG!Left + PLAYER_W < PG!Middle /\ PG!Middle < PG!Right
  BY DEF DevicesAssumption, PG!PongAssumption, PG!Left, PG!Right, PG!Middle
<1>2. place \in Int /\ (to = 1 => place = from + BALL_SPEED) /\ (to = -1 => place = from - BALL_SPEED)
  BY <1>1
<1>3. /\ ballX' = (IF outRight \/ outLeft THEN PG!Middle ELSE place)
      /\ score' = [points EXCEPT !["left"] = IF outRight THEN @ + 1 ELSE @,
                                 !["right"] = IF outLeft THEN @ + 1 ELSE @]
      /\ \/ hit' = "none" /\ direction' = ballTo
         \/ PG!AtLeftPaddle(ballX') /\ hit' = "left" /\ direction' = -ballTo
         \/ PG!AtRightPaddle(ballX') /\ hit' = "right" /\ direction' = -ballTo
  BY DEF PG!Move
<1> HIDE DEF place, outRight, outLeft
<1>4. ballX' = PG!Middle \/ (ballX' = place /\ ballTo = to)
  BY <1>3
<1>5. ballTo \in {-1, 1}
  OBVIOUS
<1>6. score' \in [PG!Paddles -> 0..MaxScore]
  BY <1>1, <1>3 DEF PG!Paddles
<1>7. PG!TypeOK'
  BY <1>1, <1>2, <1>3, <1>4, <1>5, <1>6 DEF PG!TypeOK, PG!Directions, PG!Paddles
<1> HIDE DEF ballTo
<1>8. CASE ballX' = PG!Middle
  <2>1. ~PG!AtLeftPaddle(PG!Middle) /\ ~PG!AtRightPaddle(PG!Middle)
    BY <1>1 DEF PG!AtLeftPaddle, PG!AtRightPaddle
  <2>2. hit' = "none"
    BY <1>3, <1>8, <2>1
  <2> QED BY <1>1, <1>7, <1>8, <2>2 DEF PG!IInv, PG!Returned, PG!OutOfReach
<1>9. CASE ballX' = place /\ ballTo = to
  <2>1. PG!AtLeftPaddle(place) => to = -1
    BY <1>1, <1>2 DEF PG!AtLeftPaddle
  <2>2. PG!AtRightPaddle(place) => to = 1
    BY <1>1, <1>2 DEF PG!AtRightPaddle
  <2>3. (place <= PG!Left => to = -1) /\ (place >= PG!Right + PLAYER_W => to = 1)
    BY <1>1, <1>2
  <2>4. (place <= PG!Left \/ place >= PG!Right + PLAYER_W) => hit' = "none"
    <3>1. place <= PG!Left \/ place >= PG!Right + PLAYER_W
          => ~PG!AtLeftPaddle(place) /\ ~PG!AtRightPaddle(place)
      BY <1>1, <1>2 DEF PG!AtLeftPaddle, PG!AtRightPaddle
    <3> QED BY <1>3, <1>9, <3>1
  <2>5. PG!Returned'
    BY <1>3, <1>9, <2>1, <2>2 DEF PG!Returned
  <2>6. PG!OutOfReach'
    BY <1>3, <1>9, <2>3, <2>4 DEF PG!OutOfReach
  <2> QED BY <1>7, <2>5, <2>6 DEF PG!IInv
<1> QED BY <1>4, <1>8, <1>9

LEMMA PongInit ==
  ASSUME DevicesAssumption, PG!Init PROVE PG!IInv
BY DEF DevicesAssumption, PG!PongAssumption, PG!Init, PG!IInv, PG!TypeOK, PG!Returned, PG!OutOfReach,
       PG!Directions, PG!Paddles, PG!Left, PG!Right, PG!Middle

LEMMA PongStep ==
  ASSUME DevicesAssumption, PG!IInv, PG!Next PROVE PG!IInv'
<1>1. ASSUME PG!Frame PROVE PG!IInv'
  <2>1. /\ ballX \in Int /\ direction \in {-1, 1} /\ score \in [PG!Paddles -> Nat]
        /\ ballX <= PG!Left => direction = -1
        /\ ballX >= PG!Right + PLAYER_W => direction = 1
    BY DEF PG!IInv, PG!TypeOK, PG!Directions, PG!OutOfReach
  <2> QED BY <1>1, <2>1, PongMoves DEF PG!Frame
<1>2. ASSUME PG!KeyB PROVE PG!IInv'
  <2>1. PG!Middle \in Int /\ ~(PG!Middle <= PG!Left)
    BY DEF DevicesAssumption, PG!PongAssumption, PG!Left, PG!Right, PG!Middle
  <2> QED BY <1>2, <2>1, PongMoves DEF PG!KeyB
<1> QED BY <1>1, <1>2 DEF PG!Next

-----------------------------------------------------------------------------
(* NvFence: which thread has which slot, and whose event is armed.         *)

LEMMA LowestIn ==
  ASSUME NEW A, A \subseteq Nat, A # {} PROVE F!Lowest(A) \in A
<1> DEFINE R == {ss \in Nat \X Nat : ss[1] < ss[2]}
<1>1. IsWellFoundedOn(R, Nat)
  BY NatLessThanWellFounded DEF OpToRel
<1>2. \A j, l \in Nat : j < l => <<j, l>> \in R
  OBVIOUS
<1> HIDE DEF R
<1>3. PICK k \in A : \A j \in A : ~(<<j, k>> \in R)
  BY <1>1, WFMin
<1>4. ASSUME NEW j \in A PROVE k <= j
  <2>1. j \in Nat /\ k \in Nat /\ ~(<<j, k>> \in R)
    BY <1>3
  <2>2. ~(j < k)
    BY <1>2, <2>1
  <2> QED BY <2>1, <2>2
<1> QED BY <1>4 DEF F!Lowest

LEMMA FenceConstants ==
  ASSUME DevicesAssumption
  PROVE  NoThread \notin Threads /\ F!NoSlot \notin F!Slots
BY DEF DevicesAssumption, F!NvFenceAssumption, F!NoSlot, F!Slots

(* The slot that is found is one that the mask leaves.                     *)
LEMMA FenceFound ==
  ASSUME DevicesAssumption, NEW m, F!Free(m) # {}
  PROVE  F!Lowest(F!Free(m)) \in F!Slots \ m
<1>1. EventSlots \in Nat /\ NumFindable \in 1..EventSlots
  BY DEF DevicesAssumption, F!NvFenceAssumption
<1>2. F!Free(m) \subseteq F!Slots \ m /\ F!Free(m) \subseteq Nat
  BY <1>1 DEF F!Free, F!Slots
<1> QED BY <1>2, LowestIn

LEMMA FenceInit ==
  ASSUME DevicesAssumption, F!Init PROVE F!IInv
BY FenceConstants DEF F!Init, F!IInv, F!TypeOK, F!MaskIsSlots, F!OneEach, F!SlotsTaken,
     F!ArmedFits, F!SignalFits, F!ReachedFirst

LEMMA FenceStart ==
  ASSUME DevicesAssumption, F!IInv, NEW t \in Threads, F!nvFenceWait(t)
  PROVE  F!IInv'
<1>1. /\ F!TypeOK /\ F!MaskIsSlots /\ F!OneEach /\ F!SlotsTaken /\ F!ArmedFits
      /\ F!SignalFits /\ F!ReachedFirst
      /\ F!NoSlot \notin F!Slots /\ NoThread \notin Threads
  BY FenceConstants DEF F!IInv
<1>2. fpc[t] = "idle" /\ slot[t] = F!NoSlot
  BY <1>1 DEF F!nvFenceWait, F!TypeOK, F!SlotsTaken
<1>3. CASE /\ mask' = mask /\ registered' = registered /\ signalled' = signalled /\ armed' = armed
        /\ reached' = reached /\ fpc' = [fpc EXCEPT ![t] = "take"]
        /\ cur' = [cur EXCEPT ![t] = mask] /\ slot' = slot /\ rc' = rc /\ late' = late
  <2>1. F!TypeOK'
    BY <1>1, <1>2, <1>3 DEF F!TypeOK
  <2>2. F!MaskIsSlots'
    BY <1>1, <1>2, <1>3 DEF F!MaskIsSlots
  <2>3. F!OneEach'
    BY <1>1, <1>2, <1>3 DEF F!OneEach, F!TypeOK
  <2>4. F!SlotsTaken'
    BY <1>1, <1>2, <1>3 DEF F!SlotsTaken, F!TypeOK
  <2>5. F!ArmedFits'
    <3>1. ASSUME NEW s \in F!Slots, NEW u \in Threads, armed'[s] = u
          PROVE  /\ s \in registered'
                 /\ s \notin late' =>
                      s \notin signalled' /\ slot'[u] = s /\ fpc'[u] \in {"wait", "cancel"}
      BY <1>1, <1>2, <1>3, <3>1 DEF F!ArmedFits, F!TypeOK
    <3> QED BY <3>1 DEF F!ArmedFits
  <2>6. F!SignalFits'
    BY <1>1, <1>2, <1>3 DEF F!SignalFits, F!TypeOK
  <2>7. F!ReachedFirst'
    BY <1>1, <1>2, <1>3 DEF F!ReachedFirst, F!TypeOK
  <2> QED BY <2>1, <2>2, <2>3, <2>4, <2>5, <2>6, <2>7 DEF F!IInv
<1> QED BY <1>2, <1>3 DEF F!nvFenceWait, F!Goto

LEMMA FenceTake ==
  ASSUME DevicesAssumption, F!IInv, NEW t \in Threads, F!_nvGetEventSlot(t)
  PROVE  F!IInv'
<1> DEFINE found == F!Lowest(F!Free(cur[t]))
<1>0. F!Free(cur[t]) # {} => found \in F!Slots \ cur[t]
  BY FenceFound
<1> HIDE DEF found
<1>1. /\ F!TypeOK /\ F!MaskIsSlots /\ F!OneEach /\ F!SlotsTaken /\ F!ArmedFits
      /\ F!SignalFits /\ F!ReachedFirst
      /\ F!NoSlot \notin F!Slots /\ NoThread \notin Threads
  BY FenceConstants DEF F!IInv
<1>2. fpc[t] = "take" /\ slot[t] = F!NoSlot
  BY <1>1 DEF F!_nvGetEventSlot, F!TypeOK, F!SlotsTaken
<1>3. CASE /\ mask' = mask /\ registered' = registered /\ signalled' = signalled /\ armed' = armed
        /\ reached' = reached \ {t} /\ fpc' = [fpc EXCEPT ![t] = "idle"]
        /\ cur' = [cur EXCEPT ![t] = {}] /\ slot' = slot /\ rc' = [rc EXCEPT ![t] = "none"]
        /\ late' = late
  <2>1. F!TypeOK'
    BY <1>1, <1>2, <1>3 DEF F!TypeOK
  <2>2. F!MaskIsSlots'
    BY <1>1, <1>2, <1>3 DEF F!MaskIsSlots
  <2>3. F!OneEach'
    BY <1>1, <1>2, <1>3 DEF F!OneEach, F!TypeOK
  <2>4. F!SlotsTaken'
    BY <1>1, <1>2, <1>3 DEF F!SlotsTaken, F!TypeOK
  <2>5. F!ArmedFits'
    <3>1. ASSUME NEW s \in F!Slots, NEW u \in Threads, armed'[s] = u
          PROVE  /\ s \in registered'
                 /\ s \notin late' =>
                      s \notin signalled' /\ slot'[u] = s /\ fpc'[u] \in {"wait", "cancel"}
      BY <1>1, <1>2, <1>3, <3>1 DEF F!ArmedFits, F!TypeOK, F!SlotsTaken
    <3> QED BY <3>1 DEF F!ArmedFits
  <2>6. F!SignalFits'
    BY <1>1, <1>2, <1>3 DEF F!SignalFits, F!TypeOK, F!SlotsTaken, F!ArmedFits
  <2>7. F!ReachedFirst'
    BY <1>1, <1>2, <1>3 DEF F!ReachedFirst, F!TypeOK, F!SignalFits
  <2> QED BY <2>1, <2>2, <2>3, <2>4, <2>5, <2>6, <2>7 DEF F!IInv
<1>4. CASE /\ found \in F!Slots \ mask
        /\ mask' = mask \cup {found} /\ registered' = registered /\ signalled' = signalled
        /\ armed' = armed /\ reached' = reached /\ fpc' = [fpc EXCEPT ![t] = "event"]
        /\ cur' = [cur EXCEPT ![t] = {}] /\ slot' = [slot EXCEPT ![t] = found] /\ rc' = rc
        /\ late' = late
  <2>1. F!TypeOK'
    BY <1>1, <1>2, <1>4 DEF F!TypeOK
  <2>2. F!MaskIsSlots'
    BY <1>1, <1>2, <1>4 DEF F!MaskIsSlots, F!TypeOK
  <2>3. F!OneEach'
    BY <1>1, <1>2, <1>4 DEF F!OneEach, F!TypeOK, F!MaskIsSlots
  <2>4. F!SlotsTaken'
    BY <1>1, <1>2, <1>4 DEF F!SlotsTaken, F!TypeOK
  <2>5. F!ArmedFits'
    <3>1. ASSUME NEW s \in F!Slots, NEW u \in Threads, armed'[s] = u
          PROVE  /\ s \in registered'
                 /\ s \notin late' =>
                      s \notin signalled' /\ slot'[u] = s /\ fpc'[u] \in {"wait", "cancel"}
      BY <1>1, <1>2, <1>4, <3>1 DEF F!ArmedFits, F!TypeOK, F!SlotsTaken, F!MaskIsSlots
    <3> QED BY <3>1 DEF F!ArmedFits
  <2>6. F!SignalFits'
    BY <1>1, <1>2, <1>4 DEF F!SignalFits, F!TypeOK, F!SlotsTaken, F!MaskIsSlots, F!ArmedFits
  <2>7. F!ReachedFirst'
    BY <1>1, <1>2, <1>4 DEF F!ReachedFirst, F!TypeOK
  <2> QED BY <2>1, <2>2, <2>3, <2>4, <2>5, <2>6, <2>7 DEF F!IInv
<1>5. CASE /\ mask' = mask /\ registered' = registered /\ signalled' = signalled /\ armed' = armed
        /\ reached' = reached /\ fpc' = fpc /\ cur' = [cur EXCEPT ![t] = mask] /\ slot' = slot
        /\ rc' = rc /\ late' = late
  <2>1. F!TypeOK'
    BY <1>1, <1>2, <1>5 DEF F!TypeOK
  <2>2. F!MaskIsSlots'
    BY <1>1, <1>2, <1>5 DEF F!MaskIsSlots
  <2>3. F!OneEach'
    BY <1>1, <1>2, <1>5 DEF F!OneEach, F!TypeOK
  <2>4. F!SlotsTaken'
    BY <1>1, <1>2, <1>5 DEF F!SlotsTaken, F!TypeOK
  <2>5. F!ArmedFits'
    <3>1. ASSUME NEW s \in F!Slots, NEW u \in Threads, armed'[s] = u
          PROVE  /\ s \in registered'
                 /\ s \notin late' =>
                      s \notin signalled' /\ slot'[u] = s /\ fpc'[u] \in {"wait", "cancel"}
      BY <1>1, <1>2, <1>5, <3>1 DEF F!ArmedFits, F!TypeOK
    <3> QED BY <3>1 DEF F!ArmedFits
  <2>6. F!SignalFits'
    BY <1>1, <1>2, <1>5 DEF F!SignalFits, F!TypeOK
  <2>7. F!ReachedFirst'
    BY <1>1, <1>2, <1>5 DEF F!ReachedFirst, F!TypeOK
  <2> QED BY <2>1, <2>2, <2>3, <2>4, <2>5, <2>6, <2>7 DEF F!IInv
<1> QED BY <1>2, <1>3, <1>4, <1>5, <1>0 DEF F!_nvGetEventSlot, F!Goto, F!Return, F!Stores, found

LEMMA FenceEvent ==
  ASSUME DevicesAssumption, F!IInv, NEW t \in Threads, F!_nvGetEvent(t)
  PROVE  F!IInv'
<1>1. /\ F!TypeOK /\ F!MaskIsSlots /\ F!OneEach /\ F!SlotsTaken /\ F!ArmedFits
      /\ F!SignalFits /\ F!ReachedFirst
      /\ F!NoSlot \notin F!Slots /\ NoThread \notin Threads
  BY FenceConstants DEF F!IInv
<1>2. fpc[t] = "event" /\ slot[t] \in F!Slots
  BY <1>1 DEF F!_nvGetEvent, F!TypeOK, F!SlotsTaken
<1>3. CASE /\ mask' = mask /\ registered' = registered \cup {slot[t]} /\ signalled' = signalled
        /\ armed' = armed /\ reached' = reached /\ fpc' = [fpc EXCEPT ![t] = "arm"] /\ cur' = cur
        /\ slot' = slot /\ rc' = rc /\ late' = late
  <2>1. F!TypeOK'
    BY <1>1, <1>2, <1>3 DEF F!TypeOK
  <2>2. F!MaskIsSlots'
    BY <1>1, <1>2, <1>3 DEF F!MaskIsSlots
  <2>3. F!OneEach'
    BY <1>1, <1>2, <1>3 DEF F!OneEach, F!TypeOK
  <2>4. F!SlotsTaken'
    BY <1>1, <1>2, <1>3 DEF F!SlotsTaken, F!TypeOK
  <2>5. F!ArmedFits'
    <3>1. ASSUME NEW s \in F!Slots, NEW u \in Threads, armed'[s] = u
          PROVE  /\ s \in registered'
                 /\ s \notin late' =>
                      s \notin signalled' /\ slot'[u] = s /\ fpc'[u] \in {"wait", "cancel"}
      BY <1>1, <1>2, <1>3, <3>1 DEF F!ArmedFits, F!TypeOK
    <3> QED BY <3>1 DEF F!ArmedFits
  <2>6. F!SignalFits'
    BY <1>1, <1>2, <1>3 DEF F!SignalFits, F!TypeOK
  <2>7. F!ReachedFirst'
    BY <1>1, <1>2, <1>3 DEF F!ReachedFirst, F!TypeOK
  <2> QED BY <2>1, <2>2, <2>3, <2>4, <2>5, <2>6, <2>7 DEF F!IInv
<1>4. CASE /\ mask' = mask /\ registered' = registered /\ signalled' = signalled /\ armed' = armed
        /\ reached' = reached /\ fpc' = [fpc EXCEPT ![t] = "free"]
        /\ cur' = [cur EXCEPT ![t] = mask] /\ slot' = slot /\ rc' = [rc EXCEPT ![t] = "no memory"]
        /\ late' = late
  <2>1. F!TypeOK'
    BY <1>1, <1>2, <1>4 DEF F!TypeOK
  <2>2. F!MaskIsSlots'
    BY <1>1, <1>2, <1>4 DEF F!MaskIsSlots
  <2>3. F!OneEach'
    BY <1>1, <1>2, <1>4 DEF F!OneEach, F!TypeOK
  <2>4. F!SlotsTaken'
    BY <1>1, <1>2, <1>4 DEF F!SlotsTaken, F!TypeOK
  <2>5. F!ArmedFits'
    <3>1. ASSUME NEW s \in F!Slots, NEW u \in Threads, armed'[s] = u
          PROVE  /\ s \in registered'
                 /\ s \notin late' =>
                      s \notin signalled' /\ slot'[u] = s /\ fpc'[u] \in {"wait", "cancel"}
      BY <1>1, <1>2, <1>4, <3>1 DEF F!ArmedFits, F!TypeOK
    <3> QED BY <3>1 DEF F!ArmedFits
  <2>6. F!SignalFits'
    BY <1>1, <1>2, <1>4 DEF F!SignalFits, F!TypeOK
  <2>7. F!ReachedFirst'
    BY <1>1, <1>2, <1>4 DEF F!ReachedFirst, F!TypeOK
  <2> QED BY <2>1, <2>2, <2>3, <2>4, <2>5, <2>6, <2>7 DEF F!IInv
<1> QED BY <1>2, <1>3, <1>4 DEF F!_nvGetEvent, F!ToFree, F!Goto

LEMMA FenceArm ==
  ASSUME DevicesAssumption, F!IInv, NEW t \in Threads, F!EventWaitAsync(t)
  PROVE  F!IInv'
<1>1. /\ F!TypeOK /\ F!MaskIsSlots /\ F!OneEach /\ F!SlotsTaken /\ F!ArmedFits
      /\ F!SignalFits /\ F!ReachedFirst
      /\ F!NoSlot \notin F!Slots /\ NoThread \notin Threads
  BY FenceConstants DEF F!IInv
<1>2. fpc[t] = "arm" /\ slot[t] \in F!Slots
  BY <1>1 DEF F!EventWaitAsync, F!TypeOK, F!SlotsTaken
<1>3. CASE /\ t \in reached
        /\ mask' = mask /\ registered' = registered /\ signalled' = signalled /\ armed' = armed
        /\ reached' = reached /\ fpc' = [fpc EXCEPT ![t] = "free"]
        /\ cur' = [cur EXCEPT ![t] = mask] /\ slot' = slot /\ rc' = [rc EXCEPT ![t] = "ok"]
        /\ late' = late
  <2>1. F!TypeOK'
    BY <1>1, <1>2, <1>3 DEF F!TypeOK
  <2>2. F!MaskIsSlots'
    BY <1>1, <1>2, <1>3 DEF F!MaskIsSlots
  <2>3. F!OneEach'
    BY <1>1, <1>2, <1>3 DEF F!OneEach, F!TypeOK
  <2>4. F!SlotsTaken'
    BY <1>1, <1>2, <1>3 DEF F!SlotsTaken, F!TypeOK
  <2>5. F!ArmedFits'
    <3>1. ASSUME NEW s \in F!Slots, NEW u \in Threads, armed'[s] = u
          PROVE  /\ s \in registered'
                 /\ s \notin late' =>
                      s \notin signalled' /\ slot'[u] = s /\ fpc'[u] \in {"wait", "cancel"}
      BY <1>1, <1>2, <1>3, <3>1 DEF F!ArmedFits, F!TypeOK
    <3> QED BY <3>1 DEF F!ArmedFits
  <2>6. F!SignalFits'
    BY <1>1, <1>2, <1>3 DEF F!SignalFits, F!TypeOK
  <2>7. F!ReachedFirst'
    BY <1>1, <1>2, <1>3 DEF F!ReachedFirst, F!TypeOK
  <2> QED BY <2>1, <2>2, <2>3, <2>4, <2>5, <2>6, <2>7 DEF F!IInv
<1>4. CASE /\ mask' = mask /\ registered' = registered /\ signalled' = signalled /\ armed' = armed
        /\ reached' = reached /\ fpc' = [fpc EXCEPT ![t] = "free"]
        /\ cur' = [cur EXCEPT ![t] = mask] /\ slot' = slot /\ rc' = [rc EXCEPT ![t] = "error"]
        /\ late' = late
  <2>1. F!TypeOK'
    BY <1>1, <1>2, <1>4 DEF F!TypeOK
  <2>2. F!MaskIsSlots'
    BY <1>1, <1>2, <1>4 DEF F!MaskIsSlots
  <2>3. F!OneEach'
    BY <1>1, <1>2, <1>4 DEF F!OneEach, F!TypeOK
  <2>4. F!SlotsTaken'
    BY <1>1, <1>2, <1>4 DEF F!SlotsTaken, F!TypeOK
  <2>5. F!ArmedFits'
    <3>1. ASSUME NEW s \in F!Slots, NEW u \in Threads, armed'[s] = u
          PROVE  /\ s \in registered'
                 /\ s \notin late' =>
                      s \notin signalled' /\ slot'[u] = s /\ fpc'[u] \in {"wait", "cancel"}
      BY <1>1, <1>2, <1>4, <3>1 DEF F!ArmedFits, F!TypeOK
    <3> QED BY <3>1 DEF F!ArmedFits
  <2>6. F!SignalFits'
    BY <1>1, <1>2, <1>4 DEF F!SignalFits, F!TypeOK
  <2>7. F!ReachedFirst'
    BY <1>1, <1>2, <1>4 DEF F!ReachedFirst, F!TypeOK
  <2> QED BY <2>1, <2>2, <2>3, <2>4, <2>5, <2>6, <2>7 DEF F!IInv
<1>5. CASE /\ t \notin reached
        /\ mask' = mask /\ registered' = registered /\ signalled' = signalled
        /\ armed' = [armed EXCEPT ![slot[t]] = t] /\ reached' = reached
        /\ fpc' = [fpc EXCEPT ![t] = "wait"] /\ cur' = cur /\ slot' = slot /\ rc' = rc
        /\ late' = late
  <2>0. slot[t] \in signalled => slot[t] \in late
    BY <1>1, <1>2 DEF F!SignalFits, F!OneEach
  <2>1. F!TypeOK'
    BY <1>1, <1>2, <1>5 DEF F!TypeOK
  <2>2. F!MaskIsSlots'
    BY <1>1, <1>2, <1>5 DEF F!MaskIsSlots
  <2>3. F!OneEach'
    BY <1>1, <1>2, <1>5 DEF F!OneEach, F!TypeOK
  <2>4. F!SlotsTaken'
    BY <1>1, <1>2, <1>5 DEF F!SlotsTaken, F!TypeOK
  <2>5. F!ArmedFits'
    <3>1. ASSUME NEW s \in F!Slots, NEW u \in Threads, armed'[s] = u
          PROVE  /\ s \in registered'
                 /\ s \notin late' =>
                      s \notin signalled' /\ slot'[u] = s /\ fpc'[u] \in {"wait", "cancel"}
      <4>1. CASE s = slot[t]
        <5>1. u = t /\ slot[t] \in registered /\ fpc'[t] = "wait"
          BY <1>1, <1>2, <1>5, <3>1, <4>1 DEF F!TypeOK, F!SlotsTaken
        <5> QED BY <1>5, <2>0, <4>1, <5>1
      <4>2. CASE s # slot[t]
        <5>1. armed[s] = u
          BY <1>1, <1>5, <3>1, <4>2 DEF F!TypeOK
        <5>2. /\ s \in registered
              /\ s \notin late => s \notin signalled /\ slot[u] = s /\ fpc[u] \in {"wait", "cancel"}
          BY <1>1, <5>1 DEF F!ArmedFits
        <5>3. s \notin late => fpc'[u] = fpc[u]
          BY <1>1, <1>2, <1>5, <4>2, <5>2 DEF F!TypeOK
        <5> QED BY <1>5, <5>2, <5>3
      <4> QED BY <4>1, <4>2
    <3> QED BY <3>1 DEF F!ArmedFits
  <2>6. F!SignalFits'
    BY <1>1, <1>2, <1>5 DEF F!SignalFits, F!TypeOK, F!SlotsTaken, F!OneEach, F!ArmedFits
  <2>7. F!ReachedFirst'
    BY <1>1, <1>2, <1>5 DEF F!ReachedFirst, F!TypeOK
  <2> QED BY <2>1, <2>2, <2>3, <2>4, <2>5, <2>6, <2>7 DEF F!IInv
<1> QED BY <1>2, <1>3, <1>4, <1>5 DEF F!EventWaitAsync, F!ToFree, F!Goto

LEMMA FenceWait ==
  ASSUME DevicesAssumption, F!IInv, NEW t \in Threads, F!_nvFenceEventWaitCommon(t)
  PROVE  F!IInv'
<1>1. /\ F!TypeOK /\ F!MaskIsSlots /\ F!OneEach /\ F!SlotsTaken /\ F!ArmedFits
      /\ F!SignalFits /\ F!ReachedFirst
      /\ F!NoSlot \notin F!Slots /\ NoThread \notin Threads
  BY FenceConstants DEF F!IInv
<1>2. fpc[t] = "wait" /\ slot[t] \in F!Slots
  BY <1>1 DEF F!_nvFenceEventWaitCommon, F!TypeOK, F!SlotsTaken
<1>3. CASE /\ slot[t] \in signalled
        /\ mask' = mask /\ registered' = registered /\ signalled' = signalled \ {slot[t]}
        /\ armed' = armed /\ reached' = reached /\ fpc' = [fpc EXCEPT ![t] = "free"]
        /\ cur' = [cur EXCEPT ![t] = mask] /\ slot' = slot /\ rc' = [rc EXCEPT ![t] = "ok"]
        /\ late' = late
  <2>0. slot[t] \in late \/ t \in reached
    BY <1>1, <1>2, <1>3 DEF F!SignalFits, F!OneEach
  <2>1. F!TypeOK'
    BY <1>1, <1>2, <1>3 DEF F!TypeOK
  <2>2. F!MaskIsSlots'
    BY <1>1, <1>2, <1>3 DEF F!MaskIsSlots
  <2>3. F!OneEach'
    BY <1>1, <1>2, <1>3 DEF F!OneEach, F!TypeOK
  <2>4. F!SlotsTaken'
    BY <1>1, <1>2, <1>3 DEF F!SlotsTaken, F!TypeOK
  <2>5. F!ArmedFits'
    <3>1. ASSUME NEW s \in F!Slots, NEW u \in Threads, armed'[s] = u
          PROVE  /\ s \in registered'
                 /\ s \notin late' =>
                      s \notin signalled' /\ slot'[u] = s /\ fpc'[u] \in {"wait", "cancel"}
      <4>1. armed[s] = u
        BY <1>3, <3>1
      <4>2. /\ s \in registered
            /\ s \notin late => s \notin signalled /\ slot[u] = s /\ fpc[u] \in {"wait", "cancel"}
        BY <1>1, <4>1 DEF F!ArmedFits
      <4>3. s \notin late => u # t
        BY <1>3, <4>2
      <4>4. u # t => fpc'[u] = fpc[u]
        BY <1>1, <1>3 DEF F!TypeOK
      <4> QED BY <1>3, <4>2, <4>3, <4>4
    <3> QED BY <3>1 DEF F!ArmedFits
  <2>6. F!SignalFits'
    BY <1>1, <1>2, <1>3 DEF F!SignalFits, F!TypeOK, F!OneEach, F!ArmedFits
  <2>7. F!ReachedFirst'
    BY <1>1, <1>2, <1>3, <2>0 DEF F!ReachedFirst, F!TypeOK
  <2> QED BY <2>1, <2>2, <2>3, <2>4, <2>5, <2>6, <2>7 DEF F!IInv
<1>4. CASE /\ mask' = mask /\ registered' = registered /\ signalled' = signalled /\ armed' = armed
        /\ reached' = reached /\ fpc' = [fpc EXCEPT ![t] = "cancel"] /\ cur' = cur /\ slot' = slot
        /\ rc' = rc /\ late' = late
  <2>1. F!TypeOK'
    BY <1>1, <1>2, <1>4 DEF F!TypeOK
  <2>2. F!MaskIsSlots'
    BY <1>1, <1>2, <1>4 DEF F!MaskIsSlots
  <2>3. F!OneEach'
    BY <1>1, <1>2, <1>4 DEF F!OneEach, F!TypeOK
  <2>4. F!SlotsTaken'
    BY <1>1, <1>2, <1>4 DEF F!SlotsTaken, F!TypeOK
  <2>5. F!ArmedFits'
    <3>1. ASSUME NEW s \in F!Slots, NEW u \in Threads, armed'[s] = u
          PROVE  /\ s \in registered'
                 /\ s \notin late' =>
                      s \notin signalled' /\ slot'[u] = s /\ fpc'[u] \in {"wait", "cancel"}
      BY <1>1, <1>2, <1>4, <3>1 DEF F!ArmedFits, F!TypeOK
    <3> QED BY <3>1 DEF F!ArmedFits
  <2>6. F!SignalFits'
    BY <1>1, <1>2, <1>4 DEF F!SignalFits, F!TypeOK
  <2>7. F!ReachedFirst'
    BY <1>1, <1>2, <1>4 DEF F!ReachedFirst, F!TypeOK
  <2> QED BY <2>1, <2>2, <2>3, <2>4, <2>5, <2>6, <2>7 DEF F!IInv
<1> QED BY <1>2, <1>3, <1>4 DEF F!_nvFenceEventWaitCommon, F!ToFree, F!Goto

LEMMA FenceCancel ==
  ASSUME DevicesAssumption, F!IInv, NEW t \in Threads, F!EventSignal(t)
  PROVE  F!IInv'
<1>1. /\ F!TypeOK /\ F!MaskIsSlots /\ F!OneEach /\ F!SlotsTaken /\ F!ArmedFits
      /\ F!SignalFits /\ F!ReachedFirst
      /\ F!NoSlot \notin F!Slots /\ NoThread \notin Threads
  BY FenceConstants DEF F!IInv
<1>2. fpc[t] = "cancel" /\ slot[t] \in F!Slots
  BY <1>1 DEF F!EventSignal, F!TypeOK, F!SlotsTaken
<1>3. CASE /\ signalled' \subseteq signalled \cup {slot[t]}
        /\ mask' = mask /\ registered' = registered
        /\ armed' = [armed EXCEPT ![slot[t]] = NoThread] /\ reached' = reached
        /\ fpc' = [fpc EXCEPT ![t] = "free"] /\ cur' = [cur EXCEPT ![t] = mask] /\ slot' = slot
        /\ rc' = [rc EXCEPT ![t] = "timeout"] /\ late' = late \cup {slot[t]}
  <2>1. F!TypeOK'
    BY <1>1, <1>2, <1>3 DEF F!TypeOK, F!SlotsTaken
  <2>2. F!MaskIsSlots'
    BY <1>1, <1>2, <1>3 DEF F!MaskIsSlots
  <2>3. F!OneEach'
    BY <1>1, <1>2, <1>3 DEF F!OneEach, F!TypeOK
  <2>4. F!SlotsTaken'
    BY <1>1, <1>2, <1>3 DEF F!SlotsTaken, F!TypeOK
  <2>5. F!ArmedFits'
    <3>1. ASSUME NEW s \in F!Slots, NEW u \in Threads, armed'[s] = u
          PROVE  /\ s \in registered'
                 /\ s \notin late' =>
                      s \notin signalled' /\ slot'[u] = s /\ fpc'[u] \in {"wait", "cancel"}
      BY <1>1, <1>2, <1>3, <3>1 DEF F!ArmedFits, F!TypeOK
    <3> QED BY <3>1 DEF F!ArmedFits
  <2>6. F!SignalFits'
    BY <1>1, <1>2, <1>3 DEF F!SignalFits, F!TypeOK, F!OneEach
  <2>7. F!ReachedFirst'
    BY <1>1, <1>2, <1>3 DEF F!ReachedFirst, F!TypeOK
  <2> QED BY <2>1, <2>2, <2>3, <2>4, <2>5, <2>6, <2>7 DEF F!IInv
<1> QED BY <1>2, <1>3 DEF F!EventSignal, F!ToFree, F!Goto

LEMMA FenceFree ==
  ASSUME DevicesAssumption, F!IInv, NEW t \in Threads, F!_nvFreeEventSlot(t)
  PROVE  F!IInv'
<1>1. /\ F!TypeOK /\ F!MaskIsSlots /\ F!OneEach /\ F!SlotsTaken /\ F!ArmedFits
      /\ F!SignalFits /\ F!ReachedFirst
      /\ F!NoSlot \notin F!Slots /\ NoThread \notin Threads
  BY FenceConstants DEF F!IInv
<1>2. fpc[t] = "free" /\ slot[t] \in F!Slots
  BY <1>1 DEF F!_nvFreeEventSlot, F!TypeOK, F!SlotsTaken
<1>3. CASE /\ mask' = mask \ {slot[t]} /\ registered' = registered /\ signalled' = signalled
        /\ armed' = armed /\ reached' = reached \ {t} /\ fpc' = [fpc EXCEPT ![t] = "idle"]
        /\ cur' = [cur EXCEPT ![t] = {}] /\ slot' = [slot EXCEPT ![t] = F!NoSlot]
        /\ rc' = [rc EXCEPT ![t] = "none"] /\ late' = late
  <2>1. F!TypeOK'
    BY <1>1, <1>2, <1>3 DEF F!TypeOK
  <2>2. F!MaskIsSlots'
    BY <1>1, <1>2, <1>3 DEF F!MaskIsSlots, F!OneEach, F!TypeOK
  <2>3. F!OneEach'
    BY <1>1, <1>2, <1>3 DEF F!OneEach, F!TypeOK
  <2>4. F!SlotsTaken'
    BY <1>1, <1>2, <1>3 DEF F!SlotsTaken, F!TypeOK
  <2>5. F!ArmedFits'
    <3>1. ASSUME NEW s \in F!Slots, NEW u \in Threads, armed'[s] = u
          PROVE  /\ s \in registered'
                 /\ s \notin late' =>
                      s \notin signalled' /\ slot'[u] = s /\ fpc'[u] \in {"wait", "cancel"}
      BY <1>1, <1>2, <1>3, <3>1 DEF F!ArmedFits, F!TypeOK, F!OneEach
    <3> QED BY <3>1 DEF F!ArmedFits
  <2>6. F!SignalFits'
    BY <1>1, <1>2, <1>3 DEF F!SignalFits, F!TypeOK, F!OneEach, F!ArmedFits
  <2>7. F!ReachedFirst'
    BY <1>1, <1>2, <1>3 DEF F!ReachedFirst, F!TypeOK
  <2> QED BY <2>1, <2>2, <2>3, <2>4, <2>5, <2>6, <2>7 DEF F!IInv
<1>4. CASE /\ mask' = mask /\ registered' = registered /\ signalled' = signalled /\ armed' = armed
        /\ reached' = reached /\ fpc' = fpc /\ cur' = [cur EXCEPT ![t] = mask] /\ slot' = slot
        /\ rc' = rc /\ late' = late
  <2>1. F!TypeOK'
    BY <1>1, <1>2, <1>4 DEF F!TypeOK
  <2>2. F!MaskIsSlots'
    BY <1>1, <1>2, <1>4 DEF F!MaskIsSlots
  <2>3. F!OneEach'
    BY <1>1, <1>2, <1>4 DEF F!OneEach, F!TypeOK
  <2>4. F!SlotsTaken'
    BY <1>1, <1>2, <1>4 DEF F!SlotsTaken, F!TypeOK
  <2>5. F!ArmedFits'
    <3>1. ASSUME NEW s \in F!Slots, NEW u \in Threads, armed'[s] = u
          PROVE  /\ s \in registered'
                 /\ s \notin late' =>
                      s \notin signalled' /\ slot'[u] = s /\ fpc'[u] \in {"wait", "cancel"}
      BY <1>1, <1>2, <1>4, <3>1 DEF F!ArmedFits, F!TypeOK
    <3> QED BY <3>1 DEF F!ArmedFits
  <2>6. F!SignalFits'
    BY <1>1, <1>2, <1>4 DEF F!SignalFits, F!TypeOK
  <2>7. F!ReachedFirst'
    BY <1>1, <1>2, <1>4 DEF F!ReachedFirst, F!TypeOK
  <2> QED BY <2>1, <2>2, <2>3, <2>4, <2>5, <2>6, <2>7 DEF F!IInv
<1> QED BY <1>2, <1>3, <1>4 DEF F!_nvFreeEventSlot, F!Return, F!Stores, F!Goto

LEMMA FenceReach ==
  ASSUME DevicesAssumption, F!IInv, NEW t \in Threads, F!Reach(t)
  PROVE  F!IInv'
<1>1. /\ F!TypeOK /\ F!MaskIsSlots /\ F!OneEach /\ F!SlotsTaken /\ F!ArmedFits
      /\ F!SignalFits /\ F!ReachedFirst
      /\ F!NoSlot \notin F!Slots /\ NoThread \notin Threads
  BY FenceConstants DEF F!IInv
<1>2. fpc[t] \in {"arm", "wait", "cancel"} /\ slot[t] \in F!Slots
  BY <1>1 DEF F!Reach, F!TypeOK, F!SlotsTaken
<1>3. CASE /\ mask' = mask /\ registered' = registered
        /\ signalled' = signalled \cup {s \in F!Slots : armed[s] = t}
        /\ armed' = [s \in F!Slots |-> IF armed[s] = t THEN NoThread ELSE armed[s]]
        /\ reached' = reached \cup {t} /\ fpc' = fpc /\ cur' = cur /\ slot' = slot /\ rc' = rc
        /\ late' = late
  <2>1. F!TypeOK'
    BY <1>1, <1>2, <1>3 DEF F!TypeOK, F!ArmedFits
  <2>2. F!MaskIsSlots'
    BY <1>1, <1>2, <1>3 DEF F!MaskIsSlots
  <2>3. F!OneEach'
    BY <1>1, <1>2, <1>3 DEF F!OneEach, F!TypeOK
  <2>4. F!SlotsTaken'
    BY <1>1, <1>2, <1>3 DEF F!SlotsTaken, F!TypeOK
  <2>5. F!ArmedFits'
    <3>1. ASSUME NEW s \in F!Slots, NEW u \in Threads, armed'[s] = u
          PROVE  /\ s \in registered'
                 /\ s \notin late' =>
                      s \notin signalled' /\ slot'[u] = s /\ fpc'[u] \in {"wait", "cancel"}
      BY <1>1, <1>2, <1>3, <3>1 DEF F!ArmedFits, F!TypeOK
    <3> QED BY <3>1 DEF F!ArmedFits
  <2>6. F!SignalFits'
    BY <1>1, <1>2, <1>3 DEF F!SignalFits, F!TypeOK, F!ArmedFits
  <2>7. F!ReachedFirst'
    BY <1>1, <1>2, <1>3 DEF F!ReachedFirst, F!TypeOK
  <2> QED BY <2>1, <2>2, <2>3, <2>4, <2>5, <2>6, <2>7 DEF F!IInv
<1> QED BY <1>2, <1>3 DEF F!Reach, F!Goto

LEMMA FenceExit ==
  ASSUME DevicesAssumption, F!IInv, F!nvFenceExit
  PROVE  F!IInv'
<1>1. /\ F!TypeOK /\ F!MaskIsSlots /\ F!OneEach /\ F!SlotsTaken /\ F!ArmedFits
      /\ F!SignalFits /\ F!ReachedFirst
      /\ F!NoSlot \notin F!Slots /\ NoThread \notin Threads
  BY FenceConstants DEF F!IInv
<1>2. \A t \in Threads : fpc[t] = "idle"
  BY DEF F!nvFenceExit
<1>3. CASE /\ mask' = mask /\ registered' = {} /\ signalled' = {}
        /\ armed' = [s \in F!Slots |-> NoThread] /\ reached' = reached /\ fpc' = fpc /\ cur' = cur
        /\ slot' = slot /\ rc' = rc /\ late' = {}
  <2>1. F!TypeOK'
    BY <1>1, <1>2, <1>3 DEF F!TypeOK
  <2>2. F!MaskIsSlots'
    BY <1>1, <1>2, <1>3 DEF F!MaskIsSlots
  <2>3. F!OneEach'
    BY <1>1, <1>2, <1>3 DEF F!OneEach, F!TypeOK
  <2>4. F!SlotsTaken'
    BY <1>1, <1>2, <1>3 DEF F!SlotsTaken, F!TypeOK
  <2>5. F!ArmedFits'
    <3>1. ASSUME NEW s \in F!Slots, NEW u \in Threads, armed'[s] = u
          PROVE  /\ s \in registered'
                 /\ s \notin late' =>
                      s \notin signalled' /\ slot'[u] = s /\ fpc'[u] \in {"wait", "cancel"}
      BY <1>1, <1>2, <1>3, <3>1 DEF F!ArmedFits, F!TypeOK
    <3> QED BY <3>1 DEF F!ArmedFits
  <2>6. F!SignalFits'
    BY <1>1, <1>2, <1>3 DEF F!SignalFits, F!TypeOK
  <2>7. F!ReachedFirst'
    BY <1>1, <1>2, <1>3 DEF F!ReachedFirst, F!TypeOK
  <2> QED BY <2>1, <2>2, <2>3, <2>4, <2>5, <2>6, <2>7 DEF F!IInv
<1> QED BY <1>2, <1>3 DEF F!nvFenceExit

LEMMA FenceStep ==
  ASSUME DevicesAssumption, F!IInv, F!Next PROVE F!IInv'
BY FenceStart, FenceTake, FenceEvent, FenceArm, FenceWait, FenceCancel, FenceFree, FenceReach,
   FenceExit DEF F!Next

LEMMA FenceOwn ==
  ASSUME DevicesAssumption, F!IInv PROVE F!OwnFence
<1>1. F!TypeOK /\ F!MaskIsSlots /\ F!OneEach /\ F!SlotsTaken /\ F!ReachedFirst /\ F!NoSlot \notin F!Slots
  BY FenceConstants DEF F!IInv
<1>2. mask = {slot[t] : t \in Threads} \ {F!NoSlot}
  <2>1. ASSUME NEW s \in F!Slots PROVE s \in mask <=> s \in {slot[t] : t \in Threads}
    BY <1>1 DEF F!MaskIsSlots
  <2>2. mask \subseteq F!Slots /\ {slot[t] : t \in Threads} \ {F!NoSlot} \subseteq F!Slots
    BY <1>1 DEF F!TypeOK
  <2>3. \A s \in F!Slots : s # F!NoSlot
    BY <1>1
  <2> QED BY <2>1, <2>2, <2>3
<1> QED BY <1>1, <1>2 DEF F!OwnFence, F!OneEach, F!SlotsTaken, F!ReachedFirst

-----------------------------------------------------------------------------
(* UsbComms: a user keeps the lock of its direction while it is inside;    *)
(* one controller leaves all or nothing.                                   *)

LEMMA UsbConstants ==
  ASSUME DevicesAssumption
  PROVE  /\ NoThread \notin U!Callers /\ NumInterfaces \in Nat \ {0}
         /\ \A t \in U!Callers : t # NoThread
BY DEF DevicesAssumption, U!UsbCommsAssumption, U!Callers

LEMMA UsbInit ==
  ASSUME DevicesAssumption, U!Init PROVE U!IInv
<1>1. \A t \in U!Callers : upc[t] = "idle"
  BY DEF U!Init
<1>2. U!TypeOK
  <2>1. 0 \in 0..NumInterfaces /\ "in" \in U!Directions
    BY UsbConstants DEF U!Directions
  <2>2. intf \in [U!Interfaces -> {U!Gone, U!Full} \cup U!Halfway]
    BY DEF U!Init
  <2>3. dirLock \in [U!Interfaces -> [U!Directions -> U!Callers \cup {NoThread}]]
    BY DEF U!Init
  <2>4. /\ upc \in [U!Callers -> U!Working \cup U!Inside \cup {"idle", "enter", "failed"}]
        /\ at \in [U!Callers -> 0..NumInterfaces] /\ want \in [U!Callers -> 0..NumInterfaces]
        /\ dir \in [U!Callers -> U!Directions] /\ attempt \in [U!Callers -> 1..2]
    BY <2>1 DEF U!Init
  <2> QED BY <2>2, <2>3, <2>4 DEF U!Init, U!TypeOK
<1>3. U!LocksHeld /\ U!TransferKeepsBuffer
  BY <1>1 DEF U!LocksHeld, U!TransferKeepsBuffer, U!Inside, U!Callers
<1>4. U!HowFar
  <2>1. \A c \in Controllers : upc[c] = "idle"
    BY <1>1 DEF U!Callers
  <2> QED BY <2>1, UsbConstants DEF U!Init, U!HowFar, U!Progress, U!Failed, U!Whole, U!Working, U!Callers
<1> QED BY <1>2, <1>3, <1>4 DEF U!IInv

LEMMA UsbShapes ==
  ASSUME NEW x \in {U!Gone, U!Full} \cup U!Halfway
  PROVE  x.endpoints \subseteq x.buffers /\ (~x.initialized => x = U!Gone)
<1>1. CASE x \in U!Halfway
  <2>1. CASE x \in [initialized : {TRUE}, buffers : {{}, {"in"}}, endpoints : {{}}]
    BY <2>1
  <2>2. CASE x \in [initialized : {TRUE}, buffers : {U!Directions},
                    endpoints : {{}, {"in"}, U!Directions}]
    BY <2>2 DEF U!Directions
  <2> QED BY <1>1, <2>1, <2>2 DEF U!Halfway
<1>2. CASE x \in {U!Gone, U!Full}
  BY <1>2 DEF U!Gone, U!Full
<1> QED BY <1>1, <1>2

(* What others do leaves what a controller has done as it is.              *)
LEMMA UsbOthers ==
  ASSUME U!HowFar, gLock' = gLock, ds' = ds, initialized' = initialized, intf' = intf,
         want' = want, NEW t, upc[t] \notin U!Working, upc'[t] \notin U!Working,
         \A c \in Controllers : c # t => upc'[c] = upc[c] /\ at'[c] = at[c]
  PROVE  U!HowFar'
<1>1. SUFFICES ASSUME NEW c \in Controllers, Controllers = {c}
               PROVE  U!Progress(c)'
  BY DEF U!HowFar
<1>2. U!Progress(c)
  BY <1>1 DEF U!HowFar
<1>3. CASE c # t
  BY <1>2, <1>3 DEF U!Progress, U!Whole, U!Failed, U!LeftBehind, U!Freeing, U!Last
<1>4. CASE c = t
  BY <1>2, <1>4 DEF U!Progress, U!Whole, U!Failed, U!Working
<1> QED BY <1>3, <1>4

LEMMA UsbOpen ==
  ASSUME DevicesAssumption, U!IInv, NEW c \in Controllers, NEW n \in 1..NumInterfaces,
         U!usbCommsInitializeEx(c, n)
  PROVE  U!IInv'
<1>1. /\ U!TypeOK /\ U!LocksHeld /\ U!TransferKeepsBuffer /\ U!HowFar
      /\ c \in U!Callers /\ Users \subseteq U!Callers /\ Controllers \subseteq U!Callers
  BY DEF U!IInv, U!Callers
<1>2. /\ upc[c] = "idle" /\ gLock = NoThread /\ initialized = FALSE /\ ds' = ds
      /\ initialized' = initialized /\ intf' = intf /\ lock' = lock /\ dirLock' = dirLock
      /\ at' = at /\ dir' = dir /\ attempt' = attempt /\ configured' = configured
      /\ crashed' = crashed
  BY <1>1 DEF U!usbCommsInitializeEx, U!transfer, U!device, U!TypeOK, U!LocksHeld, U!Inside, U!Goto
<1>3. CASE /\ gLock' = c /\ upc' = [upc EXCEPT ![c] = "open"] /\ want' = [want EXCEPT ![c] = n]
  <2>1. U!TypeOK'
    BY <1>1, <1>2, <1>3, UsbConstants DEF U!TypeOK, U!Inside, U!Working
  <2>2. U!LocksHeld'
    BY <1>1, <1>2, <1>3, UsbConstants DEF U!LocksHeld, U!TypeOK, U!Inside
  <2>3. U!TransferKeepsBuffer'
    BY <1>1, <1>2, <1>3, UsbConstants DEF U!TransferKeepsBuffer, U!TypeOK, U!Inside
  <2>4. U!HowFar'
    <3>1. ASSUME Controllers = {c} PROVE U!Progress(c)
      BY <1>1, <3>1 DEF U!HowFar
    <3>2. ASSUME Controllers = {c} PROVE U!Progress(c)'
      BY <1>1, <1>2, <1>3, <3>1, <3>2, UsbConstants
         DEF U!Progress, U!Whole, U!Failed, U!TypeOK, U!Working
    <3> QED BY <3>2 DEF U!HowFar
  <2> QED BY <2>1, <2>2, <2>3, <2>4 DEF U!IInv
<1> QED BY <1>1, <1>2, <1>3 DEF U!usbCommsInitializeEx, U!transfer, U!device, U!Goto

LEMMA UsbSession ==
  ASSUME DevicesAssumption, U!IInv, NEW c \in Controllers, U!OpenSession(c)
  PROVE  U!IInv'
<1>1. /\ U!TypeOK /\ U!LocksHeld /\ U!TransferKeepsBuffer /\ U!HowFar
      /\ c \in U!Callers /\ Users \subseteq U!Callers /\ Controllers \subseteq U!Callers
  BY DEF U!IInv, U!Callers
<1>2. /\ upc[c] = "open" /\ initialized' = initialized /\ intf' = intf /\ gLock' = gLock
      /\ lock' = lock /\ dirLock' = dirLock /\ want' = want /\ dir' = dir /\ attempt' = attempt
      /\ configured' = configured /\ crashed' = crashed
  BY <1>1 DEF U!OpenSession, U!transfer, U!device, U!TypeOK, U!LocksHeld, U!Inside, U!Goto
<1>3. CASE /\ ds' = TRUE /\ upc' = [upc EXCEPT ![c] = "lock"] /\ at' = [at EXCEPT ![c] = 0]
  <2>1. U!TypeOK'
    BY <1>1, <1>2, <1>3, UsbConstants DEF U!TypeOK, U!Inside, U!Working
  <2>2. U!LocksHeld'
    BY <1>1, <1>2, <1>3, UsbConstants DEF U!LocksHeld, U!TypeOK, U!Inside
  <2>3. U!TransferKeepsBuffer'
    BY <1>1, <1>2, <1>3, UsbConstants DEF U!TransferKeepsBuffer, U!TypeOK, U!Inside
  <2>4. U!HowFar'
    <3>1. ASSUME Controllers = {c} PROVE U!Progress(c)
      BY <1>1, <3>1 DEF U!HowFar
    <3>2. ASSUME Controllers = {c} PROVE U!Progress(c)'
      BY <1>1, <1>2, <1>3, <3>1, <3>2, UsbConstants
         DEF U!Progress, U!Whole, U!Failed, U!TypeOK, U!Working, U!Freeing, U!Last, U!Interfaces
    <3> QED BY <3>2 DEF U!HowFar
  <2> QED BY <2>1, <2>2, <2>3, <2>4 DEF U!IInv
<1>4. CASE /\ ds' \in BOOLEAN /\ upc' = [upc EXCEPT ![c] = "exit"] /\ at' = at
  <2>1. U!TypeOK'
    BY <1>1, <1>2, <1>4, UsbConstants DEF U!TypeOK, U!Inside, U!Working
  <2>2. U!LocksHeld'
    BY <1>1, <1>2, <1>4, UsbConstants DEF U!LocksHeld, U!TypeOK, U!Inside
  <2>3. U!TransferKeepsBuffer'
    BY <1>1, <1>2, <1>4, UsbConstants DEF U!TransferKeepsBuffer, U!TypeOK, U!Inside
  <2>4. U!HowFar'
    <3>1. ASSUME Controllers = {c} PROVE U!Progress(c)
      BY <1>1, <3>1 DEF U!HowFar
    <3>2. ASSUME Controllers = {c} PROVE U!Progress(c)'
      <4>1. U!LeftBehind(c)'
        <5>1. ~initialized /\ \A i \in U!Interfaces : intf[i] = U!Gone
          BY <1>2, <3>1, <3>2 DEF U!Progress
        <5>2. 0 \in 0..want[c]
          BY <1>1 DEF U!TypeOK
        <5> QED BY <1>2, <5>1, <5>2, UsbConstants DEF U!LeftBehind, U!Interfaces
      <4> QED BY <1>1, <1>2, <1>4, <3>1, <3>2, <4>1, UsbConstants
              DEF U!Progress, U!Whole, U!Failed, U!TypeOK, U!Working
    <3> QED BY <3>2 DEF U!HowFar
  <2> QED BY <2>1, <2>2, <2>3, <2>4 DEF U!IInv
<1> QED BY <1>1, <1>2, <1>3, <1>4 DEF U!OpenSession, U!transfer, U!device, U!Goto

LEMMA UsbLock ==
  ASSUME DevicesAssumption, U!IInv, NEW c \in Controllers, U!LockInterface(c)
  PROVE  U!IInv'
<1>1. /\ U!TypeOK /\ U!LocksHeld /\ U!TransferKeepsBuffer /\ U!HowFar
      /\ c \in U!Callers /\ Users \subseteq U!Callers /\ Controllers \subseteq U!Callers
  BY DEF U!IInv, U!Callers
<1>2. /\ upc[c] = "lock" /\ at[c] < U!Last(c) /\ ds' = ds /\ initialized' = initialized
      /\ intf' = intf /\ gLock' = gLock /\ dirLock' = dirLock /\ want' = want /\ dir' = dir
      /\ attempt' = attempt /\ configured' = configured /\ crashed' = crashed
  BY <1>1 DEF U!LockInterface, U!transfer, U!device, U!TypeOK, U!LocksHeld, U!Inside, U!Goto, U!GoOn
<1>0. at[c] \in U!Interfaces
  BY <1>1, <1>2, UsbConstants DEF U!TypeOK, U!Freeing, U!Last, U!Interfaces
<1>3. CASE /\ U!Freeing(c) /\ ~intf[at[c]].initialized /\ upc' = [upc EXCEPT ![c] = "lock"]
           /\ at' = [at EXCEPT ![c] = at[c] + 1] /\ lock' = lock
  <2>0. intf[at[c]] = U!Gone
    BY <1>0, <1>1, <1>3, UsbShapes DEF U!TypeOK
  <2>1. U!TypeOK'
    BY <1>1, <1>2, <1>3, <1>0, UsbConstants DEF U!TypeOK, U!Inside, U!Working, U!Interfaces
  <2>2. U!LocksHeld'
    BY <1>1, <1>2, <1>3, <1>0, UsbConstants DEF U!LocksHeld, U!TypeOK, U!Inside
  <2>3. U!TransferKeepsBuffer'
    BY <1>1, <1>2, <1>3, <1>0, UsbConstants DEF U!TransferKeepsBuffer, U!TypeOK, U!Inside
  <2>4. U!HowFar'
    <3>1. ASSUME Controllers = {c} PROVE U!Progress(c)
      BY <1>1, <3>1 DEF U!HowFar
    <3>2. ASSUME Controllers = {c} PROVE U!Progress(c)'
      BY <1>1, <1>2, <1>3, <3>1, <3>2, <1>0, UsbConstants, <2>0
         DEF U!Progress, U!Whole, U!Failed, U!TypeOK, U!Working, U!Freeing, U!Last, U!Interfaces
    <3> QED BY <3>2 DEF U!HowFar
  <2> QED BY <2>1, <2>2, <2>3, <2>4 DEF U!IInv
<1>4. CASE /\ lock[at[c]] = NoThread /\ lock' = [lock EXCEPT ![at[c]] = c]
           /\ upc' = [upc EXCEPT ![c] = "lock_in"] /\ at' = at
  <2>1. U!TypeOK'
    BY <1>1, <1>2, <1>4, <1>0, UsbConstants DEF U!TypeOK, U!Inside, U!Working
  <2>2. U!LocksHeld'
    BY <1>1, <1>2, <1>4, <1>0, UsbConstants DEF U!LocksHeld, U!TypeOK, U!Inside
  <2>3. U!TransferKeepsBuffer'
    BY <1>1, <1>2, <1>4, <1>0, UsbConstants DEF U!TransferKeepsBuffer, U!TypeOK, U!Inside
  <2>4. U!HowFar'
    <3>1. ASSUME Controllers = {c} PROVE U!Progress(c)
      BY <1>1, <3>1 DEF U!HowFar
    <3>2. ASSUME Controllers = {c} PROVE U!Progress(c)'
      BY <1>1, <1>2, <1>4, <3>1, <3>2, <1>0, UsbConstants
         DEF U!Progress, U!Whole, U!Failed, U!TypeOK, U!Working, U!Freeing, U!Last, U!Interfaces
    <3> QED BY <3>2 DEF U!HowFar
  <2> QED BY <2>1, <2>2, <2>3, <2>4 DEF U!IInv
<1> QED BY <1>1, <1>2, <1>3, <1>4 DEF U!LockInterface, U!transfer, U!device, U!Goto, U!GoOn

LEMMA UsbLockIn ==
  ASSUME DevicesAssumption, U!IInv, NEW c \in Controllers, U!LockIn(c)
  PROVE  U!IInv'
<1>1. /\ U!TypeOK /\ U!LocksHeld /\ U!TransferKeepsBuffer /\ U!HowFar
      /\ c \in U!Callers /\ Users \subseteq U!Callers /\ Controllers \subseteq U!Callers
  BY DEF U!IInv, U!Callers
<1>2. /\ upc[c] = "lock_in" /\ at[c] \in U!Interfaces /\ dirLock[at[c]]["in"] = NoThread
      /\ ds' = ds /\ initialized' = initialized /\ intf' = intf /\ gLock' = gLock /\ lock' = lock
      /\ at' = at /\ want' = want /\ dir' = dir /\ attempt' = attempt /\ configured' = configured
      /\ crashed' = crashed
  BY <1>1 DEF U!LockIn, U!transfer, U!device, U!TypeOK, U!LocksHeld, U!Inside, U!Goto
<1>3. CASE /\ dirLock' = [dirLock EXCEPT ![at[c]]["in"] = c] /\ upc' = [upc EXCEPT ![c] = "lock_out"]
  <2>1. U!TypeOK'
    BY <1>1, <1>2, <1>3, UsbConstants DEF U!TypeOK, U!Inside, U!Working, U!Directions
  <2>2. U!LocksHeld'
    BY <1>1, <1>2, <1>3, UsbConstants DEF U!LocksHeld, U!TypeOK, U!Inside, U!Directions
  <2>3. U!TransferKeepsBuffer'
    BY <1>1, <1>2, <1>3, UsbConstants DEF U!TransferKeepsBuffer, U!TypeOK, U!Inside
  <2>4. U!HowFar'
    <3>1. ASSUME Controllers = {c} PROVE U!Progress(c)
      BY <1>1, <3>1 DEF U!HowFar
    <3>2. ASSUME Controllers = {c} PROVE U!Progress(c)'
      BY <1>1, <1>2, <1>3, <3>1, <3>2, UsbConstants
         DEF U!Progress, U!Whole, U!Failed, U!TypeOK, U!Working, U!Freeing, U!Last
    <3> QED BY <3>2 DEF U!HowFar
  <2> QED BY <2>1, <2>2, <2>3, <2>4 DEF U!IInv
<1> QED BY <1>1, <1>2, <1>3 DEF U!LockIn, U!transfer, U!device, U!Goto

LEMMA UsbInitialized ==
  ASSUME DevicesAssumption, U!IInv, NEW c \in Controllers, U!Initialized(c)
  PROVE  U!IInv'
<1>1. /\ U!TypeOK /\ U!LocksHeld /\ U!TransferKeepsBuffer /\ U!HowFar
      /\ c \in U!Callers /\ Users \subseteq U!Callers /\ Controllers \subseteq U!Callers
  BY DEF U!IInv, U!Callers
<1>2. /\ upc[c] = "lock" /\ at[c] = want[c] /\ gLock = c /\ ds' = ds /\ intf' = intf
      /\ lock' = lock /\ dirLock' = dirLock /\ at' = at /\ want' = want /\ dir' = dir
      /\ attempt' = attempt /\ configured' = configured /\ crashed' = crashed
  BY <1>1 DEF U!Initialized, U!transfer, U!device, U!TypeOK, U!LocksHeld, U!Inside, U!Goto, U!Freeing, U!Last
<1>3. CASE /\ initialized' = TRUE /\ gLock' = NoThread /\ upc' = [upc EXCEPT ![c] = "idle"]
  <2>1. U!TypeOK'
    BY <1>1, <1>2, <1>3, UsbConstants DEF U!TypeOK, U!Inside
  <2>2. U!LocksHeld'
    BY <1>1, <1>2, <1>3, UsbConstants DEF U!LocksHeld, U!TypeOK, U!Inside
  <2>3. U!TransferKeepsBuffer'
    BY <1>1, <1>2, <1>3, UsbConstants DEF U!TransferKeepsBuffer, U!TypeOK, U!Inside
  <2>4. U!HowFar'
    <3>1. ASSUME Controllers = {c} PROVE U!Progress(c)
      BY <1>1, <3>1 DEF U!HowFar
    <3>2. ASSUME Controllers = {c} PROVE U!Progress(c)'
      BY <1>1, <1>2, <1>3, <3>1, <3>2, UsbConstants
         DEF U!Progress, U!Whole, U!Failed, U!TypeOK, U!Working, U!Freeing, U!Last
    <3> QED BY <3>2 DEF U!HowFar
  <2> QED BY <2>1, <2>2, <2>3, <2>4 DEF U!IInv
<1>4. CASE /\ upc' = [upc EXCEPT ![c] = "exit"] /\ initialized' = initialized /\ gLock' = gLock
  <2>1. U!TypeOK'
    BY <1>1, <1>2, <1>4, UsbConstants DEF U!TypeOK, U!Inside, U!Working
  <2>2. U!LocksHeld'
    BY <1>1, <1>2, <1>4, UsbConstants DEF U!LocksHeld, U!TypeOK, U!Inside
  <2>3. U!TransferKeepsBuffer'
    BY <1>1, <1>2, <1>4, UsbConstants DEF U!TransferKeepsBuffer, U!TypeOK, U!Inside
  <2>4. U!HowFar'
    <3>1. ASSUME Controllers = {c} PROVE U!Progress(c)
      BY <1>1, <3>1 DEF U!HowFar
    <3>2. ASSUME Controllers = {c} PROVE U!Progress(c)'
      <4>1. U!LeftBehind(c)'
        <5>1. /\ ~initialized /\ ds
              /\ \A i \in U!Interfaces : intf[i] = IF i < want[c] THEN U!Full ELSE U!Gone
          BY <1>2, <3>1, <3>2, UsbConstants DEF U!Progress, U!Freeing
        <5>2. want[c] \in 0..want[c] /\ want[c] \in Nat
          BY <1>1 DEF U!TypeOK
        <5> QED BY <1>2, <1>4, <5>1, <5>2, UsbConstants DEF U!LeftBehind, U!Interfaces
      <4> QED BY <1>1, <1>2, <1>4, <3>1, <3>2, <4>1, UsbConstants
              DEF U!Progress, U!Whole, U!Failed, U!TypeOK, U!Working
    <3> QED BY <3>2 DEF U!HowFar
  <2> QED BY <2>1, <2>2, <2>3, <2>4 DEF U!IInv
<1> QED BY <1>1, <1>2, <1>3, <1>4 DEF U!Initialized, U!transfer, U!device, U!Goto, U!Freeing, U!Last

LEMMA UsbExit ==
  ASSUME DevicesAssumption, U!IInv, NEW c \in Controllers, U!usbCommsExit(c)
  PROVE  U!IInv'
<1>1. /\ U!TypeOK /\ U!LocksHeld /\ U!TransferKeepsBuffer /\ U!HowFar
      /\ c \in U!Callers /\ Users \subseteq U!Callers /\ Controllers \subseteq U!Callers
  BY DEF U!IInv, U!Callers
<1>2. /\ upc[c] = "idle" /\ ds' = ds /\ initialized' = initialized /\ intf' = intf
      /\ gLock' = gLock /\ lock' = lock /\ dirLock' = dirLock /\ at' = at /\ want' = want
      /\ dir' = dir /\ attempt' = attempt /\ configured' = configured /\ crashed' = crashed
  BY <1>1 DEF U!usbCommsExit, U!transfer, U!device, U!TypeOK, U!LocksHeld, U!Inside, U!Goto
<1>3. CASE /\ upc' = [upc EXCEPT ![c] = "exit"]
  <2>1. U!TypeOK'
    BY <1>1, <1>2, <1>3, UsbConstants DEF U!TypeOK, U!Inside, U!Working
  <2>2. U!LocksHeld'
    BY <1>1, <1>2, <1>3, UsbConstants DEF U!LocksHeld, U!TypeOK, U!Inside
  <2>3. U!TransferKeepsBuffer'
    BY <1>1, <1>2, <1>3, UsbConstants DEF U!TransferKeepsBuffer, U!TypeOK, U!Inside
  <2>4. U!HowFar'
    <3>1. ASSUME Controllers = {c} PROVE U!Progress(c)
      BY <1>1, <3>1 DEF U!HowFar
    <3>2. ASSUME Controllers = {c} PROVE U!Progress(c)'
      BY <1>1, <1>2, <1>3, <3>1, <3>2, UsbConstants
         DEF U!Progress, U!Whole, U!Failed, U!TypeOK, U!Working
    <3> QED BY <3>2 DEF U!HowFar
  <2> QED BY <2>1, <2>2, <2>3, <2>4 DEF U!IInv
<1> QED BY <1>1, <1>2, <1>3 DEF U!usbCommsExit, U!transfer, U!device, U!Goto

LEMMA UsbClose ==
  ASSUME DevicesAssumption, U!IInv, NEW c \in Controllers, U!CloseSession(c)
  PROVE  U!IInv'
<1>1. /\ U!TypeOK /\ U!LocksHeld /\ U!TransferKeepsBuffer /\ U!HowFar
      /\ c \in U!Callers /\ Users \subseteq U!Callers /\ Controllers \subseteq U!Callers
  BY DEF U!IInv, U!Callers
<1>2. /\ upc[c] = "exit" /\ gLock = NoThread /\ intf' = intf /\ gLock' = gLock /\ lock' = lock
      /\ dirLock' = dirLock /\ want' = want /\ dir' = dir /\ attempt' = attempt
      /\ configured' = configured /\ crashed' = crashed
  BY <1>1 DEF U!CloseSession, U!transfer, U!device, U!TypeOK, U!LocksHeld, U!Inside, U!Goto
<1>3. CASE /\ ds' = FALSE /\ initialized' = FALSE /\ upc' = [upc EXCEPT ![c] = "lock"]
           /\ at' = [at EXCEPT ![c] = 0]
  <2>1. U!TypeOK'
    <3>1. at' \in [U!Callers -> 0..NumInterfaces]
      BY <1>1, <1>3, UsbConstants DEF U!TypeOK
    <3> QED BY <1>1, <1>2, <1>3, <3>1 DEF U!TypeOK, U!Working
  <2>2. U!LocksHeld'
    BY <1>1, <1>2, <1>3, UsbConstants DEF U!LocksHeld, U!TypeOK, U!Inside
  <2>3. U!TransferKeepsBuffer'
    BY <1>1, <1>2, <1>3, UsbConstants DEF U!TransferKeepsBuffer, U!TypeOK, U!Inside
  <2>4. U!HowFar'
    <3>1. ASSUME Controllers = {c} PROVE U!Progress(c)
      BY <1>1, <3>1 DEF U!HowFar
    <3>2. ASSUME Controllers = {c} PROVE U!Progress(c)'
      BY <1>1, <1>2, <1>3, <3>1, <3>2, UsbConstants
         DEF U!Progress, U!Whole, U!Failed, U!TypeOK, U!Working, U!Freeing, U!Last, U!Interfaces
    <3> QED BY <3>2 DEF U!HowFar
  <2> QED BY <2>1, <2>2, <2>3, <2>4 DEF U!IInv
<1> QED BY <1>1, <1>2, <1>3 DEF U!CloseSession, U!transfer, U!device, U!Goto

LEMMA UsbExited ==
  ASSUME DevicesAssumption, U!IInv, NEW c \in Controllers, U!Exited(c)
  PROVE  U!IInv'
<1>1. /\ U!TypeOK /\ U!LocksHeld /\ U!TransferKeepsBuffer /\ U!HowFar
      /\ c \in U!Callers /\ Users \subseteq U!Callers /\ Controllers \subseteq U!Callers
  BY DEF U!IInv, U!Callers
<1>2. /\ upc[c] = "lock" /\ at[c] = NumInterfaces /\ gLock # c /\ ds' = ds
      /\ initialized' = initialized /\ intf' = intf /\ gLock' = gLock /\ lock' = lock
      /\ dirLock' = dirLock /\ at' = at /\ want' = want /\ dir' = dir /\ attempt' = attempt
      /\ configured' = configured /\ crashed' = crashed
  BY <1>1 DEF U!Exited, U!transfer, U!device, U!TypeOK, U!LocksHeld, U!Inside, U!Goto, U!Freeing, U!Last
<1>3. CASE /\ upc' = [upc EXCEPT ![c] = "idle"]
  <2>1. U!TypeOK'
    BY <1>1, <1>2, <1>3, UsbConstants DEF U!TypeOK, U!Inside
  <2>2. U!LocksHeld'
    BY <1>1, <1>2, <1>3, UsbConstants DEF U!LocksHeld, U!TypeOK, U!Inside
  <2>3. U!TransferKeepsBuffer'
    BY <1>1, <1>2, <1>3, UsbConstants DEF U!TransferKeepsBuffer, U!TypeOK, U!Inside
  <2>4. U!HowFar'
    <3>1. ASSUME Controllers = {c} PROVE U!Progress(c)
      BY <1>1, <3>1 DEF U!HowFar
    <3>2. ASSUME Controllers = {c} PROVE U!Progress(c)'
      BY <1>1, <1>2, <1>3, <3>1, <3>2, UsbConstants
         DEF U!Progress, U!Whole, U!Failed, U!TypeOK, U!Working, U!Freeing, U!Last, U!Interfaces
    <3> QED BY <3>2 DEF U!HowFar
  <2> QED BY <2>1, <2>2, <2>3, <2>4 DEF U!IInv
<1> QED BY <1>1, <1>2, <1>3 DEF U!Exited, U!transfer, U!device, U!Goto, U!Freeing, U!Last

LEMMA UsbTransfer ==
  ASSUME DevicesAssumption, U!IInv, NEW t \in Users, NEW i \in U!Interfaces, NEW d \in U!Directions,
         U!usbCommsTransfer(t, i, d)
  PROVE  U!IInv'
<1>1. /\ U!TypeOK /\ U!LocksHeld /\ U!TransferKeepsBuffer /\ U!HowFar
      /\ t \in U!Callers /\ Users \subseteq U!Callers /\ Controllers \subseteq U!Callers
  BY DEF U!IInv, U!Callers
<1>2. /\ upc[t] = "idle" /\ ds' = ds /\ initialized' = initialized /\ intf' = intf
      /\ gLock' = gLock /\ lock' = lock /\ dirLock' = dirLock /\ want' = want
      /\ configured' = configured /\ crashed' = crashed
  BY <1>1 DEF U!usbCommsTransfer, U!transfer, U!device, U!TypeOK, U!LocksHeld, U!Inside, U!Goto, U!Leave
<1>3. CASE /\ upc' = [upc EXCEPT ![t] = "enter"] /\ at' = [at EXCEPT ![t] = i]
           /\ dir' = [dir EXCEPT ![t] = d] /\ attempt' = [attempt EXCEPT ![t] = 1]
  <2>1. U!TypeOK'
    BY <1>1, <1>2, <1>3, UsbConstants DEF U!TypeOK, U!Inside, U!Interfaces
  <2>2. U!LocksHeld'
    BY <1>1, <1>2, <1>3, UsbConstants DEF U!LocksHeld, U!TypeOK, U!Inside
  <2>3. U!TransferKeepsBuffer'
    BY <1>1, <1>2, <1>3, UsbConstants DEF U!TransferKeepsBuffer, U!TypeOK, U!Inside
  <2>4. U!HowFar'
    <3>1. \A c \in Controllers : c # t => upc'[c] = upc[c] /\ at'[c] = at[c]
      BY <1>1, <1>2, <1>3 DEF U!TypeOK
    <3>2. upc[t] \notin U!Working /\ upc'[t] \notin U!Working
      BY <1>1, <1>2, <1>3 DEF U!TypeOK, U!Working
    <3> QED BY <1>1, <1>2, <1>3, <3>1, <3>2, UsbOthers
  <2> QED BY <2>1, <2>2, <2>3, <2>4 DEF U!IInv
<1> QED BY <1>1, <1>2, <1>3 DEF U!usbCommsTransfer, U!transfer, U!device, U!Goto, U!Leave

LEMMA UsbEnter ==
  ASSUME DevicesAssumption, U!IInv, NEW t \in Users, U!Enter(t)
  PROVE  U!IInv'
<1>1. /\ U!TypeOK /\ U!LocksHeld /\ U!TransferKeepsBuffer /\ U!HowFar
      /\ t \in U!Callers /\ Users \subseteq U!Callers /\ Controllers \subseteq U!Callers
  BY DEF U!IInv, U!Callers
<1>2. /\ upc[t] = "enter" /\ dirLock[at[t]][dir[t]] = NoThread /\ at[t] \in U!Interfaces
      /\ ds' = ds /\ initialized' = initialized /\ intf' = intf /\ gLock' = gLock /\ lock' = lock
      /\ at' = at /\ want' = want /\ dir' = dir /\ attempt' = attempt /\ configured' = configured
      /\ crashed' = crashed
  BY <1>1 DEF U!Enter, U!transfer, U!device, U!TypeOK, U!LocksHeld, U!Inside, U!Goto, U!Leave
<1>3. CASE /\ dirLock' = [dirLock EXCEPT ![at[t]][dir[t]] = t] /\ upc' = [upc EXCEPT ![t] = "ready"]
  <2>1. U!TypeOK'
    BY <1>1, <1>2, <1>3, UsbConstants DEF U!TypeOK, U!Inside
  <2>2. U!LocksHeld'
    BY <1>1, <1>2, <1>3, UsbConstants DEF U!LocksHeld, U!TypeOK, U!Inside
  <2>3. U!TransferKeepsBuffer'
    BY <1>1, <1>2, <1>3, UsbConstants DEF U!TransferKeepsBuffer, U!TypeOK, U!Inside, U!LocksHeld
  <2>4. U!HowFar'
    <3>1. \A c \in Controllers : c # t => upc'[c] = upc[c] /\ at'[c] = at[c]
      BY <1>1, <1>2, <1>3 DEF U!TypeOK
    <3>2. upc[t] \notin U!Working /\ upc'[t] \notin U!Working
      BY <1>1, <1>2, <1>3 DEF U!TypeOK, U!Working
    <3> QED BY <1>1, <1>2, <1>3, <3>1, <3>2, UsbOthers
  <2> QED BY <2>1, <2>2, <2>3, <2>4 DEF U!IInv
<1> QED BY <1>1, <1>2, <1>3 DEF U!Enter, U!transfer, U!device, U!Goto, U!Leave

LEMMA UsbReady ==
  ASSUME DevicesAssumption, U!IInv, NEW t \in Users, U!WaitReady(t)
  PROVE  U!IInv'
<1>1. /\ U!TypeOK /\ U!LocksHeld /\ U!TransferKeepsBuffer /\ U!HowFar
      /\ t \in U!Callers /\ Users \subseteq U!Callers /\ Controllers \subseteq U!Callers
  BY DEF U!IInv, U!Callers
<1>2. /\ upc[t] = "ready" /\ at[t] \in U!Interfaces /\ ds' = ds /\ initialized' = initialized
      /\ intf' = intf /\ gLock' = gLock /\ lock' = lock /\ at' = at /\ want' = want /\ dir' = dir
      /\ attempt' = attempt /\ configured' = configured /\ crashed' = crashed
  BY <1>1 DEF U!WaitReady, U!transfer, U!device, U!TypeOK, U!LocksHeld, U!Inside, U!Goto, U!Leave
<1>3. CASE /\ dirLock' = [dirLock EXCEPT ![at[t]][dir[t]] = NoThread]
           /\ upc' = [upc EXCEPT ![t] = "failed"]
  <2>1. U!TypeOK'
    BY <1>1, <1>2, <1>3, UsbConstants DEF U!TypeOK, U!Inside
  <2>2. U!LocksHeld'
    BY <1>1, <1>2, <1>3, UsbConstants DEF U!LocksHeld, U!TypeOK, U!Inside
  <2>3. U!TransferKeepsBuffer'
    BY <1>1, <1>2, <1>3, UsbConstants DEF U!TransferKeepsBuffer, U!TypeOK, U!Inside
  <2>4. U!HowFar'
    <3>1. \A c \in Controllers : c # t => upc'[c] = upc[c] /\ at'[c] = at[c]
      BY <1>1, <1>2, <1>3 DEF U!TypeOK
    <3>2. upc[t] \notin U!Working /\ upc'[t] \notin U!Working
      BY <1>1, <1>2, <1>3 DEF U!TypeOK, U!Working
    <3> QED BY <1>1, <1>2, <1>3, <3>1, <3>2, UsbOthers
  <2> QED BY <2>1, <2>2, <2>3, <2>4 DEF U!IInv
<1>4. CASE /\ upc' = [upc EXCEPT ![t] = "post"] /\ dirLock' = dirLock
  <2>1. U!TypeOK'
    BY <1>1, <1>2, <1>4, UsbConstants DEF U!TypeOK, U!Inside
  <2>2. U!LocksHeld'
    BY <1>1, <1>2, <1>4, UsbConstants DEF U!LocksHeld, U!TypeOK, U!Inside
  <2>3. U!TransferKeepsBuffer'
    BY <1>1, <1>2, <1>4, UsbConstants DEF U!TransferKeepsBuffer, U!TypeOK, U!Inside
  <2>4. U!HowFar'
    <3>1. \A c \in Controllers : c # t => upc'[c] = upc[c] /\ at'[c] = at[c]
      BY <1>1, <1>2, <1>4 DEF U!TypeOK
    <3>2. upc[t] \notin U!Working /\ upc'[t] \notin U!Working
      BY <1>1, <1>2, <1>4 DEF U!TypeOK, U!Working
    <3> QED BY <1>1, <1>2, <1>4, <3>1, <3>2, UsbOthers
  <2> QED BY <2>1, <2>2, <2>3, <2>4 DEF U!IInv
<1>5. CASE /\ upc' = [upc EXCEPT ![t] = "asleep"] /\ dirLock' = dirLock
  <2>1. U!TypeOK'
    BY <1>1, <1>2, <1>5, UsbConstants DEF U!TypeOK, U!Inside
  <2>2. U!LocksHeld'
    BY <1>1, <1>2, <1>5, UsbConstants DEF U!LocksHeld, U!TypeOK, U!Inside
  <2>3. U!TransferKeepsBuffer'
    BY <1>1, <1>2, <1>5, UsbConstants DEF U!TransferKeepsBuffer, U!TypeOK, U!Inside
  <2>4. U!HowFar'
    <3>1. \A c \in Controllers : c # t => upc'[c] = upc[c] /\ at'[c] = at[c]
      BY <1>1, <1>2, <1>5 DEF U!TypeOK
    <3>2. upc[t] \notin U!Working /\ upc'[t] \notin U!Working
      BY <1>1, <1>2, <1>5 DEF U!TypeOK, U!Working
    <3> QED BY <1>1, <1>2, <1>5, <3>1, <3>2, UsbOthers
  <2> QED BY <2>1, <2>2, <2>3, <2>4 DEF U!IInv
<1> QED BY <1>1, <1>2, <1>3, <1>4, <1>5 DEF U!WaitReady, U!transfer, U!device, U!Goto, U!Leave

LEMMA UsbPost ==
  ASSUME DevicesAssumption, U!IInv, NEW t \in Users, U!PostBufferAsync(t)
  PROVE  U!IInv'
<1>1. /\ U!TypeOK /\ U!LocksHeld /\ U!TransferKeepsBuffer /\ U!HowFar
      /\ t \in U!Callers /\ Users \subseteq U!Callers /\ Controllers \subseteq U!Callers
  BY DEF U!IInv, U!Callers
<1>2. /\ upc[t] = "post" /\ at[t] \in U!Interfaces /\ ds' = ds /\ initialized' = initialized
      /\ intf' = intf /\ gLock' = gLock /\ lock' = lock /\ at' = at /\ want' = want /\ dir' = dir
      /\ attempt' = attempt /\ configured' = configured
  BY <1>1 DEF U!PostBufferAsync, U!transfer, U!device, U!TypeOK, U!LocksHeld, U!Inside, U!Goto, U!Leave
<1>3. CASE /\ crashed' = TRUE /\ dirLock' = dirLock /\ upc' = upc
  <2>1. U!TypeOK'
    BY <1>1, <1>2, <1>3, UsbConstants DEF U!TypeOK, U!Inside
  <2>2. U!LocksHeld'
    BY <1>1, <1>2, <1>3, UsbConstants DEF U!LocksHeld, U!TypeOK, U!Inside
  <2>3. U!TransferKeepsBuffer'
    BY <1>1, <1>2, <1>3, UsbConstants DEF U!TransferKeepsBuffer, U!TypeOK, U!Inside
  <2>4. U!HowFar'
    <3>1. \A c \in Controllers : c # t => upc'[c] = upc[c] /\ at'[c] = at[c]
      BY <1>1, <1>2, <1>3 DEF U!TypeOK
    <3>2. upc[t] \notin U!Working /\ upc'[t] \notin U!Working
      BY <1>1, <1>2, <1>3 DEF U!TypeOK, U!Working
    <3> QED BY <1>1, <1>2, <1>3, <3>1, <3>2, UsbOthers
  <2> QED BY <2>1, <2>2, <2>3, <2>4 DEF U!IInv
<1>4. CASE /\ dirLock' = [dirLock EXCEPT ![at[t]][dir[t]] = NoThread]
           /\ upc' = [upc EXCEPT ![t] = "failed"] /\ crashed' = crashed
  <2>1. U!TypeOK'
    BY <1>1, <1>2, <1>4, UsbConstants DEF U!TypeOK, U!Inside
  <2>2. U!LocksHeld'
    BY <1>1, <1>2, <1>4, UsbConstants DEF U!LocksHeld, U!TypeOK, U!Inside
  <2>3. U!TransferKeepsBuffer'
    BY <1>1, <1>2, <1>4, UsbConstants DEF U!TransferKeepsBuffer, U!TypeOK, U!Inside
  <2>4. U!HowFar'
    <3>1. \A c \in Controllers : c # t => upc'[c] = upc[c] /\ at'[c] = at[c]
      BY <1>1, <1>2, <1>4 DEF U!TypeOK
    <3>2. upc[t] \notin U!Working /\ upc'[t] \notin U!Working
      BY <1>1, <1>2, <1>4 DEF U!TypeOK, U!Working
    <3> QED BY <1>1, <1>2, <1>4, <3>1, <3>2, UsbOthers
  <2> QED BY <2>1, <2>2, <2>3, <2>4 DEF U!IInv
<1>5. CASE /\ dir[t] \in intf[at[t]].endpoints /\ upc' = [upc EXCEPT ![t] = "wait"]
           /\ dirLock' = dirLock /\ crashed' = crashed
  <2>1. U!TypeOK'
    BY <1>1, <1>2, <1>5, UsbConstants DEF U!TypeOK, U!Inside
  <2>2. U!LocksHeld'
    BY <1>1, <1>2, <1>5, UsbConstants DEF U!LocksHeld, U!TypeOK, U!Inside
  <2>3. U!TransferKeepsBuffer'
    <3>1. dir[t] \in intf[at[t]].buffers
      BY <1>1, <1>2, <1>5, UsbShapes DEF U!TypeOK
    <3>2. ASSUME NEW u \in Users, u # t, upc[u] \in U!Inside
          PROVE  at[u] # at[t] \/ dir[u] # dir[t]
      BY <1>1, <1>2, <3>2 DEF U!LocksHeld, U!Inside
    <3>3. \A u \in Users : u # t => upc'[u] = upc[u]
      BY <1>1, <1>5 DEF U!TypeOK
    <3> QED BY <1>1, <1>2, <1>5, <3>1, <3>2, <3>3 DEF U!TransferKeepsBuffer, U!Inside
  <2>4. U!HowFar'
    <3>1. \A c \in Controllers : c # t => upc'[c] = upc[c] /\ at'[c] = at[c]
      BY <1>1, <1>2, <1>5 DEF U!TypeOK
    <3>2. upc[t] \notin U!Working /\ upc'[t] \notin U!Working
      BY <1>1, <1>2, <1>5 DEF U!TypeOK, U!Working
    <3> QED BY <1>1, <1>2, <1>5, <3>1, <3>2, UsbOthers
  <2> QED BY <2>1, <2>2, <2>3, <2>4 DEF U!IInv
<1> QED BY <1>1, <1>2, <1>3, <1>4, <1>5 DEF U!PostBufferAsync, U!transfer, U!device, U!Goto, U!Leave

LEMMA UsbCompletion ==
  ASSUME DevicesAssumption, U!IInv, NEW t \in Users, U!Completion(t)
  PROVE  U!IInv'
<1>1. /\ U!TypeOK /\ U!LocksHeld /\ U!TransferKeepsBuffer /\ U!HowFar
      /\ t \in U!Callers /\ Users \subseteq U!Callers /\ Controllers \subseteq U!Callers
  BY DEF U!IInv, U!Callers
<1>2. /\ upc[t] = "wait" /\ at[t] \in U!Interfaces /\ ds' = ds /\ initialized' = initialized
      /\ intf' = intf /\ gLock' = gLock /\ lock' = lock /\ at' = at /\ want' = want /\ dir' = dir
      /\ attempt' = attempt /\ configured' = configured /\ crashed' = crashed
  BY <1>1 DEF U!Completion, U!transfer, U!device, U!TypeOK, U!LocksHeld, U!Inside, U!Goto, U!Leave
<1>3. CASE /\ dirLock' = [dirLock EXCEPT ![at[t]][dir[t]] = NoThread]
           /\ upc' = [upc EXCEPT ![t] = "failed"]
  <2>1. U!TypeOK'
    BY <1>1, <1>2, <1>3, UsbConstants DEF U!TypeOK, U!Inside
  <2>2. U!LocksHeld'
    BY <1>1, <1>2, <1>3, UsbConstants DEF U!LocksHeld, U!TypeOK, U!Inside
  <2>3. U!TransferKeepsBuffer'
    BY <1>1, <1>2, <1>3, UsbConstants DEF U!TransferKeepsBuffer, U!TypeOK, U!Inside
  <2>4. U!HowFar'
    <3>1. \A c \in Controllers : c # t => upc'[c] = upc[c] /\ at'[c] = at[c]
      BY <1>1, <1>2, <1>3 DEF U!TypeOK
    <3>2. upc[t] \notin U!Working /\ upc'[t] \notin U!Working
      BY <1>1, <1>2, <1>3 DEF U!TypeOK, U!Working
    <3> QED BY <1>1, <1>2, <1>3, <3>1, <3>2, UsbOthers
  <2> QED BY <2>1, <2>2, <2>3, <2>4 DEF U!IInv
<1>4. CASE /\ dirLock' = [dirLock EXCEPT ![at[t]][dir[t]] = NoThread]
           /\ upc' = [upc EXCEPT ![t] = "idle"]
  <2>1. U!TypeOK'
    BY <1>1, <1>2, <1>4, UsbConstants DEF U!TypeOK, U!Inside
  <2>2. U!LocksHeld'
    BY <1>1, <1>2, <1>4, UsbConstants DEF U!LocksHeld, U!TypeOK, U!Inside
  <2>3. U!TransferKeepsBuffer'
    BY <1>1, <1>2, <1>4, UsbConstants DEF U!TransferKeepsBuffer, U!TypeOK, U!Inside
  <2>4. U!HowFar'
    <3>1. \A c \in Controllers : c # t => upc'[c] = upc[c] /\ at'[c] = at[c]
      BY <1>1, <1>2, <1>4 DEF U!TypeOK
    <3>2. upc[t] \notin U!Working /\ upc'[t] \notin U!Working
      BY <1>1, <1>2, <1>4 DEF U!TypeOK, U!Working
    <3> QED BY <1>1, <1>2, <1>4, <3>1, <3>2, UsbOthers
  <2> QED BY <2>1, <2>2, <2>3, <2>4 DEF U!IInv
<1>5. CASE /\ upc' = [upc EXCEPT ![t] = "post"] /\ dirLock' = dirLock
  <2>1. U!TypeOK'
    BY <1>1, <1>2, <1>5, UsbConstants DEF U!TypeOK, U!Inside
  <2>2. U!LocksHeld'
    BY <1>1, <1>2, <1>5, UsbConstants DEF U!LocksHeld, U!TypeOK, U!Inside
  <2>3. U!TransferKeepsBuffer'
    BY <1>1, <1>2, <1>5, UsbConstants DEF U!TransferKeepsBuffer, U!TypeOK, U!Inside
  <2>4. U!HowFar'
    <3>1. \A c \in Controllers : c # t => upc'[c] = upc[c] /\ at'[c] = at[c]
      BY <1>1, <1>2, <1>5 DEF U!TypeOK
    <3>2. upc[t] \notin U!Working /\ upc'[t] \notin U!Working
      BY <1>1, <1>2, <1>5 DEF U!TypeOK, U!Working
    <3> QED BY <1>1, <1>2, <1>5, <3>1, <3>2, UsbOthers
  <2> QED BY <2>1, <2>2, <2>3, <2>4 DEF U!IInv
<1> QED BY <1>1, <1>2, <1>3, <1>4, <1>5 DEF U!Completion, U!transfer, U!device, U!Goto, U!Leave

LEMMA UsbAgain ==
  ASSUME DevicesAssumption, U!IInv, NEW t \in Users, U!TryAgain(t)
  PROVE  U!IInv'
<1>1. /\ U!TypeOK /\ U!LocksHeld /\ U!TransferKeepsBuffer /\ U!HowFar
      /\ t \in U!Callers /\ Users \subseteq U!Callers /\ Controllers \subseteq U!Callers
  BY DEF U!IInv, U!Callers
<1>2. /\ upc[t] = "failed" /\ at[t] \in U!Interfaces /\ ds' = ds /\ initialized' = initialized
      /\ intf' = intf /\ gLock' = gLock /\ lock' = lock /\ dirLock' = dirLock /\ at' = at
      /\ want' = want /\ dir' = dir /\ configured' = configured /\ crashed' = crashed
  BY <1>1 DEF U!TryAgain, U!transfer, U!device, U!TypeOK, U!LocksHeld, U!Inside, U!Goto, U!Leave
<1>3. CASE /\ upc' = [upc EXCEPT ![t] = "idle"] /\ attempt' = attempt
  <2>1. U!TypeOK'
    BY <1>1, <1>2, <1>3, UsbConstants DEF U!TypeOK, U!Inside
  <2>2. U!LocksHeld'
    BY <1>1, <1>2, <1>3, UsbConstants DEF U!LocksHeld, U!TypeOK, U!Inside
  <2>3. U!TransferKeepsBuffer'
    BY <1>1, <1>2, <1>3, UsbConstants DEF U!TransferKeepsBuffer, U!TypeOK, U!Inside
  <2>4. U!HowFar'
    <3>1. \A c \in Controllers : c # t => upc'[c] = upc[c] /\ at'[c] = at[c]
      BY <1>1, <1>2, <1>3 DEF U!TypeOK
    <3>2. upc[t] \notin U!Working /\ upc'[t] \notin U!Working
      BY <1>1, <1>2, <1>3 DEF U!TypeOK, U!Working
    <3> QED BY <1>1, <1>2, <1>3, <3>1, <3>2, UsbOthers
  <2> QED BY <2>1, <2>2, <2>3, <2>4 DEF U!IInv
<1>4. CASE /\ upc' = [upc EXCEPT ![t] = "enter"] /\ attempt' = [attempt EXCEPT ![t] = 2]
  <2>1. U!TypeOK'
    BY <1>1, <1>2, <1>4, UsbConstants DEF U!TypeOK, U!Inside
  <2>2. U!LocksHeld'
    BY <1>1, <1>2, <1>4, UsbConstants DEF U!LocksHeld, U!TypeOK, U!Inside
  <2>3. U!TransferKeepsBuffer'
    BY <1>1, <1>2, <1>4, UsbConstants DEF U!TransferKeepsBuffer, U!TypeOK, U!Inside
  <2>4. U!HowFar'
    <3>1. \A c \in Controllers : c # t => upc'[c] = upc[c] /\ at'[c] = at[c]
      BY <1>1, <1>2, <1>4 DEF U!TypeOK
    <3>2. upc[t] \notin U!Working /\ upc'[t] \notin U!Working
      BY <1>1, <1>2, <1>4 DEF U!TypeOK, U!Working
    <3> QED BY <1>1, <1>2, <1>4, <3>1, <3>2, UsbOthers
  <2> QED BY <2>1, <2>2, <2>3, <2>4 DEF U!IInv
<1> QED BY <1>1, <1>2, <1>3, <1>4 DEF U!TryAgain, U!transfer, U!device, U!Goto, U!Leave

LEMMA UsbWork ==
  ASSUME DevicesAssumption, U!IInv, NEW c \in Controllers, U!WorkOnInterface(c)
  PROVE  U!IInv'
<1>1. /\ U!TypeOK /\ U!LocksHeld /\ U!TransferKeepsBuffer /\ U!HowFar
      /\ c \in U!Callers /\ Users \subseteq U!Callers /\ Controllers \subseteq U!Callers
  BY DEF U!IInv, U!Callers
<1>2. /\ upc[c] = "lock_out" /\ at[c] \in U!Interfaces /\ dirLock[at[c]]["out"] = NoThread
      /\ ds' = ds /\ initialized' = initialized /\ gLock' = gLock /\ want' = want /\ dir' = dir
      /\ attempt' = attempt /\ configured' = configured /\ crashed' = crashed
  BY <1>1 DEF U!WorkOnInterface, U!transfer, U!device, U!TypeOK, U!LocksHeld, U!Inside, U!Goto, U!GoOn, U!LockOut, U!Unlock
<1>0. \A t \in Users : upc[t] = "wait" => at[t] # at[c]
  BY <1>1, <1>2, UsbConstants DEF U!LocksHeld, U!Inside, U!TypeOK, U!Directions
<1>3. CASE /\ U!Freeing(c) /\ intf' = [intf EXCEPT ![at[c]] = U!Gone]
           /\ lock' = [lock EXCEPT ![at[c]] = NoThread]
           /\ dirLock' = [dirLock EXCEPT ![at[c]]["in"] = NoThread]
           /\ upc' = [upc EXCEPT ![c] = "lock"] /\ at' = [at EXCEPT ![c] = at[c] + 1]
  <2>1. U!TypeOK'
    <3>1. at' \in [U!Callers -> 0..NumInterfaces]
      <4>1. at[c] + 1 \in 0..NumInterfaces
        BY <1>2, UsbConstants DEF U!Interfaces
      <4> QED BY <1>1, <1>2, <1>3, <4>1 DEF U!TypeOK
    <3>2. intf' \in [U!Interfaces -> {U!Gone, U!Full} \cup U!Halfway]
      BY <1>1, <1>2, <1>3 DEF U!TypeOK
    <3>3. dirLock' \in [U!Interfaces -> [U!Directions -> U!Callers \cup {NoThread}]]
      BY <1>1, <1>2, <1>3 DEF U!TypeOK, U!Directions
    <3> QED BY <1>1, <1>2, <1>3, <3>1, <3>2, <3>3 DEF U!TypeOK, U!Working
  <2>2. U!LocksHeld'
    BY <1>1, <1>2, <1>3, UsbConstants DEF U!LocksHeld, U!TypeOK, U!Inside
  <2>3. U!TransferKeepsBuffer'
    <3>1. \A t \in Users : upc'[t] \in U!Inside => upc[t] = upc'[t] /\ at'[t] = at[t]
      BY <1>1, <1>2, <1>3 DEF U!TypeOK, U!Inside
    <3>2. \A t \in Users : upc[t] = "wait" => at[t] \in U!Interfaces /\ intf'[at[t]] = intf[at[t]]
      BY <1>0, <1>1, <1>2, <1>3 DEF U!TypeOK, U!LocksHeld, U!Inside
    <3> QED BY <1>1, <1>2, <1>3, <3>1, <3>2 DEF U!TransferKeepsBuffer, U!Inside
  <2>4. U!HowFar'
    <3>1. ASSUME Controllers = {c} PROVE U!Progress(c)
      BY <1>1, <3>1 DEF U!HowFar
    <3>2. ASSUME Controllers = {c} PROVE U!Progress(c)'
      BY <1>1, <1>2, <1>3, <3>1, <3>2, <1>0, UsbConstants
         DEF U!Progress, U!Whole, U!Failed, U!TypeOK, U!Working, U!Freeing, U!Last, U!Interfaces
    <3> QED BY <3>2 DEF U!HowFar
  <2> QED BY <2>1, <2>2, <2>3, <2>4 DEF U!IInv
<1>4. CASE /\ ~U!Freeing(c) /\ intf' = [intf EXCEPT ![at[c]] = U!Full]
           /\ lock' = [lock EXCEPT ![at[c]] = NoThread]
           /\ dirLock' = [dirLock EXCEPT ![at[c]]["in"] = NoThread]
           /\ upc' = [upc EXCEPT ![c] = "lock"] /\ at' = [at EXCEPT ![c] = at[c] + 1]
  <2>1. U!TypeOK'
    <3>1. at' \in [U!Callers -> 0..NumInterfaces]
      <4>1. at[c] + 1 \in 0..NumInterfaces
        BY <1>2, UsbConstants DEF U!Interfaces
      <4> QED BY <1>1, <1>2, <1>4, <4>1 DEF U!TypeOK
    <3>2. intf' \in [U!Interfaces -> {U!Gone, U!Full} \cup U!Halfway]
      BY <1>1, <1>2, <1>4 DEF U!TypeOK
    <3>3. dirLock' \in [U!Interfaces -> [U!Directions -> U!Callers \cup {NoThread}]]
      BY <1>1, <1>2, <1>4 DEF U!TypeOK, U!Directions
    <3> QED BY <1>1, <1>2, <1>4, <3>1, <3>2, <3>3 DEF U!TypeOK, U!Working
  <2>2. U!LocksHeld'
    BY <1>1, <1>2, <1>4, UsbConstants DEF U!LocksHeld, U!TypeOK, U!Inside
  <2>3. U!TransferKeepsBuffer'
    <3>1. \A t \in Users : upc'[t] \in U!Inside => upc[t] = upc'[t] /\ at'[t] = at[t]
      BY <1>1, <1>2, <1>4 DEF U!TypeOK, U!Inside
    <3>2. \A t \in Users : upc[t] = "wait" => at[t] \in U!Interfaces /\ intf'[at[t]] = intf[at[t]]
      BY <1>0, <1>1, <1>2, <1>4 DEF U!TypeOK, U!LocksHeld, U!Inside
    <3> QED BY <1>1, <1>2, <1>4, <3>1, <3>2 DEF U!TransferKeepsBuffer, U!Inside
  <2>4. U!HowFar'
    <3>1. ASSUME Controllers = {c} PROVE U!Progress(c)
      BY <1>1, <3>1 DEF U!HowFar
    <3>2. ASSUME Controllers = {c} PROVE U!Progress(c)'
      BY <1>1, <1>2, <1>4, <3>1, <3>2, <1>0, UsbConstants
         DEF U!Progress, U!Whole, U!Failed, U!TypeOK, U!Working, U!Freeing, U!Last, U!Interfaces
    <3> QED BY <3>2 DEF U!HowFar
  <2> QED BY <2>1, <2>2, <2>3, <2>4 DEF U!IInv
<1>5. CASE /\ ~U!Freeing(c) /\ \E h \in U!Halfway : intf' = [intf EXCEPT ![at[c]] = h]
           /\ lock' = [lock EXCEPT ![at[c]] = NoThread]
           /\ dirLock' = [dirLock EXCEPT ![at[c]]["in"] = NoThread]
           /\ upc' = [upc EXCEPT ![c] = "exit"] /\ at' = at
  <2>1. U!TypeOK'
    <3>1. at' \in [U!Callers -> 0..NumInterfaces]
      <4>1. at[c] + 1 \in 0..NumInterfaces
        BY <1>2, UsbConstants DEF U!Interfaces
      <4> QED BY <1>1, <1>2, <1>5, <4>1 DEF U!TypeOK
    <3>2. intf' \in [U!Interfaces -> {U!Gone, U!Full} \cup U!Halfway]
      BY <1>1, <1>2, <1>5 DEF U!TypeOK
    <3>3. dirLock' \in [U!Interfaces -> [U!Directions -> U!Callers \cup {NoThread}]]
      BY <1>1, <1>2, <1>5 DEF U!TypeOK, U!Directions
    <3> QED BY <1>1, <1>2, <1>5, <3>1, <3>2, <3>3 DEF U!TypeOK, U!Working
  <2>2. U!LocksHeld'
    BY <1>1, <1>2, <1>5, UsbConstants DEF U!LocksHeld, U!TypeOK, U!Inside
  <2>3. U!TransferKeepsBuffer'
    <3>1. \A t \in Users : upc'[t] \in U!Inside => upc[t] = upc'[t] /\ at'[t] = at[t]
      BY <1>1, <1>2, <1>5 DEF U!TypeOK, U!Inside
    <3>2. \A t \in Users : upc[t] = "wait" => at[t] \in U!Interfaces /\ intf'[at[t]] = intf[at[t]]
      BY <1>0, <1>1, <1>2, <1>5 DEF U!TypeOK, U!LocksHeld, U!Inside
    <3> QED BY <1>1, <1>2, <1>5, <3>1, <3>2 DEF U!TransferKeepsBuffer, U!Inside
  <2>4. U!HowFar'
    <3>1. ASSUME Controllers = {c} PROVE U!Progress(c)
      BY <1>1, <3>1 DEF U!HowFar
    <3>2. ASSUME Controllers = {c} PROVE U!Progress(c)'
      <4>1. ASSUME gLock = c PROVE U!LeftBehind(c)'
        <5>1. /\ ~initialized /\ ds /\ at[c] < want[c]
              /\ \A i \in U!Interfaces : intf[i] = IF i < at[c] THEN U!Full ELSE U!Gone
          BY <1>2, <3>1, <3>2, <4>1, UsbConstants DEF U!Progress, U!Freeing, U!Last
        <5>2. want[c] \in Nat /\ at[c] \in 0..want[c]
          BY <1>1, <5>1 DEF U!TypeOK
        <5>3. PICK h \in U!Halfway : intf' = [intf EXCEPT ![at[c]] = h]
          BY <1>5
        <5>4. \A i \in U!Interfaces : intf'[i] = IF i = at[c] THEN h ELSE intf[i]
          BY <1>1, <1>2, <5>3 DEF U!TypeOK
        <5> QED BY <1>2, <5>1, <5>2, <5>4, UsbConstants DEF U!LeftBehind, U!Interfaces
      <4> QED BY <1>1, <1>2, <1>5, <3>1, <3>2, <4>1, <1>0, UsbConstants
              DEF U!Progress, U!Whole, U!Failed, U!TypeOK, U!Working, U!Freeing
    <3> QED BY <3>2 DEF U!HowFar
  <2> QED BY <2>1, <2>2, <2>3, <2>4 DEF U!IInv
<1> QED BY <1>1, <1>2, <1>3, <1>4, <1>5 DEF U!WorkOnInterface, U!transfer, U!device, U!Goto, U!GoOn, U!LockOut, U!Unlock

LEMMA UsbState ==
  ASSUME DevicesAssumption, U!IInv, U!StateChange
  PROVE  U!IInv'
<1>1. /\ U!TypeOK /\ U!LocksHeld /\ U!TransferKeepsBuffer /\ U!HowFar
      /\ Users \subseteq U!Callers /\ Controllers \subseteq U!Callers
  BY DEF U!IInv, U!Callers
<1>2. /\ ds' = ds /\ initialized' = initialized /\ intf' = intf /\ gLock' = gLock /\ lock' = lock
      /\ dirLock' = dirLock /\ at' = at /\ want' = want /\ dir' = dir /\ attempt' = attempt
      /\ crashed' = crashed
  BY <1>1 DEF U!StateChange, U!transfer, U!device, U!TypeOK, U!LocksHeld, U!Inside
<1>3. CASE /\ upc' = [t \in U!Callers |-> IF ds /\ upc[t] = "asleep" THEN "ready" ELSE upc[t]]
           /\ configured' = ~configured
  <2>1. U!TypeOK'
    BY <1>1, <1>2, <1>3, UsbConstants DEF U!TypeOK, U!Inside
  <2>2. U!LocksHeld'
    BY <1>1, <1>2, <1>3, UsbConstants DEF U!LocksHeld, U!TypeOK, U!Inside
  <2>3. U!TransferKeepsBuffer'
    <3>1. \A t \in Users : upc'[t] \in U!Inside <=> upc[t] \in U!Inside
      BY <1>1, <1>3 DEF U!Inside
    <3>2. \A t \in Users : upc'[t] = "wait" => upc[t] = "wait"
      BY <1>1, <1>3
    <3> QED BY <1>1, <1>2, <3>1, <3>2 DEF U!TransferKeepsBuffer
  <2>4. U!HowFar'
    <3>1. SUFFICES ASSUME NEW c \in Controllers, Controllers = {c} PROVE U!Progress(c)'
      BY DEF U!HowFar
    <3>2. U!Progress(c)
      BY <1>1, <3>1 DEF U!HowFar
    <3>3. CASE upc'[c] = upc[c]
      BY <1>2, <3>2, <3>3 DEF U!Progress, U!Whole, U!Failed, U!LeftBehind, U!Freeing, U!Last
    <3>4. CASE upc'[c] = "ready" /\ upc[c] = "asleep"
      BY <1>2, <3>2, <3>4 DEF U!Progress, U!Whole, U!Failed, U!Working
    <3> QED BY <1>1, <1>3, <3>3, <3>4
  <2> QED BY <2>1, <2>2, <2>3, <2>4 DEF U!IInv
<1> QED BY <1>1, <1>2, <1>3 DEF U!StateChange, U!transfer, U!device

LEMMA UsbStep ==
  ASSUME DevicesAssumption, U!IInv, U!Next PROVE U!IInv'
<1>1. ASSUME NEW c \in Controllers, U!Control(c) PROVE U!IInv'
  BY <1>1, UsbOpen, UsbSession, UsbLock, UsbLockIn, UsbWork, UsbInitialized, UsbExit, UsbClose, UsbExited
     DEF U!Control
<1>2. ASSUME NEW t \in Users, U!Transfer(t) PROVE U!IInv'
  BY <1>2, UsbTransfer, UsbEnter, UsbReady, UsbPost, UsbCompletion, UsbAgain DEF U!Transfer
<1> QED BY <1>1, <1>2, UsbState DEF U!Next

LEMMA UsbPromises ==
  ASSUME DevicesAssumption, U!IInv PROVE U!TransferKeepsBuffer /\ U!HalfDoneIsLocked
<1>1. ASSUME NEW c \in Controllers, Controllers = {c}, gLock = NoThread
      PROVE  U!Whole(c) \/ U!Empty(c)
  <2>1. U!Progress(c) /\ gLock # c
    BY <1>1, UsbConstants DEF U!IInv, U!HowFar, U!Callers
  <2>2. CASE upc[c] \in {"lock", "lock_in", "lock_out"}
    <3>1. ~initialized /\ ~ds /\ \A i \in U!Interfaces : i < at[c] => intf[i] = U!Gone
      BY <2>1, <2>2 DEF U!Progress, U!Freeing
    <3>2. at[c] \in 0..NumInterfaces
      BY <1>1 DEF U!IInv, U!TypeOK, U!Callers
    <3> QED BY <2>2, <3>1, <3>2, UsbConstants DEF U!Empty, U!StillToFree, U!Interfaces
  <2>3. CASE upc[c] \notin {"lock", "lock_in", "lock_out"}
    BY <2>1, <2>3 DEF U!Progress, U!Working, U!Empty
  <2> QED BY <2>2, <2>3
<1>2. ASSUME NEW c \in Controllers, Controllers = {c}, U!Failed(c) PROVE U!LeftBehind(c)
  BY <1>2 DEF U!IInv, U!HowFar, U!Progress
<1> QED BY <1>1, <1>2 DEF U!IInv, U!HalfDoneIsLocked

-----------------------------------------------------------------------------
(* Display: what a window w, a queue q and the live frame buffers l have   *)
(* to do with each other as long as no disconnect failed (torn).           *)

Agreeing(w, q) ==
  /\ w.valid /\ w.configured # {} => 0 \in w.configured /\ w.connected
  /\ ~(w.valid /\ w.connected) => \A s \in D!Slots : q[s].state = "empty"
  /\ w.valid => \A s \in D!Slots :
       /\ s \in w.configured <=> q[s].state # "empty"
       /\ s \in w.requested => s \in w.configured
       /\ q[s].state = "dequeued" <=> s = w.cur

Held(q, l) ==
  \A s \in D!Slots : q[s].of \subseteq l /\ (q[s].state = "empty" => q[s].of = {})

Matching(w, q, l, tear, end) ==
  /\ w \in D!Windows /\ q \in [D!Slots -> D!Buffers] /\ l \subseteq Framebuffers
  /\ ~tear => Held(q, l) /\ (~end => Agreeing(w, q))

LEMMA DisplayConstants ==
  ASSUME DevicesAssumption
  PROVE  /\ WindowSlots \in Nat \ {0} /\ 0 \in D!Slots /\ D!Slots \subseteq -1..WindowSlots - 1
         /\ Sizes \subseteq Nat \ {0} /\ DefaultSize \in Sizes /\ Margins \subseteq Int
BY DEF DevicesAssumption, D!DisplayAssumption, D!Slots

LEMMA DisplayNow ==
  ASSUME D!IInv
  PROVE  Matching(nw, queue, live, dtorn, fatal) /\ dtorn \in BOOLEAN /\ fatal \in BOOLEAN
<1>1. D!TypeOK /\ D!FirstSlots /\ D!SlotsAgree /\ D!BuffersAlive
  BY DEF D!IInv, D!WindowMatchesQueue
<1>2. ~dtorn => Held(queue, live)
  BY <1>1 DEF D!FirstSlots, D!BuffersAlive, Held
<1>3. ASSUME ~dtorn, ~fatal PROVE Agreeing(nw, queue)
  <2>1. ASSUME nw.valid, NEW s \in D!Slots
        PROVE  /\ s \in nw.configured <=> queue[s].state # "empty"
               /\ s \in nw.requested => s \in nw.configured
               /\ queue[s].state = "dequeued" <=> s = nw.cur
    BY <1>1, <1>3, <2>1 DEF D!SlotsAgree
  <2> QED BY <1>1, <1>3, <2>1 DEF D!FirstSlots, Agreeing
<1> QED BY <1>1, <1>2, <1>3 DEF D!TypeOK, Matching

LEMMA DisplayThen ==
  ASSUME NEW w, NEW q, NEW l, NEW tear \in BOOLEAN, NEW end \in BOOLEAN,
         Matching(w, q, l, tear, end),
         nw' = w, queue' = q, live' = l, dtorn' = tear, fatal' = end
  PROVE  D!IInv'
<1>1. D!TypeOK'
  BY DEF Matching, D!TypeOK
<1>2. D!FirstSlots'
  BY DEF Matching, Held, Agreeing, D!FirstSlots
<1>3. D!BuffersAlive'
  BY DEF Matching, Held, D!BuffersAlive
<1>4. D!SlotsAgree'
  <2>1. SUFFICES ASSUME ~tear, ~end, w.valid
                 PROVE  /\ w.configured = {s \in D!Slots : q[s].state # "empty"}
                        /\ w.requested \subseteq w.configured
                        /\ {s \in D!Slots : q[s].state = "dequeued"} = {w.cur} \cap D!Slots
    BY DEF D!SlotsAgree
  <2>2. /\ w.configured \subseteq D!Slots /\ w.requested \subseteq D!Slots
        /\ Agreeing(w, q)
    BY <2>1 DEF Matching, D!Windows
  <2> QED BY <2>1, <2>2 DEF Agreeing
<1> QED BY <1>1, <1>2, <1>3, <1>4 DEF D!IInv, D!WindowMatchesQueue

LEMMA DisplayEmpty ==
  ASSUME NEW w \in D!Windows, NEW l \in SUBSET Framebuffers, NEW tear, NEW end,
         w.configured = {}, w.requested = {}, w.valid => w.cur = -1
  PROVE  Matching(w, [s \in D!Slots |-> D!Empty], l, tear, end)
<1>1. [s \in D!Slots |-> D!Empty] \in [D!Slots -> D!Buffers]
  BY DEF D!Empty, D!Buffers
<1>2. \A s \in D!Slots : s # -1
  BY DEF D!Slots
<1> QED BY <1>1, <1>2 DEF Matching, Held, Agreeing, D!Empty

LEMMA DisplayInit ==
  ASSUME DevicesAssumption, D!Init PROVE D!TypeOK /\ D!FirstSlots /\ D!WindowMatchesQueue
<1>1. D!Closed \in D!Windows /\ D!Closed.configured = {} /\ ~D!Closed.valid
  BY DisplayConstants DEF D!Closed, D!Windows
<1>2. nw = D!Closed /\ queue = [s \in D!Slots |-> D!Empty] /\ live = {} /\ dtorn = FALSE /\ fatal = FALSE
  BY DEF D!Init
<1>3. \A s \in D!Slots : queue[s].state = "empty" /\ queue[s].of = {}
  BY <1>2 DEF D!Empty
<1>4. D!TypeOK
  BY <1>1, <1>2 DEF D!TypeOK, D!Empty, D!Buffers
<1> QED BY <1>1, <1>2, <1>3, <1>4 DEF D!FirstSlots, D!WindowMatchesQueue, D!SlotsAgree, D!BuffersAlive

(* Released buffers are nobody's, unless the window shows one or the       *)
(* queue did not let go of them.                                           *)
LEMMA DisplayReleased ==
  ASSUME DevicesAssumption, NEW w, NEW q, NEW l, NEW m \in SUBSET Framebuffers, dtorn \in BOOLEAN,
         Matching(w, q, l, dtorn, FALSE), NEW r \in D!Released(w, q),
         dtorn \/ l = m \/ (w.valid => w.cur < 0)
  PROVE  Matching(r.nw, r.queue, m, r.torn, FALSE) /\ r.torn \in BOOLEAN
<1> DEFINE some == w.valid /\ w.cur < 0 /\ w.connected /\ w.configured # {}
<1>1. w \in D!Windows /\ q \in [D!Slots -> D!Buffers] /\ l \subseteq Framebuffers
  BY DEF Matching
<1>2. CASE some /\ r = [nw |-> D!_nwindowDisconnect(w), queue |-> [s \in D!Slots |-> D!Empty], torn |-> dtorn]
  <2>1. r.nw = D!_nwindowDisconnect(w) /\ r.queue = [s \in D!Slots |-> D!Empty] /\ r.torn = dtorn
    BY <1>2
  <2>2. /\ D!_nwindowDisconnect(w) \in D!Windows /\ D!_nwindowDisconnect(w).configured = {}
        /\ D!_nwindowDisconnect(w).requested = {} /\ D!_nwindowDisconnect(w).cur = -1
    <3>1. PICK x : x = [valid |-> w.valid, connected |-> FALSE, configured |-> {}, requested |-> {},
                        cur |-> -1, size |-> 0, format |-> 0, crop |-> w.crop]
      OBVIOUS
    <3>2. -1 \in -1..WindowSlots - 1
      BY DisplayConstants
    <3>3. x \in D!Windows
      BY <1>1, <3>1, <3>2 DEF D!Windows
    <3>4. /\ x.valid = w.valid /\ x.connected = FALSE /\ x.configured = {} /\ x.requested = {}
          /\ x.cur = -1 /\ x.size = 0 /\ x.format = 0 /\ x.crop = w.crop
      BY <3>1
    <3>5. x = D!_nwindowDisconnect(w)
      BY <1>1, <3>3, <3>4 DEF D!Windows, D!_nwindowDisconnect
    <3> QED BY <3>3, <3>4, <3>5
  <2>3. Matching(D!_nwindowDisconnect(w), [s \in D!Slots |-> D!Empty], m, dtorn, FALSE)
    BY <2>2, DisplayEmpty
  <2> QED BY <2>1, <2>3
<1>3. CASE some /\ \E gone \in SUBSET w.configured :
                     r = [nw |-> w, queue |-> [s \in D!Slots |-> IF s \in gone THEN D!Empty ELSE q[s]],
                          torn |-> TRUE]
  <2>1. PICK gone \in SUBSET w.configured :
          r = [nw |-> w, queue |-> [s \in D!Slots |-> IF s \in gone THEN D!Empty ELSE q[s]], torn |-> TRUE]
    BY <1>3
  <2>2. [s \in D!Slots |-> IF s \in gone THEN D!Empty ELSE q[s]] \in [D!Slots -> D!Buffers]
    BY <1>1 DEF D!Empty, D!Buffers
  <2>3. /\ r.nw = w /\ r.torn = TRUE
        /\ r.queue = [s \in D!Slots |-> IF s \in gone THEN D!Empty ELSE q[s]]
    BY <2>1
  <2> QED BY <1>1, <2>2, <2>3 DEF Matching
<1>4. CASE ~some /\ r = [nw |-> w, queue |-> q, torn |-> dtorn]
  <2>1. r.nw = w /\ r.queue = q /\ r.torn = dtorn
    BY <1>4
  <2>2. ASSUME ~dtorn PROVE Held(q, m) /\ Agreeing(w, q)
    <3>1. Held(q, l) /\ Agreeing(w, q)
      BY <2>2 DEF Matching
    <3>2. ASSUME w.valid => w.cur < 0 PROVE \A s \in D!Slots : q[s].of = {}
      BY <1>4, <3>1, <3>2 DEF Held, Agreeing
    <3> QED BY <2>2, <3>1, <3>2 DEF Held
  <2> QED BY <1>1, <2>1, <2>2 DEF Matching
<1> QED BY <1>2, <1>3, <1>4 DEF D!Released

LEMMA DisplayRelease ==
  ASSUME DevicesAssumption, NEW w, NEW q, NEW l, NEW m \in SUBSET Framebuffers, dtorn \in BOOLEAN,
         Matching(w, q, l, dtorn, FALSE), dtorn \/ l = m \/ (w.valid => w.cur < 0),
         D!ReleaseBuffers(w, q), live' = m, fatal' = FALSE
  PROVE  D!IInv'
<1>1. PICK r \in D!Released(w, q) : nw' = r.nw /\ queue' = r.queue /\ dtorn' = r.torn
  BY DEF D!ReleaseBuffers
<1>2. Matching(r.nw, r.queue, m, r.torn, FALSE) /\ r.torn \in BOOLEAN
  BY DisplayReleased
<1> QED BY <1>1, <1>2, DisplayThen

LEMMA DisplayWindows ==
  ASSUME DevicesAssumption
  PROVE  /\ D!Closed \in D!Windows /\ D!Closed.configured = {} /\ D!Closed.requested = {}
         /\ ~D!Closed.valid
         /\ \E w \in D!Windows : /\ w = [D!Created EXCEPT !.connected = TRUE]
                                 /\ w.configured = {} /\ w.requested = {} /\ w.cur = -1
<1>1. D!Closed \in D!Windows /\ D!Closed.configured = {} /\ D!Closed.requested = {} /\ ~D!Closed.valid
  BY DisplayConstants DEF D!Closed, D!Windows
<1>2. -1 \in -1..WindowSlots - 1
  BY DisplayConstants
<1>3. D!Created \in D!Windows /\ D!Created.configured = {} /\ D!Created.requested = {} /\ D!Created.cur = -1
  <2>1. PICK x : x = [valid |-> TRUE, connected |-> FALSE, configured |-> {}, requested |-> {},
                      cur |-> -1, size |-> 0, format |-> D!NoFormat, crop |-> <<0, 0>>]
    OBVIOUS
  <2>2. x \in D!Windows
    BY <1>2, <2>1 DEF D!Windows
  <2>3. /\ x.valid = TRUE /\ x.connected = FALSE /\ x.configured = {} /\ x.requested = {}
        /\ x.cur = -1 /\ x.size = 0 /\ x.format = D!NoFormat /\ x.crop = <<0, 0>>
    BY <2>1
  <2>4. D!Closed.connected = FALSE /\ D!Closed.size = 0 /\ D!Closed.crop = <<0, 0>>
    BY DEF D!Closed
  <2>5. x = D!Created
    BY <1>1, <2>2, <2>3, <2>4 DEF D!Windows, D!Created
  <2> QED BY <2>2, <2>3, <2>5
<1>4. [D!Created EXCEPT !.connected = TRUE] \in D!Windows
  BY <1>3 DEF D!Windows
<1> QED BY <1>1, <1>3, <1>4 DEF D!Windows

LEMMA DisplayOpen ==
  ASSUME DevicesAssumption, D!IInv, D!nwindowCreate \/ D!nwindowClose PROVE D!IInv'
<1>1. /\ Matching(nw, queue, live, dtorn, fatal) /\ dtorn \in BOOLEAN /\ fatal \in BOOLEAN
      /\ live \in SUBSET Framebuffers
  BY DisplayNow DEF Matching
<1>2. CASE D!nwindowCreate
  <2>1. PICK w \in D!Windows : /\ w = [D!Created EXCEPT !.connected = TRUE]
                               /\ w.configured = {} /\ w.requested = {} /\ w.cur = -1
    BY DisplayWindows
  <2>2. Matching(w, [s \in D!Slots |-> D!Empty], live, FALSE, fatal)
    BY <1>1, <2>1, DisplayEmpty
  <2> QED BY <1>1, <1>2, <2>1, <2>2, DisplayThen DEF D!nwindowCreate
<1>3. CASE D!nwindowClose
  <2>1. nw' = D!Closed /\ live' = live /\ fatal' = FALSE /\ ~fatal /\ nw.valid
    BY <1>1, <1>3 DEF D!nwindowClose
  <2>2. CASE queue' = [s \in D!Slots |-> D!Empty] /\ dtorn' = dtorn
    <3>1. Matching(D!Closed, [s \in D!Slots |-> D!Empty], live, dtorn, FALSE)
      BY <1>1, DisplayEmpty, DisplayWindows
    <3> QED BY <1>1, <2>1, <2>2, <3>1, DisplayThen
  <2>3. CASE queue' = queue /\ dtorn' = TRUE
    <3>1. Matching(D!Closed, queue, live, TRUE, FALSE)
      BY <1>1, DisplayWindows DEF Matching
    <3> QED BY <1>1, <2>1, <2>3, <3>1, DisplayThen
  <2>4. CASE ~nw.connected /\ queue' = queue /\ dtorn' = dtorn
    <3>1. Matching(D!Closed, queue, live, dtorn, FALSE)
      BY <1>1, <2>1, <2>4, DisplayWindows DEF Matching, Agreeing
    <3> QED BY <1>1, <2>1, <2>4, <3>1, DisplayThen
  <2> QED BY <1>1, <1>3, <2>2, <2>3, <2>4 DEF D!nwindowClose
<1> QED BY <1>2, <1>3

LEMMA DisplayShape ==
  ASSUME DevicesAssumption, D!IInv, NEW size \in Sizes, NEW left \in Int, NEW right \in Int,
         D!nwindowSetDimensions(size) \/ D!nwindowSetCrop(left, right)
  PROVE  D!IInv'
<1>1. /\ Matching(nw, queue, live, dtorn, fatal) /\ dtorn \in BOOLEAN /\ ~fatal
      /\ nw \in D!Windows
      /\ queue' = queue /\ live' = live /\ dtorn' = dtorn /\ fatal' = FALSE
  BY DisplayNow DEF Matching, D!nwindowSetDimensions, D!nwindowSetCrop
<1>2. PICK w \in D!Windows :
        /\ nw' = w /\ w.valid = nw.valid /\ w.connected = nw.connected
        /\ w.configured = nw.configured /\ w.requested = nw.requested /\ w.cur = nw.cur
  <2>1. CASE D!nwindowSetDimensions(size)
    <3>1. PICK x : x = [valid |-> nw.valid, connected |-> nw.connected, configured |-> nw.configured,
                        requested |-> nw.requested, cur |-> nw.cur, size |-> size,
                        format |-> nw.format, crop |-> <<0, 0>>]
      OBVIOUS
    <3>2. x \in D!Windows
      BY <1>1, <3>1 DEF D!Windows
    <3>3. /\ x.valid = nw.valid /\ x.connected = nw.connected /\ x.configured = nw.configured
          /\ x.requested = nw.requested /\ x.cur = nw.cur /\ x.size = size
          /\ x.format = nw.format /\ x.crop = <<0, 0>>
      BY <3>1
    <3>4. x = [nw EXCEPT !.size = size, !.crop = <<0, 0>>]
      BY <1>1, <3>2, <3>3 DEF D!Windows
    <3> QED BY <2>1, <3>2, <3>3, <3>4 DEF D!nwindowSetDimensions
  <2>2. CASE D!nwindowSetCrop(left, right)
    <3>1. D!Dimension \in Int /\ left \in Int /\ right \in Int
      BY <1>1, DisplayConstants DEF D!Dimension, D!Windows
    <3>2. PICK crop \in Int \X Int : nw' = [nw EXCEPT !.crop = crop]
      <4>1. <<IF left < 0 THEN 0 ELSE left,
              IF right < 0 \/ right > D!Dimension THEN D!Dimension ELSE right>> \in Int \X Int
        BY <3>1
      <4> QED BY <2>2, <4>1 DEF D!nwindowSetCrop
    <3>3. nw' \in D!Windows
      BY <1>1, <3>2 DEF D!Windows
    <3> QED BY <1>1, <3>2, <3>3 DEF D!Windows
  <2> QED BY <2>1, <2>2
<1>3. Matching(w, queue, live, dtorn, FALSE)
  BY <1>1, <1>2 DEF Matching, Agreeing
<1> QED BY <1>1, <1>2, <1>3, DisplayThen

(* A window that adopts a size and registers the slots before k.           *)
LEMMA DisplayAdopted ==
  ASSUME DevicesAssumption, NEW w, NEW q, NEW l, NEW tear, NEW size \in Sizes,
         Matching(w, q, l, tear, FALSE), w.valid
  PROVE  /\ Matching(D!Adopted(w, size), q, l, tear, FALSE)
         /\ D!Adopted(w, size).valid /\ D!Adopted(w, size).connected
         /\ D!Adopted(w, size).configured = w.configured /\ D!Adopted(w, size).cur = w.cur
         /\ D!Adopted(w, size).requested = w.requested
<1>1. PICK x : x = [valid |-> w.valid, connected |-> TRUE, configured |-> w.configured,
                    requested |-> w.requested, cur |-> w.cur, size |-> IF w.size = 0 THEN size ELSE w.size,
                    format |-> IF w.format = D!NoFormat THEN 1 ELSE w.format, crop |-> w.crop]
  OBVIOUS
<1>2. w \in D!Windows
  BY DEF Matching
<1>3. x \in D!Windows
  BY <1>1, <1>2 DEF D!Windows
<1>4. /\ x.valid = w.valid /\ x.connected = TRUE /\ x.configured = w.configured
      /\ x.requested = w.requested /\ x.cur = w.cur
      /\ x.size = (IF w.size = 0 THEN size ELSE w.size)
      /\ x.format = (IF w.format = D!NoFormat THEN 1 ELSE w.format) /\ x.crop = w.crop
  BY <1>1
<1>5. x = D!Adopted(w, size)
  BY <1>2, <1>3, <1>4 DEF D!Windows, D!Adopted
<1>6. Matching(x, q, l, tear, FALSE)
  BY <1>3, <1>4 DEF Matching, Agreeing
<1> QED BY <1>4, <1>5, <1>6

LEMMA DisplayRegistered ==
  ASSUME DevicesAssumption, NEW w, NEW q, NEW l, NEW tear, NEW size \in Sizes,
         NEW fb \in Framebuffers, NEW k \in 1..WindowSlots,
         Matching(w, q, l, tear, FALSE), w.valid, 0..k - 1 \cap w.configured = {}
  PROVE  /\ Matching(D!Registered(w, k, size), D!Preallocated(q, k, fb, size), l \cup {fb}, tear, FALSE)
         /\ D!Registered(w, k, size).valid
         /\ tear \/ D!Registered(w, k, size).cur < 0
<1> DEFINE a == D!Adopted(w, size)
           x == D!Registered(w, k, size)
           p == D!Preallocated(q, k, fb, size)
<1>1. /\ Matching(a, q, l, tear, FALSE) /\ a.valid /\ a.connected
      /\ a.configured = w.configured /\ a.cur = w.cur /\ a.requested = w.requested
  BY DisplayAdopted
<1> HIDE DEF a
<1>2. /\ WindowSlots \in Nat /\ k \in Nat /\ 0 \in 0..k - 1
      /\ \A s \in D!Slots : s \in 0..k - 1 <=> s < k
      /\ 0..k - 1 \subseteq D!Slots
  BY DisplayConstants DEF D!Slots
<1>3. /\ x = [a EXCEPT !.configured = a.configured \cup 0..k - 1]
      /\ x.valid /\ x.connected /\ x.configured = w.configured \cup 0..k - 1
      /\ x.cur = w.cur /\ x.requested = w.requested
  <2>1. x = [a EXCEPT !.configured = a.configured \cup 0..k - 1]
    BY <1>2 DEF D!Registered, a
  <2>2. a \in D!Windows
    BY <1>1 DEF Matching
  <2> QED BY <1>1, <2>1, <2>2 DEF D!Windows
<1>4. x \in D!Windows
  BY <1>1, <1>2, <1>3 DEF Matching, D!Windows
<1>5. /\ p \in [D!Slots -> D!Buffers]
      /\ \A s \in D!Slots : IF s < k THEN p[s].state = "free" /\ p[s].of = {fb} ELSE p[s] = q[s]
  <2>1. [state |-> "free", of |-> {fb}, size |-> size] \in D!Buffers
    BY DEF D!Buffers
  <2> QED BY <1>1, <2>1 DEF Matching, D!Preallocated
<1> HIDE DEF x, p
<1>6. ASSUME ~tear PROVE Held(p, l \cup {fb}) /\ Agreeing(x, p) /\ x.cur < 0
  <2>1. Held(q, l) /\ Agreeing(w, q)
    BY <1>6 DEF Matching
  <2>2. w.cur \in -1..WindowSlots - 1
    BY DEF Matching, D!Windows
  <2>3. w.configured = {}
    BY <1>2, <2>1 DEF Agreeing
  <2>4. w.cur = -1
    BY <1>2, <2>1, <2>2, <2>3 DEF Agreeing, D!Slots
  <2>5. \A s \in D!Slots : q[s].state = "empty"
    BY <2>1, <2>3 DEF Agreeing
  <2>6. \A s \in D!Slots : s # -1 /\ s \notin w.requested
    BY <2>1, <2>3 DEF Agreeing, D!Slots
  <2>7. Held(p, l \cup {fb})
    BY <1>5, <2>1 DEF Held
  <2>8. Agreeing(x, p)
    BY <1>2, <1>3, <1>5, <2>3, <2>4, <2>5, <2>6 DEF Agreeing
  <2> QED BY <1>3, <2>4, <2>7, <2>8
<1>7. l \cup {fb} \subseteq Framebuffers
  BY DEF Matching
<1> QED BY <1>3, <1>4, <1>5, <1>6, <1>7 DEF Matching, x, p

LEMMA DisplayCreate ==
  ASSUME DevicesAssumption, D!IInv, NEW fb \in Framebuffers, NEW size \in Sizes,
         NEW n \in 1..WindowSlots, D!framebufferCreate(fb, size, n)
  PROVE  D!IInv'
<1> DEFINE w(k) == D!Registered(nw, k, size)
           q(k) == D!Preallocated(queue, k, fb, size)
           Room(k) == 0..k - 1 \cap nw.configured = {}
<1>1. /\ Matching(nw, queue, live, dtorn, FALSE) /\ dtorn \in BOOLEAN /\ ~fatal /\ fatal' = FALSE
      /\ nw.valid /\ live \in SUBSET Framebuffers
  BY DisplayNow DEF Matching, D!framebufferCreate
<1>2. CASE nw' = nw /\ queue' = queue /\ live' = live /\ dtorn' = dtorn
  BY <1>1, <1>2, DisplayThen
<1>3. CASE D!ReleaseBuffers(nw, queue) /\ live' = live
  BY <1>1, <1>3, DisplayRelease
<1>4. CASE /\ \E k \in 0..n - 1 :
                /\ Room(k)
                /\ D!ReleaseBuffers(IF k \in nw.configured THEN w(k) ELSE D!Adopted(w(k), size), q(k))
           /\ live' = live
  <2>1. PICK k \in 0..n - 1 :
               /\ Room(k)
               /\ D!ReleaseBuffers(IF k \in nw.configured THEN w(k) ELSE D!Adopted(w(k), size), q(k))
    BY <1>4
  <2>2. CASE k = 0
    <3>1. w(k) = nw /\ q(k) = queue
      <4>1. queue \in [D!Slots -> D!Buffers] /\ \A s \in D!Slots : ~(s < 0)
        BY <1>1 DEF Matching, D!Slots
      <4> QED BY <2>2, <4>1 DEF D!Registered, D!Preallocated
    <3>2. Matching(D!Adopted(nw, size), queue, live, dtorn, FALSE)
      BY <1>1, DisplayAdopted
    <3> QED BY <1>1, <1>4, <2>1, <3>1, <3>2, DisplayRelease
  <2>3. CASE k # 0
    <3>1. k \in 1..WindowSlots
      BY <2>1, <2>3, DisplayConstants
    <3>2. Matching(w(k), q(k), live \cup {fb}, dtorn, FALSE) /\ w(k).valid /\ (dtorn \/ w(k).cur < 0)
      BY <1>1, <2>1, <3>1, DisplayRegistered
    <3>3. /\ Matching(D!Adopted(w(k), size), q(k), live \cup {fb}, dtorn, FALSE)
          /\ dtorn \/ D!Adopted(w(k), size).cur < 0
      BY <3>2, DisplayAdopted
    <3> HIDE DEF w, q
    <3> QED BY <1>1, <1>4, <2>1, <3>2, <3>3, DisplayRelease
  <2> QED BY <2>2, <2>3
<1>5. CASE Room(n) /\ nw' = w(n) /\ queue' = q(n) /\ live' = live \cup {fb} /\ dtorn' = dtorn
  <2>1. Matching(w(n), q(n), live \cup {fb}, dtorn, FALSE)
    BY <1>1, <1>5, DisplayRegistered
  <2> QED BY <1>1, <1>5, <2>1, DisplayThen
<1> QED BY <1>1, <1>2, <1>3, <1>4, <1>5 DEF D!framebufferCreate

LEMMA DisplaySlot ==
  ASSUME NEW q \in [D!Slots -> D!Buffers], NEW s \in D!Slots,
         NEW st \in {"empty", "free", "dequeued", "queued", "acquired"},
         NEW p, p = [q EXCEPT ![s].state = st]
  PROVE  /\ p \in [D!Slots -> D!Buffers]
         /\ \A i \in D!Slots : p[i].of = q[i].of /\ p[i].state = IF i = s THEN st ELSE q[i].state
<1>1. [q[s] EXCEPT !.state = st] \in D!Buffers
  BY DEF D!Buffers
<1>2. [q[s] EXCEPT !.state = st].of = q[s].of /\ [q[s] EXCEPT !.state = st].state = st
  BY DEF D!Buffers
<1> QED BY <1>1, <1>2

(* A slot that holds a buffer goes on to hold it; cur is the one the       *)
(* window has from then on.                                                *)
LEMMA DisplayMoves ==
  ASSUME DevicesAssumption, NEW w, NEW v \in D!Windows, NEW q, NEW l, NEW tear, NEW s \in D!Slots,
         NEW st \in {"free", "dequeued", "queued", "acquired"}, NEW end, NEW closing,
         Matching(w, q, l, tear, end), end => closing,
         ~tear => q[s].state # "empty",
         ~tear /\ ~closing =>
           /\ v.valid = w.valid /\ v.connected = w.connected /\ v.configured = w.configured
           /\ v.requested \subseteq w.requested \cup {s}
           /\ w.valid /\ st = "dequeued" => w.cur \notin D!Slots /\ v.cur = s
           /\ w.valid /\ st # "dequeued" =>
                v.cur # s /\ (v.cur = w.cur \/ (v.cur = -1 /\ w.cur = s))
  PROVE  Matching(v, [q EXCEPT ![s].state = st], l, tear, closing)
<1>1. q \in [D!Slots -> D!Buffers] /\ l \subseteq Framebuffers
  BY DEF Matching
<1> DEFINE p == [q EXCEPT ![s].state = st]
<1>2. /\ p \in [D!Slots -> D!Buffers]
      /\ \A i \in D!Slots : p[i].of = q[i].of /\ p[i].state = IF i = s THEN st ELSE q[i].state
  <2> HIDE DEF p
  <2>1. p = [q EXCEPT ![s].state = st]
    BY DEF p
  <2> QED BY <1>1, <2>1, DisplaySlot
<1> HIDE DEF p
<1>3. ASSUME ~tear PROVE Held(p, l)
  <2>1. Held(q, l) /\ q[s].state # "empty"
    BY <1>3 DEF Matching
  <2> QED BY <1>2, <2>1 DEF Held
<1>4. ASSUME ~tear, ~closing PROVE Agreeing(v, p)
  <2>1. Agreeing(w, q) /\ q[s].state # "empty"
    BY <1>4 DEF Matching
  <2>2. \A i \in D!Slots : i # -1
    BY DEF D!Slots
  <2>3. w.valid /\ w.connected /\ s \in w.configured /\ v.valid /\ v.connected
    BY <1>4, <2>1 DEF Agreeing
  <2>4. ASSUME NEW i \in D!Slots
        PROVE  /\ i \in v.configured <=> p[i].state # "empty"
               /\ i \in v.requested => i \in v.configured
               /\ p[i].state = "dequeued" <=> i = v.cur
    <3>1. /\ i \in w.configured <=> q[i].state # "empty"
          /\ i \in w.requested => i \in w.configured
          /\ q[i].state = "dequeued" <=> i = w.cur
      BY <2>1, <2>3 DEF Agreeing
    <3>2. p[i].state = IF i = s THEN st ELSE q[i].state
      BY <1>2
    <3>3. i \in v.configured <=> p[i].state # "empty"
      BY <1>4, <2>3, <3>1, <3>2
    <3>4. i \in v.requested => i \in v.configured
      BY <1>4, <2>3, <3>1
    <3>5. p[i].state = "dequeued" <=> i = v.cur
      BY <1>4, <2>2, <2>3, <3>1, <3>2
    <3> QED BY <3>3, <3>4, <3>5
  <2>5. v.configured # {} => 0 \in v.configured /\ v.connected
    BY <1>4, <2>1, <2>3 DEF Agreeing
  <2> QED BY <2>3, <2>4, <2>5 DEF Agreeing
<1> QED BY <1>1, <1>2, <1>3, <1>4 DEF Matching, p

LEMMA DisplayCurrent ==
  ASSUME DevicesAssumption, NEW w \in D!Windows, NEW c \in -1..WindowSlots - 1
  PROVE  /\ [w EXCEPT !.cur = c] \in D!Windows
         /\ [w EXCEPT !.cur = c].valid = w.valid /\ [w EXCEPT !.cur = c].connected = w.connected
         /\ [w EXCEPT !.cur = c].configured = w.configured /\ [w EXCEPT !.cur = c].cur = c
         /\ [w EXCEPT !.cur = c].requested = w.requested
BY DEF D!Windows

(* The window gives its current buffer to the queue, shown or not.         *)
LEMMA DisplayPut ==
  ASSUME DevicesAssumption, D!IInv, NEW st \in {"free", "queued"}, ~fatal, nw.valid, nw.cur >= 0,
         nw' = [nw EXCEPT !.cur = -1], queue' = [queue EXCEPT ![nw.cur].state = st],
         live' = live, dtorn' = dtorn, fatal' = FALSE
  PROVE  D!IInv'
<1>1. /\ Matching(nw, queue, live, dtorn, FALSE) /\ dtorn \in BOOLEAN /\ nw \in D!Windows
      /\ nw.cur \in D!Slots /\ nw.cur # -1 /\ -1 \in -1..WindowSlots - 1
  BY DisplayNow, DisplayConstants DEF Matching, D!Windows, D!Slots
<1>2. ~dtorn => queue[nw.cur].state # "empty"
  BY <1>1 DEF Matching, Agreeing
<1>3. Matching([nw EXCEPT !.cur = -1], [queue EXCEPT ![nw.cur].state = st], live, dtorn, FALSE)
  <2>1. PICK v \in D!Windows :
          /\ v = [nw EXCEPT !.cur = -1] /\ v.valid = nw.valid /\ v.connected = nw.connected
          /\ v.configured = nw.configured /\ v.cur = -1 /\ v.requested = nw.requested
    BY <1>1, DisplayCurrent
  <2> QED BY <1>1, <1>2, <2>1, DisplayMoves
<1> QED BY <1>1, <1>3, DisplayThen

LEMMA DisplayFatal ==
  ASSUME D!IInv, nw' = nw, queue' = queue, live' = live, dtorn' = dtorn, fatal' = TRUE
  PROVE  D!IInv'
<1>1. Matching(nw, queue, live, dtorn, TRUE) /\ dtorn \in BOOLEAN
  BY DisplayNow DEF Matching
<1> QED BY <1>1, DisplayThen

LEMMA DisplayBegin ==
  ASSUME DevicesAssumption, D!IInv, NEW fb \in Framebuffers, D!framebufferBegin(fb)
  PROVE  D!IInv'
<1>1. /\ Matching(nw, queue, live, dtorn, FALSE) /\ dtorn \in BOOLEAN /\ nw \in D!Windows
      /\ live' = live /\ dtorn' = dtorn
  BY DisplayNow DEF Matching, D!framebufferBegin
<1>2. CASE D!nwindowDequeueBuffer
  <2>1. PICK s \in D!Slots :
          /\ queue[s].state = "free" /\ nw.valid /\ nw.cur < 0
          /\ \/ /\ nw' = [nw EXCEPT !.cur = s, !.requested = @ \cup {s}]
                /\ queue' = [queue EXCEPT ![s].state = "dequeued"]
                /\ fatal' = FALSE
             \/ /\ \E st \in {"free", "dequeued"} : queue' = [queue EXCEPT ![s].state = st]
                /\ nw' = nw /\ fatal' = TRUE
    BY <1>2 DEF D!nwindowDequeueBuffer
  <2>2. CASE /\ nw' = [nw EXCEPT !.cur = s, !.requested = @ \cup {s}]
             /\ queue' = [queue EXCEPT ![s].state = "dequeued"] /\ fatal' = FALSE
    <3>1. PICK x : x = [valid |-> nw.valid, connected |-> nw.connected, configured |-> nw.configured,
                        requested |-> nw.requested \cup {s}, cur |-> s, size |-> nw.size,
                        format |-> nw.format, crop |-> nw.crop]
      OBVIOUS
    <3>2. s \in -1..WindowSlots - 1 /\ nw.cur \notin D!Slots
      BY <2>1, DisplayConstants DEF D!Slots
    <3>3. x \in D!Windows
      BY <1>1, <3>1, <3>2 DEF D!Windows
    <3>4. /\ x.valid = nw.valid /\ x.connected = nw.connected /\ x.configured = nw.configured
          /\ x.requested = nw.requested \cup {s} /\ x.cur = s /\ x.size = nw.size
          /\ x.format = nw.format /\ x.crop = nw.crop
      BY <3>1
    <3>5. x = [nw EXCEPT !.cur = s, !.requested = @ \cup {s}]
      BY <1>1, <3>3, <3>4 DEF D!Windows
    <3>6. Matching(x, [queue EXCEPT ![s].state = "dequeued"], live, dtorn, FALSE)
      BY <1>1, <2>1, <3>2, <3>3, <3>4, DisplayMoves
    <3> QED BY <1>1, <2>2, <3>5, <3>6, DisplayThen
  <2>3. CASE /\ \E st \in {"free", "dequeued"} : queue' = [queue EXCEPT ![s].state = st]
             /\ nw' = nw /\ fatal' = TRUE
    <3>1. PICK st \in {"free", "dequeued"} : queue' = [queue EXCEPT ![s].state = st]
      BY <2>3
    <3> DEFINE p == [queue EXCEPT ![s].state = st]
    <3>2. Matching(nw, p, live, dtorn, TRUE) /\ queue' = p
      BY <1>1, <2>1, <3>1, DisplayMoves
    <3> HIDE DEF p
    <3>3. dtorn \in BOOLEAN /\ nw' = nw /\ live' = live /\ dtorn' = dtorn /\ fatal' = TRUE
      BY <1>1, <2>3
    <3> QED BY <3>2, <3>3, DisplayThen
  <2> QED BY <2>1, <2>2, <2>3
<1>3. CASE fatal' = TRUE /\ nw' = nw /\ queue' = queue
  BY <1>1, <1>3, DisplayFatal
<1> QED BY <1>2, <1>3 DEF D!framebufferBegin

LEMMA DisplayCompose ==
  ASSUME DevicesAssumption, D!IInv, D!Compose PROVE D!IInv'
<1>1. /\ Matching(nw, queue, live, dtorn, fatal) /\ dtorn \in BOOLEAN /\ fatal \in BOOLEAN
      /\ nw \in D!Windows /\ nw' = nw /\ live' = live /\ dtorn' = dtorn /\ fatal' = fatal
  BY DisplayNow DEF Matching, D!Compose
<1>2. PICK s \in D!Slots, st \in {"acquired", "free"} :
        queue[s].state \in {"queued", "acquired"} /\ queue' = [queue EXCEPT ![s].state = st]
  BY DEF D!Compose
<1>3. ~dtorn /\ ~fatal /\ nw.valid => nw.cur # s
  BY <1>1, <1>2 DEF Matching, Agreeing
<1>4. Matching(nw, [queue EXCEPT ![s].state = st], live, dtorn, fatal)
  <2>1. CASE fatal = TRUE
    <3>1. Matching(nw, queue, live, dtorn, TRUE)
      BY <1>1, <2>1
    <3>2. Matching(nw, [queue EXCEPT ![s].state = st], live, dtorn, TRUE)
      BY <1>1, <1>2, <3>1, DisplayMoves
    <3> QED BY <2>1, <3>2
  <2>2. CASE fatal = FALSE
    <3>1. Matching(nw, queue, live, dtorn, FALSE)
      BY <1>1, <2>2
    <3>2. /\ ~dtorn => queue[s].state # "empty"
          /\ ~dtorn /\ nw.valid => nw.cur # s
          /\ nw.requested \subseteq nw.requested \cup {s}
          /\ s \in D!Slots /\ st # "dequeued" /\ st \in {"free", "dequeued", "queued", "acquired"}
      BY <1>2, <1>3, <2>2
    <3>3. Matching(nw, [queue EXCEPT ![s].state = st], live, dtorn, FALSE)
      BY <1>1, <3>1, <3>2, DisplayMoves
    <3> QED BY <2>2, <3>3
  <2> QED BY <1>1, <2>1, <2>2
<1> QED BY <1>1, <1>2, <1>4, DisplayThen

LEMMA DisplayStep ==
  ASSUME DevicesAssumption, D!IInv, D!Next PROVE D!IInv'
<1>1. CASE D!nwindowReleaseBuffers
  <2>1. Matching(nw, queue, live, dtorn, FALSE) /\ dtorn \in BOOLEAN /\ fatal' = FALSE /\ live' = live
        /\ live \in SUBSET Framebuffers /\ D!ReleaseBuffers(nw, queue)
    BY <1>1, DisplayNow DEF Matching, D!nwindowReleaseBuffers
  <2> QED BY <2>1, DisplayRelease
<1>2. ASSUME NEW fb \in Framebuffers, D!framebufferClose(fb) PROVE D!IInv'
  <2>1. /\ Matching(nw, queue, live, dtorn, FALSE) /\ dtorn \in BOOLEAN /\ fatal' = FALSE
        /\ nw.valid => nw.cur < 0
        /\ live' = live \ {fb} /\ live \ {fb} \in SUBSET Framebuffers /\ D!ReleaseBuffers(nw, queue)
    BY <1>2, DisplayNow DEF Matching, D!framebufferClose
  <2> QED BY <2>1, DisplayRelease
<1>3. CASE D!nwindowCancelBuffer
  BY <1>3, DisplayNow, DisplayPut DEF D!nwindowCancelBuffer
<1>4. ASSUME NEW fb \in Framebuffers, D!framebufferEnd(fb) PROVE D!IInv'
  <2>1. fatal = FALSE /\ live' = live /\ dtorn' = dtorn
    BY <1>4, DisplayNow DEF D!framebufferEnd
  <2> QED BY <1>4, <2>1, DisplayPut, DisplayFatal DEF D!framebufferEnd
<1>5. ASSUME NEW size \in Sizes, D!nwindowSetDimensions(size) PROVE D!IInv'
  <2>1. 0 \in Int
    OBVIOUS
  <2> QED BY <1>5, <2>1, DisplayShape
<1>6. ASSUME NEW left \in Margins, NEW right \in Margins, D!nwindowSetCrop(left, right) PROVE D!IInv'
  BY <1>6, DisplayShape, DisplayConstants
<1> QED BY <1>1, <1>2, <1>3, <1>4, <1>5, <1>6, DisplayOpen, DisplayBegin, DisplayCompose, DisplayCreate
        DEF D!Next

-----------------------------------------------------------------------------
(* Memory: the pages that belong to an object by the program's fields      *)
(* (slices sl, made objects md, executable ones ex) are those the kernel   *)
(* has mapped (m) for it, unless an error left a mapping behind (tear).    *)

Span(o, sl, md, ex) ==
  IF o \in M!Jits
  THEN IF o \in md /\ (o \in ex \/ o \in JitJits) THEN M!Pages(sl[o].map, Size[o]) ELSE {}
  ELSE IF sl[o].map = M!None THEN {} ELSE M!Pages(sl[o].map, Size[o])

SpanRw(o, sl, md) ==
  IF o \in JitJits /\ o \in md THEN M!Pages(sl[o].rw, Size[o]) ELSE {}

Covers(m, o, k, pages) ==
  pages \subseteq M!Space /\ \A p \in M!Space : m[p] = <<o, k>> <=> p \in pages

Sound(o, m, sl, md, ex, tear) ==
  /\ o \notin tear => Covers(m, o, "map", Span(o, sl, md, ex)) /\ Covers(m, o, "rw", SpanRw(o, sl, md))
  /\ o \notin M!Jits /\ sl[o].map # M!None => o \in md
  /\ o \notin JitJits => \A p \in M!Space : m[p] # <<o, "rw">>

Typed(m, sl, md, ex, tear) ==
  /\ m \in [M!Space -> {M!Free, <<"program">>} \cup (M!Objects \X {"map", "rw"})]
  /\ sl \in [M!Objects -> [map : {M!None} \cup M!Space, rw : {M!None} \cup M!Space]]
  /\ md \subseteq M!Objects /\ ex \subseteq M!Jits /\ tear \subseteq M!Jits \cup Thrds

(* What others have, and room for one more. *)
Same(o, m, sl, md, ex, tear) ==
  /\ sl[o] = slice[o] /\ (o \in md <=> o \in made) /\ (o \in ex <=> o \in exec)
  /\ o \in mtorn => o \in tear
  /\ \A p \in M!Space, k \in {"map", "rw"} : m[p] = <<o, k>> <=> maps[p] = <<o, k>>

OthersStay(j, m) ==
  \A p \in M!Space, i \in M!Objects, l \in {"map", "rw"} :
    i # j => (m[p] = <<i, l>> <=> maps[p] = <<i, l>>)

Vacant(m, a, size) == \A p \in M!Pages(a, size) : p \in M!Space /\ m[p] = M!Free

(* n is m with the pages mapped for o. *)
Gains(n, m, o, k, pages) ==
  /\ n \in [M!Space -> {M!Free, <<"program">>} \cup (M!Objects \X {"map", "rw"})]
  /\ pages \subseteq M!Space
  /\ \A p \in M!Space, i \in M!Objects, l \in {"map", "rw"} :
       n[p] = <<i, l>> <=> m[p] = <<i, l>> \/ (i = o /\ l = k /\ p \in pages)

LEMMA MemoryKinds ==
  ASSUME DevicesAssumption
  PROVE  /\ \A o \in M!Objects : Size[o] \in Nat \ {0}
         /\ M!None \notin M!Space /\ M!Space \subseteq Int
         /\ \A o \in M!Objects :
              /\ o \in M!Jits <=> o \notin Tmems \cup Shmems \cup Thrds
              /\ o \in CodeJits => o \notin JitJits
              /\ o \in Shmems => o \notin Tmems
              /\ o \in Thrds => o \notin Shmems
         /\ M!Jits \subseteq M!Objects /\ Tmems \cup Shmems \cup Thrds \subseteq M!Objects
         /\ CodeJits \subseteq M!Jits /\ JitJits \subseteq M!Jits
<1>1. \A i, j \in 1..5 :
        i # j => <<Tmems, Shmems, CodeJits, JitJits, Thrds>>[i]
                   \cap <<Tmems, Shmems, CodeJits, JitJits, Thrds>>[j] = {}
  BY DEF DevicesAssumption, M!MemoryAssumption
<1>2. /\ Tmems \cap Shmems = {} /\ Tmems \cap CodeJits = {} /\ Tmems \cap JitJits = {}
      /\ Tmems \cap Thrds = {} /\ Shmems \cap CodeJits = {} /\ Shmems \cap JitJits = {}
      /\ Shmems \cap Thrds = {} /\ CodeJits \cap JitJits = {} /\ CodeJits \cap Thrds = {}
      /\ JitJits \cap Thrds = {}
  BY <1>1
<1>3. Size \in [M!Objects -> Nat \ {0}] /\ M!None \notin M!Space /\ M!Space \subseteq Int
  BY DEF DevicesAssumption, M!MemoryAssumption, M!None, M!Space
<1> QED BY <1>2, <1>3 DEF M!Objects, M!Jits

LEMMA MemoryNow ==
  ASSUME DevicesAssumption, M!IInv
  PROVE  /\ Typed(maps, slice, made, exec, mtorn) /\ src = heap /\ heap = made \ Shmems
         /\ \A o \in M!Objects : Sound(o, maps, slice, made, exec, mtorn)
<1>1. M!MemoryTyped /\ M!OnlyMade /\ M!MappingsAgree
  BY DEF M!IInv
<1>2. ASSUME NEW o \in M!Objects PROVE Sound(o, maps, slice, made, exec, mtorn)
  <2>1. ASSUME o \notin mtorn PROVE Covers(maps, o, "map", Span(o, slice, made, exec))
    <3>1. M!Mapped(o, "map") = Span(o, slice, made, exec)
      BY <1>1, <2>1, MemoryKinds DEF M!MappingsAgree, Span
    <3> QED BY <3>1 DEF M!Mapped, Covers
  <2>2. ASSUME o \notin mtorn PROVE Covers(maps, o, "rw", SpanRw(o, slice, made))
    <3>1. M!Mapped(o, "rw") = SpanRw(o, slice, made)
      BY <1>1, <2>2, MemoryKinds DEF M!MappingsAgree, M!OnlyMade, SpanRw
    <3> QED BY <3>1 DEF M!Mapped, Covers
  <2>3. o \notin M!Jits /\ slice[o].map # M!None => o \in made
    BY <1>1, MemoryKinds DEF M!OnlyMade
  <2>4. o \notin JitJits => \A p \in M!Space : maps[p] # <<o, "rw">>
    BY <1>1 DEF M!OnlyMade, M!Mapped
  <2> QED BY <2>1, <2>2, <2>3, <2>4 DEF Sound
<1> QED BY <1>1, <1>2 DEF M!MemoryTyped, Typed, M!OnlyMade, M!MappingsAgree

LEMMA MemoryThen ==
  ASSUME DevicesAssumption, NEW m, NEW sl, NEW md, NEW ex, NEW tear,
         Typed(m, sl, md, ex, tear), \A o \in M!Objects : Sound(o, m, sl, md, ex, tear),
         maps' = m, slice' = sl, made' = md, exec' = ex, mtorn' = tear,
         heap' = md \ Shmems, src' = heap'
  PROVE  M!IInv'
<1>1. M!MemoryTyped'
  BY DEF Typed, M!MemoryTyped
<1>2. ASSUME NEW o \in M!Objects, o \notin tear
      PROVE  /\ M!Mapped(o, "map")' = Span(o, sl, md, ex)
             /\ M!Mapped(o, "rw")' = SpanRw(o, sl, md)
  BY <1>2 DEF Sound, Covers, M!Mapped
<1>3. M!OnlyMade'
  <2>1. \A o \in Tmems \cup Shmems \cup Thrds : sl[o].map # M!None => o \in md
    BY MemoryKinds DEF Sound
  <2>2. \A o \in M!Objects \ JitJits : M!Mapped(o, "rw")' = {}
    BY DEF Sound, M!Mapped
  <2> QED BY <2>1, <2>2 DEF M!OnlyMade
<1>4. M!MappingsAgree'
  <2>1. \A o \in (Tmems \cup Shmems \cup Thrds) \ tear :
          M!Mapped(o, "map")' = IF sl[o].map = M!None THEN {} ELSE M!Pages(sl[o].map, Size[o])
    BY <1>2, MemoryKinds DEF Span
  <2>2. \A o \in M!Jits \ tear :
          /\ M!Mapped(o, "map")' = IF o \in md /\ (o \in ex \/ o \in JitJits)
                                   THEN M!Pages(sl[o].map, Size[o]) ELSE {}
          /\ M!Mapped(o, "rw")' = IF o \in JitJits \cap md THEN M!Pages(sl[o].rw, Size[o]) ELSE {}
    BY <1>2, MemoryKinds DEF Span, SpanRw
  <2>3. ASSUME NEW o \in M!Objects \ (Shmems \cup tear), NEW k \in {"map", "rw"},
               M!Mapped(o, k)' # {}
        PROVE  o \in heap'
    <3>1. o \in md
      <4>1. Span(o, sl, md, ex) # {} \/ SpanRw(o, sl, md) # {}
        BY <1>2, <2>3
      <4>2. o \notin M!Jits /\ sl[o].map # M!None => o \in md
        BY DEF Sound
      <4> QED BY <4>1, <4>2 DEF Span, SpanRw
    <3> QED BY <3>1
  <2> QED BY <2>1, <2>2, <2>3 DEF M!MappingsAgree
<1> QED BY <1>1, <1>3, <1>4 DEF M!IInv

LEMMA MemoryMapped ==
  ASSUME DevicesAssumption, NEW m, NEW o \in M!Objects, NEW k \in {"map", "rw"}, NEW a \in M!Space,
         m \in [M!Space -> {M!Free, <<"program">>} \cup (M!Objects \X {"map", "rw"})],
         Vacant(m, a, Size[o]),
         NEW n, n = M!Map(m, a, o, k)
  PROVE  Gains(n, m, o, k, M!Pages(a, Size[o]))
<1>1. n = [p \in M!Space |-> IF p \in M!Pages(a, Size[o]) THEN <<o, k>> ELSE m[p]]
  BY DEF M!Map
<1>2. ASSUME NEW p \in M!Space, NEW i \in M!Objects, NEW l \in {"map", "rw"}
      PROVE  n[p] = <<i, l>> <=> m[p] = <<i, l>> \/ (i = o /\ l = k /\ p \in M!Pages(a, Size[o]))
  <2>1. CASE p \in M!Pages(a, Size[o])
    <3>1. m[p] # <<i, l>> /\ n[p] = <<o, k>>
      BY <1>1, <2>1 DEF M!Free, Vacant
    <3> QED BY <2>1, <3>1
  <2>2. CASE p \notin M!Pages(a, Size[o])
    BY <1>1, <2>2
  <2> QED BY <2>1, <2>2
<1> QED BY <1>1, <1>2 DEF Vacant, Gains

LEMMA MemoryUnmapped ==
  ASSUME NEW m, NEW o \in M!Objects, NEW k \in {"map", "rw"},
         m \in [M!Space -> {M!Free, <<"program">>} \cup (M!Objects \X {"map", "rw"})],
         NEW n, n = M!Unmap(m, o, k)
  PROVE  /\ n \in [M!Space -> {M!Free, <<"program">>} \cup (M!Objects \X {"map", "rw"})]
         /\ \A p \in M!Space, i \in M!Objects, l \in {"map", "rw"} :
              n[p] = <<i, l>> <=> m[p] = <<i, l>> /\ ~(i = o /\ l = k)
<1>1. n = [p \in M!Space |-> IF m[p] = <<o, k>> THEN M!Free ELSE m[p]]
  BY DEF M!Unmap
<1>2. ASSUME NEW p \in M!Space, NEW i \in M!Objects, NEW l \in {"map", "rw"}
      PROVE  n[p] = <<i, l>> <=> m[p] = <<i, l>> /\ ~(i = o /\ l = k)
  BY <1>1 DEF M!Free
<1> QED BY <1>1, <1>2

(* A step that concerns one object.                                        *)
LEMMA MemoryOne ==
  ASSUME DevicesAssumption, M!IInv, NEW x \in M!Objects, NEW m, NEW sl, NEW md, NEW ex, NEW tear,
         Typed(m, sl, md, ex, tear), Sound(x, m, sl, md, ex, tear),
         \A o \in M!Objects : o # x => Same(o, m, sl, md, ex, tear),
         maps' = m, slice' = sl, made' = md, exec' = ex, mtorn' = tear,
         heap' = md \ Shmems, src' = heap'
  PROVE  M!IInv'
<1>1. \A o \in M!Objects : Sound(o, maps, slice, made, exec, mtorn)
  BY MemoryNow
<1>2. ASSUME NEW o \in M!Objects, o # x PROVE Sound(o, m, sl, md, ex, tear)
  <2>1. Span(o, sl, md, ex) = Span(o, slice, made, exec) /\ SpanRw(o, sl, md) = SpanRw(o, slice, made)
    BY <1>2 DEF Span, SpanRw, Same
  <2>2. ASSUME NEW k \in {"map", "rw"}, NEW pages, Covers(maps, o, k, pages)
        PROVE  Covers(m, o, k, pages)
    BY <1>2, <2>2 DEF Covers, Same
  <2>3. Sound(o, maps, slice, made, exec, mtorn)
    BY <1>1
  <2> QED BY <1>2, <2>1, <2>2, <2>3 DEF Sound, Same
<1> QED BY <1>2, MemoryThen

LEMMA MemoryFacts ==
  ASSUME DevicesAssumption, M!IInv
  PROVE  /\ maps \in [M!Space -> {M!Free, <<"program">>} \cup (M!Objects \X {"map", "rw"})]
         /\ slice \in [M!Objects -> [map : {M!None} \cup M!Space, rw : {M!None} \cup M!Space]]
         /\ made \subseteq M!Objects /\ exec \subseteq M!Jits /\ mtorn \subseteq M!Jits \cup Thrds
         /\ src = heap /\ heap = made \ Shmems
         /\ \A o \in M!Objects : Sound(o, maps, slice, made, exec, mtorn)
BY MemoryNow DEF Typed

LEMMA MemoryCreate ==
  ASSUME DevicesAssumption, M!IInv, NEW o \in Tmems \cup Shmems, M!Create(o)
  PROVE  M!IInv'
<1>1. /\ o \in M!Objects /\ o \notin M!Jits /\ o \notin JitJits /\ (o \in Tmems <=> o \notin Shmems)
      /\ maps' = maps /\ slice' = slice /\ exec' = exec /\ mtorn' = mtorn /\ made' = made \cup {o}
      /\ src' = src \cup ({o} \cap Tmems) /\ heap' = heap \cup ({o} \cap Tmems)
  BY MemoryKinds DEF M!Create
<1>2. Sound(o, maps, slice, made \cup {o}, exec, mtorn)
  <2>1. Sound(o, maps, slice, made, exec, mtorn)
    BY <1>1, MemoryFacts
  <2>2. /\ Span(o, slice, made \cup {o}, exec) = Span(o, slice, made, exec)
        /\ SpanRw(o, slice, made \cup {o}) = SpanRw(o, slice, made)
    BY <1>1 DEF Span, SpanRw
  <2> QED BY <2>1, <2>2 DEF Sound
<1>3. heap' = (made \cup {o}) \ Shmems /\ src' = heap'
  BY <1>1, MemoryFacts
<1>4. Typed(maps, slice, made \cup {o}, exec, mtorn)
  BY <1>1, MemoryFacts DEF Typed
<1>5. \A i \in M!Objects : i # o => Same(i, maps, slice, made \cup {o}, exec, mtorn)
  BY DEF Same
<1> QED BY <1>1, <1>2, <1>3, <1>4, <1>5, MemoryOne

(* What is mapped for an object that is no JIT buffer and had no mapping.  *)
LEMMA MemoryPlaced ==
  ASSUME DevicesAssumption, M!IInv, NEW o \in M!Objects, o \notin M!Jits, slice[o].map = M!None,
         NEW a \in M!Space, Vacant(maps, a, Size[o]), NEW md \in {made, made \cup {o}}, o \in md,
         maps' = M!Map(maps, a, o, "map"), slice' = [slice EXCEPT ![o].map = a],
         made' = md, exec' = exec, mtorn' = mtorn, heap' = md \ Shmems, src' = heap'
  PROVE  M!IInv'
<1>1. /\ maps \in [M!Space -> {M!Free, <<"program">>} \cup (M!Objects \X {"map", "rw"})]
      /\ Sound(o, maps, slice, made, exec, mtorn) /\ o \notin JitJits
  BY MemoryFacts, MemoryKinds
<1>2. PICK n : n = M!Map(maps, a, o, "map")
  OBVIOUS
<1>3. PICK sl : sl = [slice EXCEPT ![o].map = a]
  OBVIOUS
<1>4. Gains(n, maps, o, "map", M!Pages(a, Size[o]))
  BY <1>1, <1>2, MemoryMapped
<1>5. /\ sl \in [M!Objects -> [map : {M!None} \cup M!Space, rw : {M!None} \cup M!Space]]
      /\ sl[o].map = a /\ a # M!None /\ \A i \in M!Objects : i # o => sl[i] = slice[i]
  BY <1>3, MemoryFacts, MemoryKinds
<1>6. Typed(n, sl, md, exec, mtorn)
  BY <1>4, <1>5, MemoryFacts DEF Typed, Gains
<1>7. Sound(o, n, sl, md, exec, mtorn)
  <2>1. /\ Span(o, slice, made, exec) = {} /\ Span(o, sl, md, exec) = M!Pages(a, Size[o])
        /\ SpanRw(o, slice, made) = {} /\ SpanRw(o, sl, md) = {}
    BY <1>1, <1>5 DEF Span, SpanRw
  <2>2. Covers(maps, o, "map", {}) => Covers(n, o, "map", M!Pages(a, Size[o]))
    BY <1>4 DEF Covers, Gains
  <2>3. Covers(maps, o, "rw", {}) => Covers(n, o, "rw", {})
    BY <1>4 DEF Covers, Gains
  <2>4. \A p \in M!Space : n[p] = <<o, "rw">> <=> maps[p] = <<o, "rw">>
    BY <1>4 DEF Gains
  <2> QED BY <1>1, <2>1, <2>2, <2>3, <2>4 DEF Sound
<1>8. \A i \in M!Objects : i # o => Same(i, n, sl, md, exec, mtorn)
  BY <1>4, <1>5 DEF Same, Gains
<1> QED BY <1>2, <1>3, <1>6, <1>7, <1>8, MemoryOne

(* The mappings, slices and objects stay as they are. *)
LEMMA MemoryStays ==
  ASSUME DevicesAssumption, M!IInv, maps' = maps, slice' = slice, made' = made, exec' = exec,
         mtorn' = mtorn, heap' = heap, src' = src
  PROVE  M!IInv'
BY MemoryNow, MemoryThen

LEMMA MemoryMap ==
  ASSUME DevicesAssumption, M!IInv, NEW o \in Tmems \cup Shmems, M!MapObject(o)
  PROVE  M!IInv'
<1>1. /\ o \in M!Objects /\ o \notin M!Jits /\ o \in made /\ slice[o].map = M!None
      /\ exec' = exec /\ mtorn' = mtorn /\ made' = made /\ src' = src /\ heap' = heap
      /\ src = heap /\ heap = made \ Shmems
  BY MemoryKinds, MemoryFacts DEF M!MapObject
<1>2. CASE maps' = maps /\ slice' = slice
  BY <1>1, <1>2, MemoryStays
<1>3. ASSUME NEW a \in M!Space, M!Mappable(maps, a, Size[o]),
             maps' = M!Map(maps, a, o, "map"), slice' = [slice EXCEPT ![o].map = a]
      PROVE  M!IInv'
  <2>1. Vacant(maps, a, Size[o])
    BY <1>3 DEF M!Mappable, Vacant
  <2> QED BY <1>1, <1>3, <2>1, MemoryPlaced
<1> QED BY <1>2, <1>3 DEF M!MapObject, M!CanReserve, M!Fits

(* What is unmapped is all of an object's, or nothing. *)
LEMMA MemoryUnmap ==
  ASSUME DevicesAssumption, M!IInv, NEW o \in M!Objects, o \notin M!Jits,
         NEW m, m = M!Unmap(maps, o, "map"), NEW sl, sl = [slice EXCEPT ![o].map = M!None],
         NEW md \in {made, made \ {o}}
  PROVE  /\ Typed(m, sl, md, exec, mtorn) /\ Sound(o, m, sl, md, exec, mtorn)
         /\ \A i \in M!Objects : i # o => Same(i, m, sl, md, exec, mtorn)
<1>1. /\ maps \in [M!Space -> {M!Free, <<"program">>} \cup (M!Objects \X {"map", "rw"})]
      /\ Sound(o, maps, slice, made, exec, mtorn) /\ o \notin JitJits
  BY MemoryFacts, MemoryKinds
<1>2. /\ m \in [M!Space -> {M!Free, <<"program">>} \cup (M!Objects \X {"map", "rw"})]
      /\ \A p \in M!Space, i \in M!Objects, l \in {"map", "rw"} :
           m[p] = <<i, l>> <=> maps[p] = <<i, l>> /\ ~(i = o /\ l = "map")
  BY <1>1, MemoryUnmapped
<1>3. /\ sl \in [M!Objects -> [map : {M!None} \cup M!Space, rw : {M!None} \cup M!Space]]
      /\ sl[o].map = M!None /\ \A i \in M!Objects : i # o => sl[i] = slice[i]
  BY MemoryFacts
<1>4. Typed(m, sl, md, exec, mtorn)
  BY <1>2, <1>3, MemoryFacts DEF Typed
<1>5. Sound(o, m, sl, md, exec, mtorn)
  <2>1. /\ Span(o, sl, md, exec) = {} /\ SpanRw(o, sl, md) = {}
        /\ SpanRw(o, slice, made) = {}
    BY <1>1, <1>3 DEF Span, SpanRw
  <2>2. Covers(m, o, "map", {})
    BY <1>2 DEF Covers
  <2>3. \A p \in M!Space : m[p] # <<o, "rw">>
    BY <1>1, <1>2 DEF Sound
  <2>4. Covers(m, o, "rw", {})
    BY <2>3 DEF Covers
  <2> QED BY <1>3, <2>1, <2>2, <2>3, <2>4 DEF Sound
<1>6. \A i \in M!Objects : i # o => Same(i, m, sl, md, exec, mtorn)
  BY <1>2, <1>3 DEF Same
<1> QED BY <1>4, <1>5, <1>6

LEMMA MemoryRelease ==
  ASSUME DevicesAssumption, M!IInv, NEW o \in Tmems \cup Shmems, M!UnmapObject(o) \/ M!Close(o)
  PROVE  M!IInv'
<1>1. /\ o \in M!Objects /\ o \notin M!Jits /\ o \notin JitJits /\ o \in made
      /\ exec' = exec /\ mtorn' = mtorn /\ src = heap /\ heap = made \ Shmems
      /\ Sound(o, maps, slice, made, exec, mtorn)
  BY MemoryKinds, MemoryFacts DEF M!UnmapObject, M!Close
<1>2. ASSUME NEW md \in {made, made \ {o}}, maps' = M!Unmap(maps, o, "map"),
             slice' = [slice EXCEPT ![o].map = M!None], made' = md, heap' = md \ Shmems, src' = heap'
      PROVE  M!IInv'
  <2>1. PICK m : m = M!Unmap(maps, o, "map")
    OBVIOUS
  <2>2. PICK sl : sl = [slice EXCEPT ![o].map = M!None]
    OBVIOUS
  <2>3. /\ Typed(m, sl, md, exec, mtorn) /\ Sound(o, m, sl, md, exec, mtorn)
        /\ \A i \in M!Objects : i # o => Same(i, m, sl, md, exec, mtorn)
    BY <1>1, <1>2, <2>1, <2>2, MemoryUnmap
  <2> QED BY <1>1, <1>2, <2>1, <2>2, <2>3, MemoryOne
<1>3. CASE M!UnmapObject(o)
  BY <1>1, <1>2, <1>3 DEF M!UnmapObject
<1>4. CASE M!Close(o)
  <2>1. PICK done \in BOOLEAN :
          /\ M!Unmapped(o, done)
          /\ maps' = IF done THEN M!Unmap(maps, o, "map") ELSE maps
          /\ slice' = [slice EXCEPT ![o].map = IF done THEN M!None ELSE @]
    BY <1>4 DEF M!Close
  <2>2. /\ made' = made \ {o} /\ heap' = made' \ Shmems /\ src' = heap'
    BY <1>1, <1>4 DEF M!Close
  <2>3. CASE done = TRUE
    BY <1>2, <2>1, <2>2, <2>3
  <2>4. CASE done = FALSE
    <3>1. maps' = maps /\ slice' = slice /\ slice[o].map = M!None
      BY <1>1, <2>1, <2>4, MemoryFacts DEF M!Unmapped
    <3>2. Typed(maps, slice, made \ {o}, exec, mtorn)
      BY MemoryFacts DEF Typed
    <3>3. Sound(o, maps, slice, made \ {o}, exec, mtorn)
      <4>1. /\ Span(o, slice, made \ {o}, exec) = Span(o, slice, made, exec)
            /\ SpanRw(o, slice, made \ {o}) = SpanRw(o, slice, made)
        BY <1>1 DEF Span, SpanRw
      <4> QED BY <1>1, <3>1, <4>1 DEF Sound
    <3>4. \A i \in M!Objects : i # o => Same(i, maps, slice, made \ {o}, exec, mtorn)
      BY DEF Same
    <3> QED BY <1>1, <2>2, <3>1, <3>2, <3>3, <3>4, MemoryOne
  <2> QED BY <2>3, <2>4
<1> QED BY <1>3, <1>4

LEMMA MemoryThread ==
  ASSUME DevicesAssumption, M!IInv, NEW t \in Thrds, M!threadCreate(t) \/ M!threadClose(t)
  PROVE  M!IInv'
<1>1. /\ t \in M!Objects /\ t \notin M!Jits /\ t \notin JitJits /\ t \notin Shmems
      /\ exec' = exec /\ src = heap /\ heap = made \ Shmems
      /\ Sound(t, maps, slice, made, exec, mtorn)
  BY MemoryKinds, MemoryFacts DEF M!threadCreate, M!threadClose
<1>2. CASE M!threadCreate(t)
  <2>1. t \notin made /\ slice[t].map = M!None /\ mtorn' = mtorn
    BY <1>1, <1>2 DEF Sound, M!threadCreate
  <2>2. ASSUME NEW a \in M!Space, \A p \in M!Pages(a, Size[t]) : M!In(M!Stacks, p) /\ maps[p] = M!Free,
               maps' = M!Map(maps, a, t, "map"), slice' = [slice EXCEPT ![t].map = a],
               src' = src \cup {t}, heap' = heap \cup {t}, made' = made \cup {t}
        PROVE  M!IInv'
    <3>1. Vacant(maps, a, Size[t])
      <4>1. \A p \in M!Pages(a, Size[t]) : p \in Int
        BY DEF M!Pages
      <4>2. \A p \in Int : M!In(M!Stacks, p) => p \in M!Space
        <5>1. /\ 1 \in 1..Len(Regions) /\ Regions \in Seq([start : Nat, end : Nat])
              /\ \A i \in 1..Len(Regions) : Regions[i].start >= Start /\ Regions[i].end <= End
              /\ Start \in Nat /\ End \in Nat
          BY DEF DevicesAssumption, M!MemoryAssumption
        <5>2. Regions[1] \in [start : Nat, end : Nat]
          BY <5>1, ElementOfSeq
        <5>3. Regions[1].start \in Nat /\ Regions[1].end \in Nat
          BY <5>2
        <5> QED BY <5>1, <5>3 DEF M!In, M!Stacks, M!Space
      <4> QED BY <2>2, <4>1, <4>2 DEF Vacant
    <3> QED BY <1>1, <2>1, <2>2, <3>1, MemoryPlaced
  <2>3. CASE UNCHANGED <<maps, slice, handle, src, heap, made>>
    BY <1>1, <2>1, <2>3, MemoryStays
  <2> QED BY <1>2, <2>2, <2>3 DEF M!threadCreate, M!FitsStack
<1>3. CASE M!threadClose(t)
  <2>1. PICK sl : sl = [slice EXCEPT ![t].map = M!None]
    OBVIOUS
  <2>2. /\ slice' = sl /\ made' = made \ {t} /\ heap' = made' \ Shmems /\ src' = heap'
    BY <1>1, <1>3, <2>1 DEF M!threadClose
  <2>3. CASE maps' = M!Unmap(maps, t, "map") /\ mtorn' = mtorn
    <3>1. PICK m : m = M!Unmap(maps, t, "map")
      OBVIOUS
    <3>2. /\ Typed(m, sl, made \ {t}, exec, mtorn) /\ Sound(t, m, sl, made \ {t}, exec, mtorn)
          /\ \A i \in M!Objects : i # t => Same(i, m, sl, made \ {t}, exec, mtorn)
      BY <1>1, <2>1, <3>1, MemoryUnmap
    <3> QED BY <1>1, <2>2, <2>3, <3>1, <3>2, MemoryOne
  <2>4. CASE maps' = maps /\ mtorn' = mtorn \cup {t}
    <3>1. /\ sl \in [M!Objects -> [map : {M!None} \cup M!Space, rw : {M!None} \cup M!Space]]
          /\ sl[t].map = M!None /\ \A i \in M!Objects : i # t => sl[i] = slice[i]
      BY <1>1, <2>1, MemoryFacts
    <3>2. Typed(maps, sl, made \ {t}, exec, mtorn \cup {t})
      BY <3>1, MemoryFacts DEF Typed
    <3>3. Sound(t, maps, sl, made \ {t}, exec, mtorn \cup {t})
      BY <1>1, <3>1 DEF Sound
    <3>4. \A i \in M!Objects : i # t => Same(i, maps, sl, made \ {t}, exec, mtorn \cup {t})
      BY <3>1 DEF Same
    <3> QED BY <1>1, <2>2, <2>4, <3>2, <3>3, <3>4, MemoryOne
  <2> QED BY <1>3, <2>3, <2>4 DEF M!threadClose
<1> QED BY <1>2, <1>3

(* jitCreate, of either kind. *)
LEMMA MemoryCodeJit ==
  ASSUME DevicesAssumption, M!IInv, NEW j \in CodeJits, M!CreateCodeJit(j) PROVE M!IInv'
<1>1. /\ j \in M!Objects /\ j \in M!Jits /\ j \notin JitJits /\ j \notin Shmems /\ j \notin made
      /\ src = heap /\ heap = made \ Shmems /\ Sound(j, maps, slice, made, exec, mtorn)
  BY MemoryKinds, MemoryFacts DEF M!CreateCodeJit
<1>2. PICK a \in M!Space : slice' = [slice EXCEPT ![j].map = a]
  BY DEF M!CreateCodeJit, M!CanReserve, M!Fits
<1>3. /\ maps' = maps /\ made' = made \cup {j} /\ exec' = exec \ {j} /\ mtorn' = mtorn
      /\ heap' = made' \ Shmems /\ src' = heap'
  BY <1>1 DEF M!CreateCodeJit
<1>4. PICK sl : sl = [slice EXCEPT ![j].map = a]
  OBVIOUS
<1>5. /\ sl \in [M!Objects -> [map : {M!None} \cup M!Space, rw : {M!None} \cup M!Space]]
      /\ \A i \in M!Objects : i # j => sl[i] = slice[i]
  BY <1>1, <1>2, <1>4, MemoryFacts
<1>6. Typed(maps, sl, made \cup {j}, exec \ {j}, mtorn)
  BY <1>1, <1>5, MemoryFacts DEF Typed
<1>7. Sound(j, maps, sl, made \cup {j}, exec \ {j}, mtorn)
  <2>1. /\ Span(j, slice, made, exec) = {} /\ Span(j, sl, made \cup {j}, exec \ {j}) = {}
        /\ SpanRw(j, slice, made) = {} /\ SpanRw(j, sl, made \cup {j}) = {}
    BY <1>1 DEF Span, SpanRw
  <2> QED BY <1>1, <2>1 DEF Sound
<1>8. \A i \in M!Objects : i # j => Same(i, maps, sl, made \cup {j}, exec \ {j}, mtorn)
  BY <1>5 DEF Same
<1> QED BY <1>1, <1>2, <1>3, <1>4, <1>6, <1>7, <1>8, MemoryOne

LEMMA MemoryJitJit ==
  ASSUME DevicesAssumption, M!IInv, NEW j \in JitJits, M!CreateJitJit(j) PROVE M!IInv'
<1>1. /\ j \in M!Objects /\ j \in M!Jits /\ j \notin Shmems /\ j \notin made
      /\ src = heap /\ heap = made \ Shmems /\ Sound(j, maps, slice, made, exec, mtorn)
      /\ maps \in [M!Space -> {M!Free, <<"program">>} \cup (M!Objects \X {"map", "rw"})]
  BY MemoryKinds, MemoryFacts DEF M!CreateJitJit
<1>2. CASE UNCHANGED <<maps, slice, handle, src, heap, made, exec, mtorn>>
  BY <1>2, MemoryStays
<1>3. ASSUME NEW rx \in M!Space, NEW rw \in M!Space, M!Mappable(maps, rw, Size[j]),
             M!Mappable(M!Map(maps, rw, j, "rw"), rx, Size[j]),
             maps' = M!Map(M!Map(maps, rw, j, "rw"), rx, j, "map"),
             slice' = [slice EXCEPT ![j] = [map |-> rx, rw |-> rw]],
             src' = src \cup {j}, heap' = heap \cup {j}, made' = made \cup {j}, exec' = exec \ {j},
             mtorn' = mtorn
      PROVE  M!IInv'
  <2>1. PICK m : m = M!Map(maps, rw, j, "rw")
    OBVIOUS
  <2>2. PICK n : n = M!Map(m, rx, j, "map")
    OBVIOUS
  <2>3. PICK sl : sl = [slice EXCEPT ![j] = [map |-> rx, rw |-> rw]]
    OBVIOUS
  <2>4. Gains(m, maps, j, "rw", M!Pages(rw, Size[j]))
    <3>1. rw \in M!Space /\ Vacant(maps, rw, Size[j])
      BY <1>3 DEF M!Mappable, Vacant
    <3> QED BY <1>1, <2>1, <3>1, MemoryMapped
  <2>5. Gains(n, m, j, "map", M!Pages(rx, Size[j]))
    <3>1. rx \in M!Space /\ Vacant(m, rx, Size[j])
      BY <1>3, <2>1 DEF M!Mappable, Vacant
    <3>2. m \in [M!Space -> {M!Free, <<"program">>} \cup (M!Objects \X {"map", "rw"})]
      BY <2>4 DEF Gains
    <3> QED BY <1>1, <2>2, <3>1, <3>2, MemoryMapped
  <2>6. /\ sl \in [M!Objects -> [map : {M!None} \cup M!Space, rw : {M!None} \cup M!Space]]
        /\ sl[j].map = rx /\ sl[j].rw = rw /\ \A i \in M!Objects : i # j => sl[i] = slice[i]
    BY <1>1, <1>3, <2>3, MemoryFacts
  <2>7. Typed(n, sl, made \cup {j}, exec \ {j}, mtorn)
    BY <1>1, <2>5, <2>6, MemoryFacts DEF Typed, Gains
  <2>8. Sound(j, n, sl, made \cup {j}, exec \ {j}, mtorn)
    <3>1. /\ Span(j, slice, made, exec) = {} /\ SpanRw(j, slice, made) = {}
          /\ Span(j, sl, made \cup {j}, exec \ {j}) = M!Pages(rx, Size[j])
          /\ SpanRw(j, sl, made \cup {j}) = M!Pages(rw, Size[j])
      BY <1>1, <2>6 DEF Span, SpanRw
    <3>2. Covers(maps, j, "map", {}) => Covers(n, j, "map", M!Pages(rx, Size[j]))
      BY <1>1, <2>4, <2>5 DEF Covers, Gains
    <3>3. Covers(maps, j, "rw", {}) => Covers(n, j, "rw", M!Pages(rw, Size[j]))
      BY <1>1, <2>4, <2>5 DEF Covers, Gains
    <3> QED BY <1>1, <3>1, <3>2, <3>3 DEF Sound
  <2>9. \A i \in M!Objects : i # j => Same(i, n, sl, made \cup {j}, exec \ {j}, mtorn)
    BY <2>4, <2>5, <2>6 DEF Same, Gains
  <2>10. heap' = made' \ Shmems /\ src' = heap'
    BY <1>1, <1>3
  <2> QED BY <1>1, <1>3, <2>1, <2>2, <2>3, <2>7, <2>8, <2>9, <2>10, MemoryOne
<1> QED BY <1>2, <1>3 DEF M!CreateJitJit, M!CanReserve, M!Fits

(* The shapes of what jitTransitionToExecutable and jitTransitionToWritable *)
(* do: nothing is mapped or unmapped, code is mapped, or code is unmapped. *)
LEMMA MemoryFlag ==
  ASSUME DevicesAssumption, M!IInv, NEW j \in M!Jits, j \in made,
         NEW ex \in {exec \cup {j}, exec \ {j}}, j \in JitJits \/ (j \in ex <=> j \in exec),
         maps' = maps, slice' = slice, made' = made, exec' = ex, mtorn' = mtorn,
         src' = src, heap' = heap
  PROVE  M!IInv'
<1>1. /\ j \in M!Objects /\ Sound(j, maps, slice, made, exec, mtorn)
      /\ src = heap /\ heap = made \ Shmems
  BY MemoryKinds, MemoryFacts
<1>2. Typed(maps, slice, made, ex, mtorn)
  BY MemoryFacts DEF Typed
<1>3. Sound(j, maps, slice, made, ex, mtorn)
  <2>1. Span(j, slice, made, ex) = Span(j, slice, made, exec)
    BY DEF Span
  <2> QED BY <1>1, <2>1 DEF Sound
<1>4. \A i \in M!Objects : i # j => Same(i, maps, slice, made, ex, mtorn)
  BY DEF Same
<1> QED BY <1>1, <1>2, <1>3, <1>4, MemoryOne

LEMMA MemoryToExecutable ==
  ASSUME DevicesAssumption, M!IInv, NEW j \in M!Jits, M!jitTransitionToExecutable(j)
  PROVE  M!IInv'
<1>1. /\ j \in M!Objects /\ j \in made /\ j \notin Shmems /\ (j \in CodeJits <=> j \notin JitJits)
      /\ src = heap /\ heap = made \ Shmems /\ Sound(j, maps, slice, made, exec, mtorn)
      /\ maps \in [M!Space -> {M!Free, <<"program">>} \cup (M!Objects \X {"map", "rw"})]
  BY MemoryKinds, MemoryFacts DEF M!jitTransitionToExecutable, M!Jits
<1>2. slice' = slice /\ made' = made /\ src' = src /\ heap' = heap
  BY DEF M!jitTransitionToExecutable
<1>3. CASE j \in CodeJits /\ j \notin exec
  <2>1. M!Mappable(maps, slice[j].map, Size[j]) /\ maps' = M!Map(maps, slice[j].map, j, "map")
    BY <1>3 DEF M!jitTransitionToExecutable
  <2>2. PICK a \in M!Space : a = slice[j].map
    <3>1. slice[j].map \in {M!None} \cup M!Space /\ Size[j] \in Nat \ {0}
      BY <1>1, MemoryFacts, MemoryKinds
    <3>2. slice[j].map \in M!Pages(slice[j].map, Size[j])
      BY <3>1, MemoryKinds DEF M!Pages, M!None
    <3> QED BY <2>1, <3>2 DEF M!Mappable
  <2>3. PICK n : n = M!Map(maps, a, j, "map")
    OBVIOUS
  <2>4. Gains(n, maps, j, "map", M!Pages(a, Size[j]))
    <3>1. Vacant(maps, a, Size[j])
      BY <2>1, <2>2 DEF M!Mappable, Vacant
    <3> QED BY <1>1, <2>2, <2>3, <3>1, MemoryMapped
  <2>5. PICK ex : ex = exec' /\ ex \in {exec, exec \cup {j}}
    BY <1>3 DEF M!jitTransitionToExecutable
  <2>6. PICK tear : /\ tear = mtorn' /\ tear \in {mtorn, mtorn \cup {j}}
                    /\ j \in tear \/ (ex = exec \cup {j} /\ tear = mtorn)
    BY <1>3, <2>5 DEF M!jitTransitionToExecutable
  <2>7. Typed(n, slice, made, ex, tear)
    BY <1>1, <2>4, <2>5, <2>6, MemoryFacts DEF Typed, Gains
  <2>8. Sound(j, n, slice, made, ex, tear)
    <3>1. CASE j \in tear
      BY <1>1, <1>3, <2>4, <3>1 DEF Sound, Gains
    <3>2. CASE j \notin tear
      <4>1. ex = exec \cup {j} /\ tear = mtorn
        BY <2>6, <3>2
      <4>2. /\ Span(j, slice, made, exec) = {} /\ SpanRw(j, slice, made) = {}
            /\ Span(j, slice, made, ex) = M!Pages(a, Size[j])
        BY <1>1, <1>3, <2>2, <4>1 DEF Span, SpanRw
      <4>3. Covers(maps, j, "map", {}) => Covers(n, j, "map", M!Pages(a, Size[j]))
        BY <1>1, <2>4 DEF Covers, Gains
      <4>4. Covers(maps, j, "rw", {}) => Covers(n, j, "rw", {})
        BY <1>1, <2>4 DEF Covers, Gains
      <4>5. \A p \in M!Space : n[p] = <<j, "rw">> <=> maps[p] = <<j, "rw">>
        BY <1>1, <2>4 DEF Gains
      <4> QED BY <1>1, <3>2, <4>1, <4>2, <4>3, <4>4, <4>5 DEF Sound
    <3> QED BY <3>1, <3>2
  <2>9. \A i \in M!Objects : i # j => Same(i, n, slice, made, ex, tear)
    BY <2>4, <2>5, <2>6 DEF Same, Gains
  <2> QED BY <1>1, <1>2, <2>1, <2>2, <2>3, <2>5, <2>6, <2>7, <2>8, <2>9, MemoryOne
<1>4. CASE ~(j \in CodeJits /\ j \notin exec)
  <2>1. exec' = exec \cup {j} /\ maps' = maps /\ mtorn' = mtorn
    BY <1>4 DEF M!jitTransitionToExecutable
  <2> QED BY <1>1, <1>2, <1>4, <2>1, MemoryFlag
<1> QED BY <1>3, <1>4

(* Unmapping both mappings of a JIT buffer, or the executable one.          *)
LEMMA MemoryDropped ==
  ASSUME DevicesAssumption, M!IInv, NEW j \in CodeJits, NEW m, m = M!Unmap(maps, j, "map")
  PROVE  /\ m \in [M!Space -> {M!Free, <<"program">>} \cup (M!Objects \X {"map", "rw"})]
         /\ OthersStay(j, m)
         /\ Covers(m, j, "map", {}) /\ Covers(m, j, "rw", {})
<1>1. /\ j \in M!Objects /\ j \notin JitJits /\ Sound(j, maps, slice, made, exec, mtorn)
      /\ maps \in [M!Space -> {M!Free, <<"program">>} \cup (M!Objects \X {"map", "rw"})]
  BY MemoryKinds, MemoryFacts
<1>2. /\ m \in [M!Space -> {M!Free, <<"program">>} \cup (M!Objects \X {"map", "rw"})]
      /\ \A p \in M!Space, i \in M!Objects, l \in {"map", "rw"} :
           m[p] = <<i, l>> <=> maps[p] = <<i, l>> /\ ~(i = j /\ l = "map")
  BY <1>1, MemoryUnmapped
<1>3. \A p \in M!Space : m[p] # <<j, "map">> /\ m[p] # <<j, "rw">>
  BY <1>1, <1>2 DEF Sound
<1> QED BY <1>2, <1>3 DEF Covers, OthersStay

LEMMA MemoryToWritable ==
  ASSUME DevicesAssumption, M!IInv, NEW j \in M!Jits, M!jitTransitionToWritable(j)
  PROVE  M!IInv'
<1>1. /\ j \in M!Objects /\ j \in made /\ (j \in CodeJits <=> j \notin JitJits)
      /\ src = heap /\ heap = made \ Shmems /\ Sound(j, maps, slice, made, exec, mtorn)
  BY MemoryKinds, MemoryFacts DEF M!jitTransitionToWritable, M!Jits
<1>2. /\ slice' = slice /\ made' = made /\ src' = src /\ heap' = heap /\ mtorn' = mtorn
      /\ exec' = exec \ {j}
  BY DEF M!jitTransitionToWritable
<1>3. CASE j \in CodeJits /\ j \in exec
  <2>1. PICK m : m = M!Unmap(maps, j, "map")
    OBVIOUS
  <2>2. /\ m \in [M!Space -> {M!Free, <<"program">>} \cup (M!Objects \X {"map", "rw"})]
        /\ OthersStay(j, m)
        /\ Covers(m, j, "map", {}) /\ Covers(m, j, "rw", {})
    BY <1>3, <2>1, MemoryDropped
  <2>3. Typed(m, slice, made, exec \ {j}, mtorn)
    BY <2>2, MemoryFacts DEF Typed
  <2>4. Sound(j, m, slice, made, exec \ {j}, mtorn)
    <3>1. Span(j, slice, made, exec \ {j}) = {} /\ SpanRw(j, slice, made) = {}
      BY <1>1, <1>3 DEF Span, SpanRw
    <3>2. \A p \in M!Space : m[p] # <<j, "rw">>
      BY <2>2 DEF Covers
    <3> QED BY <1>1, <2>2, <3>1, <3>2 DEF Sound
  <2>5. \A i \in M!Objects : i # j => Same(i, m, slice, made, exec \ {j}, mtorn)
    BY <2>2 DEF Same, OthersStay
  <2>6. maps' = m
    BY <1>3, <2>1 DEF M!jitTransitionToWritable
  <2> QED BY <1>1, <1>2, <2>3, <2>4, <2>5, <2>6, MemoryOne
<1>4. CASE ~(j \in CodeJits /\ j \in exec)
  <2>1. maps' = maps
    BY <1>4 DEF M!jitTransitionToWritable
  <2> QED BY <1>1, <1>2, <1>4, <2>1, MemoryFlag
<1> QED BY <1>3, <1>4

(* jitClose of a buffer of the process's own memory, of one of the kernel's *)
(* JIT memory, and the failure between its two unmappings.                 *)
LEMMA MemoryClose ==
  ASSUME DevicesAssumption, M!IInv, NEW j \in M!Jits, j \in made,
         NEW m, NEW ex \in {exec, exec \ {j}},
         m \in [M!Space -> {M!Free, <<"program">>} \cup (M!Objects \X {"map", "rw"})],
         OthersStay(j, m),
         j \notin mtorn => Covers(m, j, "map", {}) /\ Covers(m, j, "rw", {}),
         j \notin JitJits => Covers(m, j, "rw", {}),
         maps' = m, slice' = [slice EXCEPT ![j] = [map |-> M!None, rw |-> M!None]],
         made' = made \ {j}, exec' = ex, mtorn' = mtorn, src' = src \ {j}, heap' = heap \ {j}
  PROVE  M!IInv'
<1>1. j \in M!Objects /\ src = heap /\ heap = made \ Shmems
  BY MemoryKinds, MemoryFacts
<1>2. PICK sl : sl = [slice EXCEPT ![j] = [map |-> M!None, rw |-> M!None]]
  OBVIOUS
<1>3. /\ sl \in [M!Objects -> [map : {M!None} \cup M!Space, rw : {M!None} \cup M!Space]]
      /\ \A i \in M!Objects : i # j => sl[i] = slice[i]
  BY <1>1, <1>2, MemoryFacts
<1>4. Typed(m, sl, made \ {j}, ex, mtorn)
  BY <1>3, MemoryFacts DEF Typed
<1>5. Sound(j, m, sl, made \ {j}, ex, mtorn)
  <2>1. Span(j, sl, made \ {j}, ex) = {} /\ SpanRw(j, sl, made \ {j}) = {}
    BY DEF Span, SpanRw
  <2>2. j \notin JitJits => \A p \in M!Space : m[p] # <<j, "rw">>
    BY DEF Covers
  <2> QED BY <2>1, <2>2 DEF Sound
<1>6. \A i \in M!Objects : i # j => Same(i, m, sl, made \ {j}, ex, mtorn)
  BY <1>3 DEF Same, OthersStay
<1>7. heap' = (made \ {j}) \ Shmems /\ src' = heap'
  BY <1>1
<1> QED BY <1>1, <1>2, <1>4, <1>5, <1>6, <1>7, MemoryOne

LEMMA MemoryJitClose ==
  ASSUME DevicesAssumption, M!IInv, NEW j \in M!Jits, M!jitClose(j)
  PROVE  M!IInv'
<1>1. /\ j \in M!Objects /\ j \in made /\ (j \in CodeJits <=> j \notin JitJits)
      /\ src = heap /\ heap = made \ Shmems /\ Sound(j, maps, slice, made, exec, mtorn)
      /\ maps \in [M!Space -> {M!Free, <<"program">>} \cup (M!Objects \X {"map", "rw"})]
  BY MemoryKinds, MemoryFacts DEF M!jitClose, M!Jits
<1>2. ASSUME j \in CodeJits, maps' = IF j \in exec THEN M!Unmap(maps, j, "map") ELSE maps,
             exec' = exec \ {j}, slice' = [slice EXCEPT ![j] = [map |-> M!None, rw |-> M!None]],
             src' = src \ {j}, heap' = heap \ {j}, made' = made \ {j}, mtorn' = mtorn
      PROVE  M!IInv'
  <2>1. CASE j \in exec
    <3>1. PICK m : m = M!Unmap(maps, j, "map")
      OBVIOUS
    <3>2. /\ m \in [M!Space -> {M!Free, <<"program">>} \cup (M!Objects \X {"map", "rw"})]
          /\ OthersStay(j, m)
          /\ Covers(m, j, "map", {}) /\ Covers(m, j, "rw", {})
      BY <1>2, <3>1, MemoryDropped
    <3>3. maps' = m /\ exec' \in {exec, exec \ {j}}
      BY <1>2, <2>1, <3>1
    <3> QED BY <1>1, <1>2, <3>2, <3>3, MemoryClose
  <2>2. CASE j \notin exec
    <3>1. /\ j \notin mtorn => Covers(maps, j, "map", {}) /\ Covers(maps, j, "rw", {})
          /\ Covers(maps, j, "rw", {})
      <4>1. Span(j, slice, made, exec) = {} /\ SpanRw(j, slice, made) = {}
        BY <1>1, <1>2, <2>2 DEF Span, SpanRw
      <4> QED BY <1>1, <1>2, <4>1 DEF Sound, Covers
    <3>2. maps' = maps /\ OthersStay(j, maps)
      BY <1>2, <2>2 DEF OthersStay
    <3> QED BY <1>1, <1>2, <2>2, <3>1, <3>2, MemoryClose
  <2> QED BY <2>1, <2>2
<1>3. ASSUME j \in JitJits, j \notin mtorn, maps' = M!Unmap(M!Unmap(maps, j, "rw"), j, "map"),
             exec' = exec, slice' = [slice EXCEPT ![j] = [map |-> M!None, rw |-> M!None]],
             src' = src \ {j}, heap' = heap \ {j}, made' = made \ {j}, mtorn' = mtorn
      PROVE  M!IInv'
  <2>1. PICK m : m = M!Unmap(maps, j, "rw")
    OBVIOUS
  <2>2. PICK n : n = M!Unmap(m, j, "map")
    OBVIOUS
  <2>3. /\ m \in [M!Space -> {M!Free, <<"program">>} \cup (M!Objects \X {"map", "rw"})]
        /\ \A p \in M!Space, i \in M!Objects, l \in {"map", "rw"} :
             m[p] = <<i, l>> <=> maps[p] = <<i, l>> /\ ~(i = j /\ l = "rw")
    BY <1>1, <2>1, MemoryUnmapped
  <2>4. /\ n \in [M!Space -> {M!Free, <<"program">>} \cup (M!Objects \X {"map", "rw"})]
        /\ \A p \in M!Space, i \in M!Objects, l \in {"map", "rw"} :
             n[p] = <<i, l>> <=> m[p] = <<i, l>> /\ ~(i = j /\ l = "map")
    BY <1>1, <2>2, <2>3, MemoryUnmapped
  <2>5. Covers(n, j, "map", {}) /\ Covers(n, j, "rw", {})
    BY <1>1, <2>3, <2>4 DEF Covers
  <2>6. OthersStay(j, n)
    BY <2>3, <2>4 DEF OthersStay
  <2>7. n \in [M!Space -> {M!Free, <<"program">>} \cup (M!Objects \X {"map", "rw"})]
    BY <2>4
  <2>8. maps' = n /\ exec' \in {exec, exec \ {j}}
    BY <1>3, <2>1, <2>2
  <2> QED BY <1>1, <1>3, <2>5, <2>6, <2>7, <2>8, MemoryClose
<1>4. ASSUME j \in JitJits, maps' = M!Unmap(maps, j, "rw"), mtorn' = mtorn \cup {j},
             slice' = slice, src' = src, heap' = heap, made' = made, exec' = exec
      PROVE  M!IInv'
  <2>1. PICK m : m = M!Unmap(maps, j, "rw")
    OBVIOUS
  <2>2. /\ m \in [M!Space -> {M!Free, <<"program">>} \cup (M!Objects \X {"map", "rw"})]
        /\ \A p \in M!Space, i \in M!Objects, l \in {"map", "rw"} :
             m[p] = <<i, l>> <=> maps[p] = <<i, l>> /\ ~(i = j /\ l = "rw")
    BY <1>1, <2>1, MemoryUnmapped
  <2>3. Typed(m, slice, made, exec, mtorn \cup {j})
    BY <2>2, MemoryFacts DEF Typed
  <2>4. Sound(j, m, slice, made, exec, mtorn \cup {j})
    BY <1>4 DEF Sound
  <2>5. \A i \in M!Objects : i # j => Same(i, m, slice, made, exec, mtorn \cup {j})
    BY <2>2 DEF Same
  <2> QED BY <1>1, <1>4, <2>1, <2>3, <2>4, <2>5, MemoryOne
<1>5. CASE j \in CodeJits
  BY <1>1, <1>2, <1>5 DEF M!jitClose
<1>6. CASE j \in JitJits
  BY <1>1, <1>3, <1>4, <1>6 DEF M!jitClose
<1> QED BY <1>5, <1>6 DEF M!Jits

LEMMA MemoryInit ==
  ASSUME DevicesAssumption, M!Init PROVE M!IInv
<1>1. /\ maps = [p \in M!Space |-> IF p \in Program THEN <<"program">> ELSE M!Free]
      /\ slice = [o \in M!Objects |-> [map |-> M!None, rw |-> M!None]]
      /\ src = {} /\ heap = {} /\ made = {} /\ exec = {} /\ mtorn = {}
  BY DEF M!Init
<1>2. \A o \in M!Objects, k \in {"map", "rw"} : M!Mapped(o, k) = {}
  BY <1>1 DEF M!Mapped, M!Free
<1>3. M!MemoryTyped
  BY <1>1 DEF M!MemoryTyped
<1>4. M!OnlyMade
  BY <1>1, <1>2, MemoryKinds DEF M!OnlyMade
<1>5. M!MappingsAgree
  <2>1. \A o \in (Tmems \cup Shmems \cup Thrds) \ mtorn :
          M!Mapped(o, "map") = IF slice[o].map = M!None THEN {} ELSE M!Pages(slice[o].map, Size[o])
    BY <1>1, <1>2, MemoryKinds
  <2>2. \A j \in M!Jits \ mtorn :
          /\ M!Mapped(j, "map") = IF j \in made /\ (j \in exec \/ j \in JitJits)
                                  THEN M!Pages(slice[j].map, Size[j]) ELSE {}
          /\ M!Mapped(j, "rw") = IF j \in JitJits \cap made THEN M!Pages(slice[j].rw, Size[j]) ELSE {}
    BY <1>1, <1>2, MemoryKinds
  <2>3. \A o \in M!Objects \ (Shmems \cup mtorn) :
          (\E k \in {"map", "rw"} : M!Mapped(o, k) # {}) => o \in heap
    BY <1>2
  <2> QED BY <1>1, <2>1, <2>2, <2>3 DEF M!MappingsAgree
<1> QED BY <1>3, <1>4, <1>5 DEF M!IInv

LEMMA MemoryStep ==
  ASSUME DevicesAssumption, M!IInv, M!Next PROVE M!IInv'
<1>1. ASSUME NEW o \in Tmems \cup Shmems,
             M!Create(o) \/ M!MapObject(o) \/ M!UnmapObject(o) \/ M!Close(o)
      PROVE  M!IInv'
  BY <1>1, MemoryCreate, MemoryMap, MemoryRelease
<1>2. ASSUME NEW j \in CodeJits, M!CreateCodeJit(j) PROVE M!IInv'
  BY <1>2, MemoryCodeJit
<1>3. ASSUME NEW j \in JitJits, M!CreateJitJit(j) PROVE M!IInv'
  BY <1>3, MemoryJitJit
<1>4. ASSUME NEW t \in Thrds, M!threadCreate(t) \/ M!threadClose(t) PROVE M!IInv'
  BY <1>4, MemoryThread
<1>5. ASSUME NEW j \in M!Jits,
             M!jitTransitionToExecutable(j) \/ M!jitTransitionToWritable(j) \/ M!jitClose(j)
      PROVE  M!IInv'
  BY <1>5, MemoryToExecutable, MemoryToWritable, MemoryJitClose
<1> QED BY <1>1, <1>2, <1>3, <1>4, <1>5 DEF M!Next

-----------------------------------------------------------------------------
(* All objects together.  Each step belongs to one of them, and leaves the *)
(* variables of the others alone.                                          *)

IInv == F!IInv /\ U!IInv /\ D!IInv /\ M!IInv /\ PG!IInv

(* An invariant speaks of the variables of its object only. *)
LEMMA FenceRests ==
  ASSUME F!IInv, UNCHANGED fVars PROVE F!IInv'
<1>1. F!TypeOK'
  BY DEF fVars, F!IInv, F!TypeOK
<1>2. F!MaskIsSlots' /\ F!OneEach' /\ F!SlotsTaken'
  BY DEF fVars, F!IInv, F!MaskIsSlots, F!OneEach, F!SlotsTaken
<1>3. F!ArmedFits' /\ F!SignalFits' /\ F!ReachedFirst'
  BY DEF fVars, F!IInv, F!ArmedFits, F!SignalFits, F!ReachedFirst
<1> QED BY <1>1, <1>2, <1>3 DEF F!IInv

LEMMA UsbRests ==
  ASSUME U!IInv, UNCHANGED uVars PROVE U!IInv'
<1>1. U!TypeOK'
  BY DEF uVars, U!IInv, U!TypeOK
<1>2. U!LocksHeld'
  BY DEF uVars, U!IInv, U!LocksHeld
<1>3. U!TransferKeepsBuffer'
  BY DEF uVars, U!IInv, U!TransferKeepsBuffer
<1>4. U!HowFar'
  BY DEF uVars, U!IInv, U!HowFar, U!Progress, U!Last, U!Freeing, U!Whole, U!Failed, U!LeftBehind
<1> QED BY <1>1, <1>2, <1>3, <1>4 DEF U!IInv

LEMMA DisplayRests ==
  ASSUME D!IInv, UNCHANGED dVars PROVE D!IInv'
BY DisplayNow, DisplayThen DEF dVars

LEMMA PongRests ==
  ASSUME PG!IInv, UNCHANGED pgVars PROVE PG!IInv'
BY DEF pgVars, PG!IInv, PG!TypeOK, PG!Returned, PG!OutOfReach

LEMMA IInvInit == Init => IInv
<1> SUFFICES ASSUME Init PROVE IInv
  OBVIOUS
<1>1. F!IInv /\ U!IInv /\ PG!IInv /\ M!IInv
  BY DevicesAssumption, FenceInit, UsbInit, PongInit, MemoryInit DEF Init
<1>2. D!IInv
  BY DevicesAssumption, DisplayInit DEF Init, D!IInv
<1> QED BY <1>1, <1>2 DEF IInv

LEMMA IInvStep ==
  ASSUME IInv, [Next]_vars PROVE IInv'
<1> USE DevicesAssumption DEF IInv
<1>1. F!IInv'
  BY FenceStep, FenceRests DEF Next, Step, vars
<1>2. U!IInv'
  BY UsbStep, UsbRests DEF Next, Step, vars
<1>3. D!IInv'
  BY DisplayStep, DisplayRests DEF Next, Step, vars
<1>4. M!IInv'
  BY MemoryStep, MemoryStays DEF Next, Step, vars, mVars
<1>5. PG!IInv'
  BY PongStep, PongRests DEF Next, Step, vars
<1> QED BY <1>1, <1>2, <1>3, <1>4, <1>5

(* The inductive invariants hold of every behaviour. *)
THEOREM Invariant == Spec => []IInv
BY IInvInit, IInvStep, PTL DEF Spec

(* A paddle gives the ball back to the field once and for all, and a ball  *)
(* that has passed a paddle goes on to the edge, for every field in which  *)
(* the paddles are apart and no thicker than the ball is fast.             *)
THEOREM BallReturned == Spec => []Returned
<1>1. IInv => Returned
  BY DEF IInv, PG!IInv, Returned
<1> QED BY <1>1, Invariant, PTL

(* Two waits on fences never share an event slot, the mask has the bits of *)
(* the slots in use, and a success is that of the thread's own fence, for  *)
(* every number of threads and slots.                                      *)
THEOREM FenceIsOwn == Spec => []OwnFence
<1>1. IInv => OwnFence
  BY DevicesAssumption, FenceOwn DEF IInv, OwnFence
<1> QED BY <1>1, Invariant, PTL

(* A USB transfer keeps its endpoint and its buffer, which no other        *)
(* transfer uses, though the device is closed under it.                    *)
THEOREM BufferIsKept == Spec => []TransferKeepsBuffer
<1>1. IInv => TransferKeepsBuffer
  BY DevicesAssumption, UsbPromises DEF IInv, TransferKeepsBuffer
<1> QED BY <1>1, Invariant, PTL

(* With one controller, a USB device at rest has all its interfaces or     *)
(* nothing, whichever step of its initialization failed.                   *)
THEOREM HalfDoneStaysLocked == Spec => []HalfDoneIsLocked
<1>1. IInv => HalfDoneIsLocked
  BY DevicesAssumption, UsbPromises DEF IInv, HalfDoneIsLocked
<1> QED BY <1>1, Invariant, PTL

(* The slots a window believes it has configured are those the compositor  *)
(* holds buffers in, the current one is the only one dequeued, and what    *)
(* the compositor holds is never freed, until a disconnect has failed.     *)
THEOREM WindowAgrees == Spec => []WindowMatchesQueue
<1>1. IInv => WindowMatchesQueue
  BY DEF IInv, D!IInv, WindowMatchesQueue
<1> QED BY <1>1, Invariant, PTL

(* What the objects say of their mappings is what the kernel has, and no   *)
(* mapped memory goes back to the heap, whatever the kernel refuses, until *)
(* one of the errors that leave a mapping behind.                          *)
THEOREM MappingsKept == Spec => []MappingsAgree
<1>1. IInv => MappingsAgree
  BY DEF IInv, M!IInv, MappingsAgree
<1> QED BY <1>1, Invariant, PTL

-----------------------------------------------------------------------------
(* Hid: what HidProofs shows of it. *)
HP == INSTANCE HidProofs

LEMMA HidSame ==
  (H!HidAssumption => HP!HidAssumption) /\ (H!Init => HP!Init)
BY DEF H!Order, HP!Order, H!Rings, HP!Rings, H!Pads, HP!Pads, H!Keyed, HP!Keyed, H!Trails,
       HP!Trails, H!Times, HP!Times, H!Slots, HP!Slots, H!HidAssumption, HP!HidAssumption,
       H!Idle, HP!Idle, H!Zeroed, HP!Zeroed, H!NoTrail, HP!NoTrail, H!NoKeys, HP!NoKeys,
       H!NothingKept, HP!NothingKept, H!Unseen, HP!Unseen, H!Init, HP!Init, H!program,
       HP!program

LEMMA HidSameNext == H!Next => HP!Next
BY DEF H!Order, HP!Order, H!Rings, HP!Rings, H!Pads, HP!Pads, H!Keyed, HP!Keyed, H!Trails,
       HP!Trails, H!Times, HP!Times, H!Slots, HP!Slots, H!program, HP!program, H!vars,
       HP!vars, H!Fell, HP!Fell, H!Newest, HP!Newest, H!InSlot, HP!InSlot, H!Idle, HP!Idle,
       H!Zeroed, HP!Zeroed, H!NoTrail, HP!NoTrail, H!NoKeys, HP!NoKeys, H!NothingKept,
       HP!NothingKept, H!Unseen, HP!Unseen, H!Unstamped, HP!Unstamped, H!Cleared,
       HP!Cleared, H!Enters, HP!Enters, H!Scanned, HP!Scanned, H!Enter, HP!Enter, H!Publish,
       HP!Publish, H!hidReset, HP!hidReset, H!hidSetSharedMemPtr, HP!hidSetSharedMemPtr,
       H!hidSetControllerLayout, HP!hidSetControllerLayout, H!SetSixAxis, HP!SetSixAxis,
       H!KeysOf, HP!KeysOf, H!BeginScan, HP!BeginScan, H!Onward, HP!Onward, H!ReadLatest,
       HP!ReadLatest, H!CopyHeader, HP!CopyHeader, H!CopyEntry, HP!CopyEntry, H!Fresh,
       HP!Fresh, H!Take, HP!Take, H!hidScanInput, HP!hidScanInput, H!Next, HP!Next

LEMMA HidSamePromises ==
  (HP!NewestKept => H!NewestKept) /\ (HP!SamplesInOrder => H!SamplesInOrder)
BY DEF H!Order, HP!Order, H!Rings, HP!Rings, H!Pads, HP!Pads, H!Keyed, HP!Keyed, H!Trails,
       HP!Trails, H!Idle, HP!Idle, H!KeysOf, HP!KeysOf, H!NewestKept, HP!NewestKept, H!Gaps,
       HP!Gaps, H!UpToGap, HP!UpToGap, H!LastOf, HP!LastOf, H!MultiRead, HP!MultiRead,
       H!hidMouseMultiRead, HP!hidMouseMultiRead, H!hidSixAxisSensorValuesRead,
       HP!hidSixAxisSensorValuesRead, H!SamplesInOrder, HP!SamplesInOrder

(* Between two scans the program has of every device the newest sample it  *)
(* was shown, also after the shared memory was changed, knows which keys   *)
(* went down and up since the scan before, and reads several samples in    *)
(* order, for rings of every size and any number of samples.               *)
THEOREM InputIsFresh == Spec => []InputFresh
<1>1. HP!HidAssumption
  BY DevicesAssumption, HidSame DEF DevicesAssumption
<1>2. HP!Spec => []HP!IInv
  BY <1>1, HP!Invariant
<1>3. Init => HP!Init
  BY HidSame DEF Init
<1>4. [Next]_vars => [HP!Next]_(HP!vars)
  <2>1. UNCHANGED hVars => UNCHANGED HP!vars
    BY DEF hVars, HP!vars, HP!program
  <2>2. [Next]_vars => H!Next \/ UNCHANGED hVars
    BY DEF Next, Step, vars
  <2> QED BY <2>1, <2>2, HidSameNext
<1>5. HP!IInv => InputFresh
  BY <1>1, HP!HidPromises, HidSamePromises DEF InputFresh
<1> QED BY <1>2, <1>3, <1>4, <1>5, PTL DEF Spec, HP!Spec

-----------------------------------------------------------------------------
(* Utf: what UtfProofs shows of it. *)
UP == INSTANCE UtfProofs WITH from <- source, to <- target, in <- input, len <- room, pos <- upos,
                              rc <- urc, out <- output, result <- uresult

LEMMA UtfSameAssumption == C!UtfAssumption => UP!UtfAssumption
BY DEF C!UtfAssumption, UP!UtfAssumption

LEMMA UtfSame8 == \A c : C!encode_utf8(c) = UP!encode_utf8(c)
BY SMT DEF C!encode_utf8, UP!encode_utf8, C!Low6, UP!Low6

LEMMA UtfSameEncode == \A form, c : C!Encode(form, c) = UP!Encode(form, c)
BY SMT DEF C!Encode, UP!Encode, C!encode_utf8, UP!encode_utf8, C!encode_utf16,
           UP!encode_utf16, C!Low6, UP!Low6

LEMMA UtfSameEncoded == \A form, s : C!Encoded(form, s) = UP!Encoded(form, s)
BY SMT DEF C!Encoded, UP!Encoded, C!Encode, UP!Encode, C!encode_utf8, UP!encode_utf8,
           C!encode_utf16, UP!encode_utf16, C!Low6, UP!Low6

LEMMA UtfSameDecode == \A form, s, i : C!Decode(form, s, i) = UP!Decode(form, s, i)
BY SMT DEF C!Decode, UP!Decode, C!decode_utf8, UP!decode_utf8, C!decode_utf16,
           UP!decode_utf16, C!Decoded2, UP!Decoded2, C!Decoded3, UP!Decoded3, C!Decoded4,
           UP!Decoded4, C!Decoded, UP!Decoded, C!Malformed, UP!Malformed, C!Continues,
           UP!Continues, C!HighSurrogate, UP!HighSurrogate, C!LowSurrogate, UP!LowSurrogate,
           C!Unit, UP!Unit

LEMMA UtfSameInit == C!Init => UP!Init
BY UtfSameEncode, UtfSameEncoded DEF C!Init, UP!Init, C!Running, UP!Running, C!Forms, UP!Forms

LEMMA UtfSameNext == C!Next => UP!Next
BY UtfSameEncode, UtfSameDecode
   DEF C!Next, UP!Next, C!Convert, UP!Convert, C!Running, UP!Running, C!Fits, UP!Fits

LEMMA UtfSamePromise == UP!ConversionsExact => C!ConversionsExact
<1>1. UP!CountsAndTruncates => C!CountsAndTruncates
  BY UtfSameEncode, UtfSameEncoded
     DEF C!CountsAndTruncates, UP!CountsAndTruncates, C!Running, UP!Running
<1>2. UP!DecodesOnlyEncodings => C!DecodesOnlyEncodings
  BY UtfSame8, UtfSameEncoded
     DEF C!DecodesOnlyEncodings, UP!DecodesOnlyEncodings, C!Running, UP!Running
<1> QED BY <1>1, <1>2 DEF C!ConversionsExact, UP!ConversionsExact

(* Every conversion counts the units its input makes, writes the whole     *)
(* characters that fit, and refuses exactly the characters the other form  *)
(* does not have; bytes are accepted exactly if they are shortest          *)
(* encodings: for every string of code points and every string of bytes.   *)
THEOREM ConversionsAreExact == Spec => []ConversionsExact
<1> DEFINE Inv == object = "utf" => UP!IInv
<1>1. UP!UtfAssumption
  BY DevicesAssumption, UtfSameAssumption DEF DevicesAssumption
<1>2. Init => Inv
  BY <1>1, UtfSameInit, UP!IInvInit DEF Init
<1>3. Inv /\ [Next]_vars => Inv'
  <2> SUFFICES ASSUME Inv, [Next]_vars, object' = "utf" PROVE UP!IInv'
    OBVIOUS
  <2>1. object = "utf"
    BY DEF Next, Step, vars
  <2>2. C!Next \/ UNCHANGED cVars
    BY <2>1 DEF Next, Step, vars
  <2>3. UNCHANGED cVars => UNCHANGED UP!vars
    BY DEF cVars, UP!vars
  <2>4. [UP!Next]_(UP!vars)
    BY <2>2, <2>3, UtfSameNext
  <2> QED BY <1>1, <2>1, <2>4, UP!IInvStep
<1>4. Inv => ConversionsExact
  BY <1>1, UtfSamePromise, UP!CountsAreRight, UP!DecodingIsRight
     DEF ConversionsExact, UP!ConversionsExact
<1> QED BY <1>2, <1>3, <1>4, PTL DEF Spec

=============================================================================
