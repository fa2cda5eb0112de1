-------------------------------- MODULE Hid --------------------------------
(***************************************************************************)
(* The input state of a program (services/hid.c).  The hid service goes on *)
(* writing samples of every device to a ring in shared memory; a scan      *)
(* copies the newest of each, or the whole ring, under the write lock, and *)
(* derives the keys held, pressed and released since the scan before.      *)
(* Readers hold the read lock: they see the state between two scans.       *)
(***************************************************************************)
EXTENDS Integers, Sequences

CONSTANTS
  RingSize,  \* 17 in the code
  MaxTime,   \* bound: samples of each ring
  Feeds,     \* the sets of rings of which the service writes one
  Layouts,   \* of a controller
  Default,   \* LAYOUT_DEFAULT
  Marks      \* what a sample holds, by ring, layout and time

(* In the order of a scan; the motion of one controller.                   *)
Order == <<"touch", "mouse", "keyboard", "player1", "motion", "handheld">>
Rings == {Order[k] : k \in DOMAIN Order}
Pads == {"player1", "handheld"}
Keyed == {"mouse", "keyboard"} \cup Pads
Trails == {"mouse", "motion"}  \* copied whole
Times == 0..MaxTime["mouse"]
Slots == 0..RingSize - 1

HidAssumption ==
  /\ RingSize \in Nat \ {0, 1} /\ MaxTime \in [Rings -> Nat] /\ Default \in Layouts
  /\ \A d \in Rings : MaxTime[d] <= MaxTime["mouse"]
  /\ \A f \in Feeds : f \subseteq Rings
  /\ \A d \in Rings, lay \in Layouts : Marks[<<d, lay, 0>>] = {}

VARIABLES
  fed, entered, published,  \* the service: samples written, and shown by latestEntry
  scan,                     \* where hidScanInput is, and latestEntry as it read it
  stamp,                    \* g_touchTimestamp, g_mouseTimestamp, ...
  kept,                     \* the entry copied, its time and marks
  trail,                    \* g_mouse, g_sixaxisLayouts: times of the slots
  keys,                     \* g_*Old, g_*Held, g_*Down, g_*Up
  autoID,                   \* g_controllerP1AutoID
  layout, enabled,          \* g_controllerLayout, g_sixaxisEnabled
  stale,                    \* the pointer was set and hidReset not called yet
  seen                      \* history, see the properties

program == <<scan, stamp, kept, trail, keys, autoID, layout, enabled, stale, seen>>
vars == <<fed, entered, published, program>>

-----------------------------------------------------------------------------
(* The sample a slot holds: the newest of those that fall to it.           *)
Fell(s, last) == {t \in 0..last : t % RingSize = s}
Newest(s, last) ==
  IF Fell(s, last) = {} THEN 0
  ELSE CHOOSE t \in Fell(s, last) : \A u \in Fell(s, last) : u <= t
InSlot(d, s) == Newest(s, entered[d])

Idle == [ring |-> 0, part |-> "none", slot |-> 0, copied |-> 0]
Zeroed == [time |-> 0, marks |-> {}]
NoTrail == [latest |-> 0, max |-> 0, times |-> [s \in Slots |-> 0]]
NoKeys == [d \in Keyed |-> {}]
NothingKept == [d \in Rings |-> Zeroed]
Unseen == [scanned |-> FALSE, began |-> [d \in Rings |-> 0],
           from |-> [d \in Trails |-> 0], upto |-> [d \in Trails |-> 0], before |-> NoKeys]

(* The timestamps as hidReset leaves them. *)
BadUnstamped == stamp
Unstamped == [d \in Rings |-> 0]

Cleared ==
  /\ kept' = NothingKept /\ trail' = [d \in Trails |-> NoTrail]
  /\ keys' = [old |-> NoKeys, held |-> NoKeys, down |-> NoKeys, up |-> NoKeys]
  /\ autoID' = "handheld"
  /\ layout' = [c \in Pads |-> Default] /\ enabled' = FALSE

(* The service has written nothing, and the program has called hidReset.   *)
Init ==
  /\ fed \in Feeds
  /\ entered = [d \in Rings |-> 0] /\ published = [d \in Rings |-> 0]
  /\ scan = Idle /\ stamp = [d \in Rings |-> 0]
  /\ kept = NothingKept /\ trail = [d \in Trails |-> NoTrail]
  /\ keys = [old |-> NoKeys, held |-> NoKeys, down |-> NoKeys, up |-> NoKeys]
  /\ autoID = "handheld" /\ layout = [c \in Pads |-> Default]
  /\ enabled = FALSE /\ stale = FALSE /\ seen = Unseen

-----------------------------------------------------------------------------
Enters(k) ==  \* the first step of a scan at the ring k
  LET d == Order[k]
  IN  [ring |-> k, part |-> IF d = "motion" THEN "header" ELSE "latest", slot |-> 0, copied |-> 0]

(* The service writes the entry after the newest, then shows it.  It does  *)
(* not come round to an entry that a scan is reading.                      *)
Scanned(d) == scan.ring # 0 /\ Order[scan.ring] = d /\ scan # Enters(scan.ring)

Enter(d) ==
  /\ entered[d] = published[d] /\ entered[d] < MaxTime[d]   \* bound
  /\ Scanned(d) => entered[d] + 1 < seen.began[d] + RingSize
  /\ entered' = [entered EXCEPT ![d] = @ + 1]
  /\ UNCHANGED <<fed, published, program>>

Publish(d) ==
  /\ published[d] < entered[d]
  /\ published' = [published EXCEPT ![d] = entered[d]]
  /\ UNCHANGED <<fed, entered, program>>

-----------------------------------------------------------------------------
hidReset ==
  /\ scan = Idle
  /\ Cleared /\ stamp' = Unstamped
  /\ stale' = FALSE /\ seen' = Unseen
  /\ UNCHANGED <<fed, entered, published, scan>>

(* Another shared memory, with samples of its own; the hook of the draw    *)
(* function calls hidReset next.                                           *)
hidSetSharedMemPtr ==
  /\ scan = Idle
  /\ \E n \in Times :
       /\ \A d \in fed : n <= MaxTime[d]
       /\ entered' = [d \in Rings |-> IF d \in fed THEN n ELSE 0]
       /\ published' = entered'
  /\ stale' = TRUE
  /\ UNCHANGED <<fed, scan, stamp, kept, trail, keys, autoID, layout, enabled, seen>>

hidSetControllerLayout(c, lay) ==
  /\ scan = Idle
  /\ layout' = [layout EXCEPT ![c] = lay]
  /\ UNCHANGED <<fed, entered, published, scan, stamp, kept, trail, keys, autoID, enabled, stale, seen>>

(* hidStartSixAxisSensor, hidStopSixAxisSensor *)
SetSixAxis(on) ==
  /\ scan = Idle
  /\ enabled' = on
  /\ UNCHANGED <<fed, entered, published, scan, stamp, kept, trail, keys, autoID, layout, stale, seen>>

-----------------------------------------------------------------------------
(* hidScanInput takes the lock and sets aside what it had. *)
KeysOf(d) ==
  (kept[d].marks \ {"connected"}) \cup (IF d = "handheld" THEN kept["touch"].marks ELSE {})

BeginScan ==
  /\ scan = Idle /\ ~stale
  /\ scan' = Enters(1)
  /\ keys' = [keys EXCEPT !.old = keys.held, !.held = NoKeys]
  /\ kept' = NothingKept /\ trail' = [d \in Trails |-> NoTrail]
  /\ seen' = [seen EXCEPT !.scanned = TRUE, !.before = [d \in Keyed |-> KeysOf(d)]]
  /\ UNCHANGED <<fed, entered, published, stamp, autoID, layout, enabled, stale>>

(* After a ring comes the next; after the last the automatic controller is *)
(* player 1 if the entry copied of it is connected, and the lock is free.  *)
Onward ==
  IF scan.ring < Len(Order) THEN scan' = Enters(scan.ring + 1) /\ UNCHANGED autoID
  ELSE /\ scan' = Idle
       /\ autoID' = IF "connected" \in kept["player1"].marks THEN "player1" ELSE "handheld"

ReadLatest(d) ==
  /\ scan.part = "latest"
  /\ scan' = [scan EXCEPT !.part = IF d \in Trails THEN "header" ELSE "take",
                          !.slot = published[d] % RingSize]
  /\ seen' = [seen EXCEPT !.began[d] = published[d]]
  /\ UNCHANGED <<fed, entered, published, stamp, kept, trail, keys, autoID, layout, enabled, stale>>

(* The memcpy of a whole ring, header first; the motion only if enabled.   *)
CopyHeader(d) ==
  /\ scan.part = "header"
  /\ IF d = "motion" /\ ~enabled THEN Onward /\ UNCHANGED <<trail, seen>>
     ELSE /\ scan' = [scan EXCEPT !.part = "entries"] /\ UNCHANGED autoID
          /\ trail' = [trail EXCEPT ![d].latest = published[d] % RingSize, ![d].max = RingSize - 1]
          /\ seen' = [seen EXCEPT !.from[d] = published[d],
                                  !.began[d] = IF d = "motion" THEN published[d] ELSE @]
  /\ UNCHANGED <<fed, entered, published, stamp, kept, keys, layout, enabled, stale>>

CopyEntry(d) ==
  /\ scan.part = "entries"
  /\ trail' = [trail EXCEPT ![d].times[scan.copied] = InSlot(d, scan.copied)]
  /\ seen' = [seen EXCEPT !.upto[d] = entered[d]]
  /\ IF scan.copied + 1 < RingSize
     THEN scan' = [scan EXCEPT !.copied = @ + 1] /\ UNCHANGED autoID
     ELSE IF d = "motion" THEN Onward
     ELSE scan' = [scan EXCEPT !.part = "take"] /\ UNCHANGED autoID
  /\ UNCHANGED <<fed, entered, published, stamp, kept, keys, layout, enabled, stale>>

(* The newest entry replaces the zeros, unless it is older than the one    *)
(* kept by an earlier scan; then what is held, pressed and released.       *)
Fresh(time, old) == time >= old

Take(d) ==
  LET time == InSlot(d, scan.slot)
      lay == IF d \in Pads THEN layout[d] ELSE Default
      copy == IF d \in Trails THEN trail[d].times[scan.slot] ELSE time
      entry == [time |-> copy, marks |-> Marks[<<d, lay, copy>>]]
  IN  /\ scan.part = "take"
      /\ IF Fresh(time, stamp[d])
         THEN kept' = [kept EXCEPT ![d] = entry] /\ stamp' = [stamp EXCEPT ![d] = time]
         ELSE UNCHANGED <<kept, stamp>>
      /\ IF d = "touch"
         THEN keys' = [keys EXCEPT !.held["handheld"] = @ \cup kept'[d].marks]
         ELSE LET held == keys.held[d] \cup (kept'[d].marks \ {"connected"})
              IN  keys' = [keys EXCEPT !.held[d] = held, !.down[d] = held \ keys.old[d],
                                       !.up[d] = keys.old[d] \ held]
      /\ Onward
      /\ UNCHANGED <<fed, entered, published, trail, layout, enabled, stale, seen>>

hidScanInput ==
  \/ BeginScan
  \/ /\ scan # Idle
     /\ LET d == Order[scan.ring]
        IN  ReadLatest(d) \/ CopyHeader(d) \/ CopyEntry(d) \/ Take(d)

Next ==
  \/ \E d \in fed : Enter(d) \/ Publish(d)
  \/ hidReset \/ hidSetSharedMemPtr \/ hidScanInput
  \/ \E c \in fed \cap Pads, lay \in Layouts : hidSetControllerLayout(c, lay)
  \/ "motion" \in fed /\ \E on \in BOOLEAN : SetSixAxis(on)

Spec == Init /\ [][Next]_vars

-----------------------------------------------------------------------------
(* The times of the last n samples of a copy, up to one that does not      *)
(* follow on the one before.                                               *)
Gaps(time) == {i \in 2..Len(time) : time[i - 1] # 0 /\ time[i] - time[i - 1] # 1}
UpToGap(time) ==
  IF Gaps(time) = {} THEN time
  ELSE SubSeq(time, 1, (CHOOSE g \in Gaps(time) : \A h \in Gaps(time) : g <= h) - 1)

LastOf(d, n, size) ==
  [i \in 1..n |-> trail[d].times[(trail[d].latest + 1 - n + i - 1) % size]]

MultiRead(d, n) ==
  LET size == trail[d].max + 1
  IN  UpToGap(LastOf(d, IF n < size THEN n ELSE size, size))

hidMouseMultiRead(n) == MultiRead("mouse", n)
hidSixAxisSensorValuesRead(n) == IF enabled THEN MultiRead("motion", n) ELSE <<>>

-----------------------------------------------------------------------------
MarkSets == {Marks[<<d, lay, t>>] : d \in Rings, lay \in Layouts, t \in Times}
KeySets == [Keyed -> SUBSET UNION MarkSets]
Scans == [ring : 0..Len(Order), part : {"none", "latest", "header", "entries", "take"},
          slot : Slots, copied : Slots]
Entries == [time : Times, marks : MarkSets]
Copies == [latest : Slots, max : {0, RingSize - 1}, times : [Slots -> Times]]
Histories == [scanned : BOOLEAN, began : [Rings -> Times], from : [Trails -> Times],
              upto : [Trails -> Times], before : KeySets]

TypeOK ==
  /\ fed \in Feeds /\ entered \in [Rings -> Times] /\ published \in [Rings -> Times]
  /\ \A d \in Rings : published[d] \in {entered[d], entered[d] - 1}
  /\ scan \in Scans /\ stamp \in [Rings -> Times]
  /\ kept \in [Rings -> Entries] /\ trail \in [Trails -> Copies]
  /\ keys \in [old : KeySets, held : KeySets, down : KeySets, up : KeySets]
  /\ autoID \in Pads /\ layout \in [Pads -> Layouts]
  /\ enabled \in BOOLEAN /\ stale \in BOOLEAN /\ seen \in Histories

(* What readers see after a scan is of this memory: an entry the service   *)
(* had shown when the scan came to it, or a newer one, in every device;    *)
(* and a key is pressed or released if that entry and the one of the scan  *)
(* before differ in it, also after the memory was changed.                 *)
NewestKept ==
  scan = Idle /\ seen.scanned /\ ~stale =>
    /\ \A d \in Rings \ {"motion"} : kept[d].time \in seen.began[d]..entered[d]
    /\ \A d \in Keyed :
         /\ keys.held[d] = KeysOf(d)
         /\ keys.down[d] = KeysOf(d) \ seen.before[d] /\ keys.up[d] = seen.before[d] \ KeysOf(d)

(* A reader of several samples gets the newest ones, all of them and in    *)
(* order, if the ring has room for those entered while it was copied; if   *)
(* it has not, still none out of order.                                    *)
SamplesInOrder ==
  scan = Idle =>
    \A d \in Trails, n \in 1..RingSize + 1 :
      LET r == IF d = "mouse" THEN hidMouseMultiRead(n) ELSE hidSixAxisSensorValuesRead(n)
      IN  /\ \A i \in 1..Len(r) - 1 : r[i] = 0 \/ r[i + 1] = r[i] + 1
          /\ (d = "mouse" \/ enabled) /\ trail[d].max > 0
               /\ n + (seen.upto[d] - seen.from[d]) <= RingSize =>
               r = [i \in 1..n |-> LET t == seen.from[d] - n + i IN IF t < 0 THEN 0 ELSE t]

-----------------------------------------------------------------------------
(* The steps of a scan at a ring; no memory is set while there is one. *)
ScanFits ==
  scan = Idle \/
    /\ scan.ring \in DOMAIN Order /\ ~stale
    /\ \/ scan = Enters(scan.ring)
       \/ /\ scan.part = "header" => Order[scan.ring] = "mouse" /\ scan.copied = 0
          /\ scan.part = "entries" => Order[scan.ring] \in Trails
          /\ scan.part = "take" => Order[scan.ring] # "motion"
          /\ scan.part \in {"header", "entries", "take"}

(* What a scan read of this memory was shown, ... *)
BegunFits == ~stale => \A d \in Rings : seen.began[d] <= published[d] /\ stamp[d] <= published[d]

(* ... and is in its slot until the scan has read it. *)
SlotFits ==
  \A d \in Rings : Scanned(d) =>
    /\ entered[d] < seen.began[d] + RingSize /\ stamp[d] <= seen.began[d]
    /\ d # "motion" => scan.slot = seen.began[d] % RingSize
    /\ d = "mouse" /\ (scan.part = "entries" => scan.copied > scan.slot) /\ scan.part # "header" =>
         trail[d].times[scan.slot] = seen.began[d]

(* The rings a scan is done with, which are all between two. *)
Passed == IF scan = Idle THEN Rings ELSE {Order[k] : k \in 1..scan.ring - 1}

KeptFits == ~stale => \A d \in Passed \ {"motion"} : kept[d].time = seen.began[d]

KeyFits(d) ==
  /\ keys.old[d] = seen.before[d]
  /\ d \in Passed => /\ keys.held[d] = KeysOf(d)
                     /\ keys.down[d] = KeysOf(d) \ keys.old[d]
                     /\ keys.up[d] = keys.old[d] \ KeysOf(d)
  /\ d \notin Passed =>
       keys.held[d] = IF d = "handheld" /\ "touch" \in Passed THEN kept["touch"].marks ELSE {}

KeysFit == ~stale => \A d \in Keyed : KeyFits(d)

(* A slot was copied between the header and the last of them.              *)
Copying(d) == scan.ring # 0 /\ Order[scan.ring] = d /\ scan.part = "entries"
Copied(d) == IF Copying(d) THEN 0..scan.copied - 1 ELSE Slots

TrailHolds(d) ==
  trail[d].max > 0 =>
    /\ trail[d].latest = seen.from[d] % RingSize
    /\ \A s \in Copied(d) :
         \E e \in seen.from[d]..seen.upto[d] : trail[d].times[s] = Newest(s, e)

CopyBegun(d) ==
  Copying(d) =>
    /\ trail[d].max > 0 /\ seen.from[d] <= entered[d]
    /\ scan.copied > 0 => seen.upto[d] <= entered[d]

TrailFits == \A d \in Trails : TrailHolds(d) /\ CopyBegun(d)

IInv ==
  /\ TypeOK /\ ScanFits /\ BegunFits /\ SlotFits /\ KeptFits /\ KeysFit /\ TrailFits
=============================================================================
