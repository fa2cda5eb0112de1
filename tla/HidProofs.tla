------------------------------ MODULE HidProofs ------------------------------
(***************************************************************************)
(* Proofs about Hid for rings of every size, any number of samples and any *)
(* marks: the inductive invariant IInv, from which what a reader sees after*)
(* a scan is the newest that was shown, and several samples are in order.  *)
(***************************************************************************)
EXTENDS Hid, WellFoundedInduction, SequenceTheorems, TLAPS

-----------------------------------------------------------------------------
(* The slots of a ring: what is the same modulo its size is one sample, if *)
(* the two are less than a round apart.                                    *)
LEMMA Divide ==
  ASSUME NEW x \in Int, NEW n \in Nat \ {0}
  PROVE  x \div n \in Int /\ x % n \in 0..n-1 /\ x = n * (x \div n) + (x % n)
OBVIOUS

LEMMA OneRemainder ==
  ASSUME NEW n \in Nat \ {0}, NEW q \in Int, NEW p \in Int, NEW r \in 0..n-1, NEW s \in 0..n-1,
         n * q + r = n * p + s
  PROVE  q = p /\ r = s
OBVIOUS

LEMMA Remainder ==
  ASSUME NEW n \in Nat \ {0}, NEW q \in Int, NEW r \in 0..n-1
  PROVE  (n * q + r) % n = r
<1>1. n * q + r \in Int
  OBVIOUS
<1> DEFINE x == n * q + r
<1>2. x \div n \in Int /\ x % n \in 0..n-1 /\ x = n * (x \div n) + (x % n)
  BY <1>1, Divide
<1>3. n * (x \div n) + (x % n) = n * q + r
  BY <1>2
<1> HIDE DEF x
<1>4. x % n = r
  BY <1>2, <1>3, OneRemainder
<1> QED BY <1>4 DEF x

LEMMA SameMultiple ==
  ASSUME NEW n \in Nat \ {0}, NEW q \in Int, -n < n * q, n * q < n PROVE q = 0
OBVIOUS

LEMMA SameSlot ==
  ASSUME NEW x \in Int, NEW y \in Int, NEW n \in Nat \ {0}, x % n = y % n, x < y + n, y < x + n
  PROVE  x = y
<1> DEFINE q == x \div n  p == y \div n
<1>1. q \in Int /\ p \in Int /\ x = n * q + (x % n) /\ y = n * p + (y % n) /\ x % n \in Int
  BY Divide
<1> HIDE DEF q, p
<1>2. n * (q - p) = n * q - n * p
  BY <1>1
<1>3. n * (q - p) = x - y
  BY <1>1, <1>2
<1>4. q - p = 0
  BY <1>1, <1>3, SameMultiple
<1> QED BY <1>1, <1>4

LEMMA Around ==
  ASSUME NEW x \in Int, NEW k \in Int, NEW n \in Nat \ {0} PROVE ((x % n) + k) % n = (x + k) % n
<1> DEFINE q == x \div n  y == (x % n) + k  p == y \div n  r == y % n
<1>1. q \in Int /\ x = n * q + (x % n) /\ x % n \in Int /\ y \in Int
  BY Divide
<1> HIDE DEF q, y
<1>2. p \in Int /\ r \in 0..n-1 /\ y = n * p + r
  BY <1>1, Divide
<1> HIDE DEF p, r
<1>3. x + k = n * q + y
  BY <1>1 DEF y
<1>4. x + k = n * (q + p) + r
  <2>1. n * (q + p) = n * q + n * p
    BY <1>1, <1>2
  <2> QED BY <1>1, <1>2, <1>3, <2>1
<1>5. q + p \in Int
  BY <1>1, <1>2
<1>6. (x + k) % n = r
  BY <1>5, <1>1, <1>2, <1>4, Remainder
<1> QED BY <1>6 DEF r, y

LEMMA Least ==
  ASSUME NEW A, A \subseteq Nat, A # {} PROVE \E k \in A : \A j \in A : k <= j
<1> DEFINE R == {ss \in Nat \X Nat : ss[1] < ss[2]}
<1>1. IsWellFoundedOn(R, Nat)
  BY NatLessThanWellFounded DEF OpToRel
<1>2. \A j, l \in Nat : j < l => <<j, l>> \in R
  OBVIOUS
<1> HIDE DEF R
<1>3. PICK k \in A : \A j \in A : ~(<<j, k>> \in R)
  BY <1>1, WFMin
<1>4. ASSUME NEW j \in A PROVE k <= j
  <2>1. j \in Nat /\ k \in Nat /\ ~(<<j, k>> \in R)
    BY <1>3
  <2>2. ~(j < k)
    BY <1>2, <2>1
  <2> QED BY <2>1, <2>2
<1> QED BY <1>4

-----------------------------------------------------------------------------
(* What a slot holds. *)

LEMMA Constants ==
  ASSUME HidAssumption
  PROVE  /\ RingSize \in Nat /\ RingSize > 1 /\ Times \subseteq Nat /\ 0 \in Times /\ 0 \in Slots
         /\ Slots \subseteq Nat /\ {} \in MarkSets
         /\ \A d \in Rings : MaxTime[d] \in Times
<1>1. "mouse" \in Rings /\ MaxTime["mouse"] \in Nat
  BY DEF HidAssumption, Rings, Order
<1>2. Marks[<<"mouse", Default, 0>>] = {} /\ Default \in Layouts /\ 0 \in Times
  BY <1>1 DEF HidAssumption, Times
<1>3. {} \in MarkSets
  BY <1>1, <1>2 DEF MarkSets
<1> QED BY <1>1, <1>3 DEF HidAssumption, Times, Slots

LEMMA NewestIn ==
  ASSUME NEW last \in Nat, NEW s PROVE Newest(s, last) \in 0..last
<1>1. CASE Fell(s, last) = {}
  BY <1>1 DEF Newest
<1>2. CASE Fell(s, last) # {}
  <2> DEFINE A == {last - t : t \in Fell(s, last)}
  <2>1. \A t \in Fell(s, last) : t \in 0..last
    BY DEF Fell
  <2>2. A \subseteq Nat /\ A # {}
    BY <1>2, <2>1
  <2>3. PICK k \in A : \A j \in A : k <= j
    BY <2>2, Least
  <2>4. PICK t \in Fell(s, last) : k = last - t
    BY <2>3
  <2>5. ASSUME NEW u \in Fell(s, last) PROVE u <= t
    <3>1. u \in 0..last /\ t \in 0..last /\ last - u \in A
      BY <2>1
    <3>2. last - t <= last - u
      BY <2>3, <2>4, <3>1
    <3> QED BY <3>1, <3>2
  <2> QED BY <1>2, <2>1, <2>4, <2>5 DEF Newest
<1> QED BY <1>1, <1>2

(* The newest in its slot is a sample that is less than a round back, ...  *)
LEMMA NewestIs ==
  ASSUME HidAssumption, NEW x \in Nat, NEW last \in Nat, x <= last, last < x + RingSize
  PROVE  Newest(x % RingSize, last) = x
<1>1. RingSize \in Nat \ {0}
  BY Constants
<1>2. x \in Fell(x % RingSize, last)
  BY DEF Fell
<1>3. ASSUME NEW u \in Fell(x % RingSize, last) PROVE u \in Nat /\ u <= x
  <2>1. u \in Nat /\ u <= last /\ u % RingSize = x % RingSize
    BY DEF Fell
  <2>2. u < x + RingSize
    BY <1>1, <2>1
  <2>3. CASE x < u + RingSize
    <3>1. u \in Int /\ x \in Int
      BY <2>1
    <3>2. u = x
      BY <1>1, <2>1, <2>2, <2>3, <3>1, SameSlot
    <3> QED BY <3>2
  <2>4. CASE ~(x < u + RingSize)
    BY <1>1, <2>1, <2>4
  <2> QED BY <2>1, <2>3, <2>4
<1> DEFINE newest == CHOOSE t \in Fell(x % RingSize, last) : \A u \in Fell(x % RingSize, last) : u <= t
<1>4. newest \in Fell(x % RingSize, last) /\ \A u \in Fell(x % RingSize, last) : u <= newest
  BY <1>2, <1>3
<1>5. Newest(x % RingSize, last) = newest
  BY <1>2 DEF Newest
<1> HIDE DEF newest
<1>6. newest \in Nat /\ newest <= x /\ x <= newest
  BY <1>2, <1>3, <1>4
<1> QED BY <1>5, <1>6

(* ... and none is in it if that would be from before the first.           *)
LEMMA NewestNone ==
  ASSUME HidAssumption, NEW x \in Int, x < 0, NEW last \in Nat, last < x + RingSize
  PROVE  Newest(x % RingSize, last) = 0
<1>1. RingSize \in Nat \ {0}
  BY Constants
<1>2. ASSUME NEW u \in Fell(x % RingSize, last) PROVE FALSE
  <2>1. u \in Nat /\ u <= last /\ u % RingSize = x % RingSize
    BY DEF Fell
  <2>2. u < x + RingSize /\ x < u + RingSize
    BY <1>1, <2>1
  <2>3. u = x
    BY <1>1, <2>1, <2>2, SameSlot
  <2> QED BY <2>1, <2>3
<1> QED BY <1>2 DEF Newest

-----------------------------------------------------------------------------
(* The order of a scan. *)

LEMMA Places ==
  /\ Len(Order) = 6 /\ DOMAIN Order = 1..6
  /\ Order[1] = "touch" /\ Order[2] = "mouse" /\ Order[3] = "keyboard"
  /\ Order[4] = "player1" /\ Order[5] = "motion" /\ Order[6] = "handheld"
  /\ Rings = {"touch", "mouse", "keyboard", "player1", "motion", "handheld"}
<1>1. /\ Len(Order) = 6 /\ DOMAIN Order = 1..6
      /\ Order[1] = "touch" /\ Order[2] = "mouse" /\ Order[3] = "keyboard"
      /\ Order[4] = "player1" /\ Order[5] = "motion" /\ Order[6] = "handheld"
  BY DEF Order
<1>2. \A k \in 1..6 : k = 1 \/ k = 2 \/ k = 3 \/ k = 4 \/ k = 5 \/ k = 6
  OBVIOUS
<1>3. Rings = {"touch", "mouse", "keyboard", "player1", "motion", "handheld"}
  BY <1>1, <1>2 DEF Rings
<1> QED BY <1>1, <1>3

LEMMA Apart ==
  ASSUME NEW j \in 1..6, NEW k \in 1..6, Order[j] = Order[k] PROVE j = k
<1>1. j = 1 \/ j = 2 \/ j = 3 \/ j = 4 \/ j = 5 \/ j = 6
  OBVIOUS
<1>2. k = 1 \/ k = 2 \/ k = 3 \/ k = 4 \/ k = 5 \/ k = 6
  OBVIOUS
<1> QED BY <1>1, <1>2, Places

(* What the step of a scan is about, and what that leaves.                 *)
LEMMA Here ==
  ASSUME TypeOK, ScanFits, scan # Idle
  PROVE  /\ scan.ring \in 1..6 /\ ~stale /\ Order[scan.ring] \in Rings
         /\ Order[scan.ring] \notin Passed /\ Passed \subseteq Rings
         /\ \A d \in Rings : Scanned(d) => d = Order[scan.ring]
<1>1. scan.ring \in 1..6 /\ ~stale
  BY Places DEF ScanFits
<1>2. Order[scan.ring] \in Rings
  BY <1>1, Places DEF Rings
<1>3. ASSUME NEW k \in 1..scan.ring - 1 PROVE Order[k] # Order[scan.ring]
  <2>1. k \in 1..6 /\ k # scan.ring
    BY <1>1
  <2> QED BY <1>1, <2>1, Apart
<1>4. Passed \subseteq Rings
  BY <1>1, Places DEF Passed, Rings
<1> QED BY <1>1, <1>2, <1>3, <1>4 DEF Passed, Scanned

LEMMA Between ==
  ASSUME scan = Idle PROVE Passed = Rings /\ \A d \in Rings : ~Scanned(d) /\ ~Copying(d)
BY DEF Idle, Passed, Scanned, Copying

LEMMA EntersFits ==
  ASSUME HidAssumption, NEW k \in 1..6
  PROVE  /\ Enters(k) \in Scans
         /\ Enters(k).ring = k /\ Enters(k) # Idle /\ Enters(k).copied = 0
         /\ Enters(k).part = IF Order[k] = "motion" THEN "header" ELSE "latest"
BY Constants, Places DEF Enters, Idle, Scans

(* At a ring that is entered nothing has been read. *)
LEMMA EnteredFits ==
  ASSUME HidAssumption, NEW k \in 1..6, scan' = Enters(k), ~stale'
  PROVE  /\ ScanFits' /\ SlotFits' /\ Passed' = {Order[j] : j \in 1..k - 1}
         /\ \A d \in Rings : ~Copying(d)'
<1>1. scan'.ring = k /\ scan' # Idle /\ scan'.part # "entries"
  BY EntersFits
<1>2. ScanFits'
  BY <1>1, Places DEF ScanFits
<1>3. \A d \in Rings : ~Scanned(d)' /\ ~Copying(d)'
  BY <1>1 DEF Scanned, Copying
<1>4. Passed' = {Order[j] : j \in 1..k - 1}
  BY <1>1 DEF Passed, Idle
<1> QED BY <1>2, <1>3, <1>4 DEF SlotFits

LEMMA OnwardFits ==
  ASSUME HidAssumption, TypeOK, ScanFits, scan # Idle, Onward, ~stale'
  PROVE  /\ scan' \in Scans
         /\ autoID' \in Pads /\ ScanFits' /\ SlotFits' /\ Passed' = Passed \cup {Order[scan.ring]}
         /\ \A d \in Rings : ~Copying(d)'
<1>1. scan.ring \in 1..6
  BY Here
<1>2. autoID' \in Pads
  BY DEF Onward, TypeOK, Pads
<1>3. CASE scan.ring < 6
  <2>1. scan.ring + 1 \in 1..6 /\ scan' = Enters(scan.ring + 1)
    BY <1>1, <1>3, Places DEF Onward
  <2>2. PICK k \in 1..6 : k = scan.ring + 1
    BY <2>1
  <2>3. scan' = Enters(k)
    BY <2>1, <2>2
  <2>4. /\ ScanFits' /\ SlotFits' /\ Passed' = {Order[j] : j \in 1..k - 1}
        /\ \A d \in Rings : ~Copying(d)'
    BY <2>3, EnteredFits
  <2>5. 1..k - 1 = 1..scan.ring /\ 1..scan.ring = (1..scan.ring - 1) \cup {scan.ring}
    BY <1>1, <2>2
  <2>6. Passed = {Order[j] : j \in 1..scan.ring - 1}
    BY DEF Passed
  <2>7. Passed' = Passed \cup {Order[scan.ring]}
    BY <2>4, <2>5, <2>6
  <2> QED BY <1>2, <2>3, <2>4, <2>7, EntersFits
<1>4. CASE scan.ring = 6
  <2>1. scan' = Idle
    BY <1>4, Places DEF Onward
  <2>2. Passed' = Rings /\ \A d \in Rings : ~Scanned(d)' /\ ~Copying(d)'
    BY <2>1 DEF Idle, Passed, Scanned, Copying
  <2>3. Passed = {Order[j] : j \in 1..5}
    BY <1>4 DEF Passed
  <2>4. Passed \cup {Order[6]} = Rings
    <3>1. \A j \in 1..5 : j = 1 \/ j = 2 \/ j = 3 \/ j = 4 \/ j = 5
      OBVIOUS
    <3>2. Passed = {"touch", "mouse", "keyboard", "player1", "motion"}
      BY <2>3, <3>1, Places
    <3> QED BY <3>2, Places
  <2>5. ScanFits' /\ SlotFits'
    BY <2>1, <2>2 DEF ScanFits, SlotFits
  <2>6. scan' \in Scans
    BY <2>1, Constants, Places DEF Idle, Scans
  <2> QED BY <1>2, <1>4, <2>2, <2>4, <2>5, <2>6
<1> QED BY <1>1, <1>3, <1>4

-----------------------------------------------------------------------------
(* The service. *)

LEMMA Blank ==
  ASSUME HidAssumption
  PROVE  /\ NoKeys \in KeySets /\ NothingKept \in [Rings -> Entries] /\ Idle \in Scans
         /\ [d \in Trails |-> NoTrail] \in [Trails -> Copies] /\ Unseen \in Histories
         /\ [old |-> NoKeys, held |-> NoKeys, down |-> NoKeys, up |-> NoKeys]
              \in [old : KeySets, held : KeySets, down : KeySets, up : KeySets]
<1>1. NoKeys \in KeySets
  BY DEF NoKeys, KeySets
<1>2. NothingKept \in [Rings -> Entries]
  BY Constants DEF NothingKept, Zeroed, Entries
<1>3. NoTrail \in Copies
  BY Constants DEF NoTrail, Copies
<1>4. Unseen \in Histories
  BY <1>1, Constants DEF Unseen, Histories
<1>5. Idle \in Scans
  BY Constants, Places DEF Idle, Scans
<1> QED BY <1>1, <1>2, <1>3, <1>4, <1>5

(* What hidReset leaves, and the program begins with. *)
LEMMA ClearedFits ==
  ASSUME HidAssumption, Idle = scan, NothingKept = kept, NoKeys = keys.held, NoKeys = keys.old,
         NoKeys = keys.down, NoKeys = keys.up, trail = [d \in Trails |-> NoTrail],
         seen = Unseen, stamp = [d \in Rings |-> 0], published \in [Rings -> Times]
  PROVE  ScanFits /\ BegunFits /\ SlotFits /\ KeptFits /\ KeysFit /\ TrailFits
<1>1. Passed = Rings /\ \A d \in Rings : ~Scanned(d) /\ ~Copying(d)
  BY Between
<1>2. ScanFits /\ SlotFits
  BY <1>1 DEF ScanFits, SlotFits
<1>3. BegunFits
  BY Constants DEF BegunFits, Unseen
<1>4. \A d \in Rings : kept[d].time = 0 /\ kept[d].marks = {}
  BY DEF NothingKept, Zeroed
<1>5. KeptFits
  BY <1>4 DEF KeptFits, Unseen, Passed
<1>6. \A d \in Keyed : d \in Rings /\ "touch" \in Rings /\ NoKeys[d] = {}
  BY Places DEF Keyed, Pads, NoKeys
<1>7. KeysFit
  <2>1. \A d \in Keyed : KeysOf(d) = {}
    BY <1>4, <1>6 DEF KeysOf
  <2> QED BY <1>1, <1>6, <2>1 DEF KeysFit, KeyFits, Unseen
<1>8. \A d \in Trails : d \in Rings /\ trail[d].max = 0
  BY Places DEF Trails, NoTrail
<1>9. TrailFits
  BY <1>1, <1>8 DEF TrailFits, TrailHolds, CopyBegun
<1> QED BY <1>2, <1>3, <1>5, <1>7, <1>9

LEMMA HidInit ==
  ASSUME HidAssumption, Init PROVE IInv
<1>1. TypeOK
  <2>1. entered \in [Rings -> Times] /\ published \in [Rings -> Times] /\ stamp \in [Rings -> Times]
        /\ \A d \in Rings : published[d] = entered[d]
    BY Constants DEF Init
  <2>2. Default \in Layouts
    BY DEF HidAssumption
  <2> QED BY <2>1, <2>2, Blank DEF Init, TypeOK, Pads
<1>2. ScanFits /\ BegunFits /\ SlotFits /\ KeptFits /\ KeysFit /\ TrailFits
  BY <1>1, ClearedFits DEF Init, TypeOK
<1> QED BY <1>1, <1>2 DEF IInv

LEMMA HidEnter ==
  ASSUME HidAssumption, IInv, NEW d \in fed, Enter(d) PROVE IInv'
<1>1. d \in Rings /\ UNCHANGED <<fed, published, scan, stamp, kept, trail, keys, autoID, layout,
                                 enabled, stale, seen>>
  BY DEF IInv, TypeOK, HidAssumption, Enter, program
<1>2. /\ entered' = [entered EXCEPT ![d] = entered[d] + 1] /\ entered[d] = published[d]
      /\ entered \in [Rings -> Times] /\ entered[d] < MaxTime[d] /\ MaxTime[d] \in Times
  BY <1>1, Constants DEF IInv, TypeOK, Enter
<1>3. entered' \in [Rings -> Times]
  <2>1. entered[d] \in Nat /\ MaxTime[d] \in Nat /\ MaxTime["mouse"] \in Nat
        /\ MaxTime[d] <= MaxTime["mouse"]
    BY <1>1, <1>2, Places, Constants DEF HidAssumption
  <2>2. entered[d] + 1 \in Times
    BY <1>2, <2>1 DEF Times
  <2> QED BY <1>2, <2>2
<1>4. \A e \in Rings : /\ e # d => entered'[e] = entered[e]
                       /\ e = d => entered'[e] = entered[e] + 1
  BY <1>1, <1>2
<1>5. TypeOK'
  <2>1. \A e \in Rings : published[e] \in {entered'[e], entered'[e] - 1}
    BY <1>2, <1>4, Constants DEF IInv, TypeOK
  <2> QED BY <1>1, <1>3, <2>1 DEF IInv, TypeOK
<1>6. ScanFits' /\ BegunFits' /\ Passed' = Passed /\ KeptFits' /\ KeysFit'
  BY <1>1 DEF IInv, ScanFits, BegunFits, Passed, KeptFits, KeysFit, KeyFits, KeysOf
<1>7. \A e \in Rings : (Scanned(e)' <=> Scanned(e)) /\ (Copying(e)' <=> Copying(e))
  BY <1>1 DEF Scanned, Copying
<1>8. \A e \in Rings : Scanned(e) => entered'[e] < seen.began[e] + RingSize
  BY <1>4 DEF IInv, SlotFits, Enter
<1>9. SlotFits'
  BY <1>1, <1>7, <1>8 DEF IInv, SlotFits
<1>10. TrailFits'
  <2>1. \A e \in Trails : e \in Rings /\ entered[e] \in Nat /\ seen.from[e] \in Nat /\ seen.upto[e] \in Nat
    BY <1>2, Places, Constants DEF Trails, IInv, TypeOK, Histories
  <2>2. \A e \in Trails : Copied(e)' = Copied(e)
    BY <1>1, <1>7, <2>1 DEF Copied
  <2>3. ASSUME NEW e \in Trails PROVE CopyBegun(e)'
    <3>1. e \in Rings /\ entered[e] \in Nat /\ seen.from[e] \in Nat /\ seen.upto[e] \in Nat
      BY <2>1
    <3>2. entered'[e] \in Nat /\ entered[e] <= entered'[e]
      BY <1>4, <3>1
    <3>3. CopyBegun(e)
      BY DEF IInv, TrailFits
    <3>4. seen' = seen /\ trail' = trail /\ scan' = scan /\ (Copying(e)' <=> Copying(e))
      BY <1>1, <1>7, <3>1
    <3>5. Copying(e) => trail[e].max > 0 /\ seen.from[e] <= entered'[e]
      BY <3>1, <3>2, <3>3 DEF CopyBegun
    <3>6. Copying(e) /\ scan.copied > 0 => seen.upto[e] <= entered'[e]
      BY <3>1, <3>2, <3>3 DEF CopyBegun
    <3> QED BY <3>4, <3>5, <3>6 DEF CopyBegun
  <2>4. \A e \in Trails : TrailHolds(e)' <=> TrailHolds(e)
    BY <1>1, <2>2 DEF TrailHolds
  <2> QED BY <2>3, <2>4 DEF IInv, TrailFits
<1> QED BY <1>5, <1>6, <1>9, <1>10 DEF IInv

LEMMA HidPublish ==
  ASSUME HidAssumption, IInv, NEW d \in fed, Publish(d) PROVE IInv'
<1>1. d \in Rings /\ UNCHANGED <<fed, entered, scan, stamp, kept, trail, keys, autoID, layout,
                                 enabled, stale, seen>>
  BY DEF IInv, TypeOK, HidAssumption, Publish, program
<1>2. /\ published' = [published EXCEPT ![d] = entered[d]]
      /\ entered \in [Rings -> Times] /\ published \in [Rings -> Times] /\ Times \subseteq Nat
      /\ published[d] < entered[d]
  BY <1>1, Constants DEF IInv, TypeOK, Publish
<1>3. \A e \in Rings : /\ published'[e] = IF e = d THEN entered[e] ELSE published[e]
                       /\ published[e] \in Nat /\ published'[e] \in Nat /\ published[e] <= published'[e]
  <2>1. \A e \in Rings : entered[e] \in Nat /\ published[e] \in Nat
    BY <1>2
  <2>2. \A e \in Rings : published'[e] = IF e = d THEN entered[e] ELSE published[e]
    BY <1>1, <1>2
  <2> QED BY <1>2, <2>1, <2>2
<1>4. TypeOK'
  BY <1>1, <1>2, <1>3 DEF IInv, TypeOK
<1>5. BegunFits'
  <2>1. \A e \in Rings : seen.began[e] \in Nat /\ stamp[e] \in Nat
    BY <1>2 DEF IInv, TypeOK, Histories
  <2> QED BY <1>1, <1>3, <2>1 DEF IInv, BegunFits
<1>6. ScanFits' /\ Passed' = Passed /\ KeptFits' /\ KeysFit'
  BY <1>1 DEF IInv, ScanFits, Passed, KeptFits, KeysFit, KeyFits, KeysOf
<1>7. SlotFits' /\ TrailFits'
  BY <1>1 DEF IInv, SlotFits, TrailFits, TrailHolds, CopyBegun, Scanned, Copying, Copied
<1> QED BY <1>4, <1>5, <1>6, <1>7 DEF IInv

-----------------------------------------------------------------------------
(* The calls between two scans. *)

LEMMA HidResets ==
  ASSUME HidAssumption, IInv, hidReset PROVE IInv'
<1>1. /\ kept' = NothingKept /\ trail' = [d \in Trails |-> NoTrail] /\ stamp' = [d \in Rings |-> 0]
      /\ keys' = [old |-> NoKeys, held |-> NoKeys, down |-> NoKeys, up |-> NoKeys]
      /\ autoID' = "handheld" /\ layout' = [c \in Pads |-> Default] /\ enabled' = FALSE
      /\ stale' = FALSE /\ seen' = Unseen
      /\ scan = Idle /\ UNCHANGED <<fed, entered, published, scan>>
  BY DEF hidReset, Cleared, Unstamped
<1>2. TypeOK'
  <2>1. Default \in Layouts /\ [d \in Rings |-> 0] \in [Rings -> Times]
    BY Constants DEF HidAssumption
  <2> QED BY <1>1, <2>1, Blank DEF IInv, TypeOK, Pads
<1>3. Passed' = Rings /\ \A d \in Rings : ~Scanned(d)' /\ ~Copying(d)'
  BY <1>1 DEF Idle, Passed, Scanned, Copying
<1>4. ScanFits' /\ SlotFits'
  BY <1>1, <1>3 DEF ScanFits, SlotFits
<1>5. BegunFits'
  <2>1. \A d \in Rings : seen'.began[d] = 0 /\ stamp'[d] = 0 /\ published'[d] \in Nat
    BY <1>1, Constants DEF Unseen, IInv, TypeOK
  <2> QED BY <2>1 DEF BegunFits
<1>6. \A d \in Rings : kept'[d].time = 0 /\ kept'[d].marks = {}
  BY <1>1 DEF NothingKept, Zeroed
<1>7. KeptFits'
  BY <1>1, <1>3, <1>6 DEF KeptFits, Unseen
<1>8. \A d \in Keyed : d \in Rings /\ "touch" \in Rings /\ NoKeys[d] = {}
  BY Places DEF Keyed, Pads, NoKeys
<1>9. KeysFit'
  <2>1. \A d \in Keyed : KeysOf(d)' = {}
    BY <1>6, <1>8 DEF KeysOf
  <2> QED BY <1>1, <1>3, <1>8, <2>1 DEF KeysFit, KeyFits, Unseen
<1>10. TrailFits'
  <2>1. \A d \in Trails : d \in Rings /\ trail'[d].max = 0
    BY <1>1, Places DEF Trails, NoTrail
  <2> QED BY <1>3, <2>1 DEF TrailFits, TrailHolds, CopyBegun
<1> QED BY <1>2, <1>4, <1>5, <1>7, <1>9, <1>10 DEF IInv

LEMMA HidSetPtr ==
  ASSUME HidAssumption, IInv, hidSetSharedMemPtr PROVE IInv'
<1>1. /\ scan = Idle /\ stale' = TRUE
      /\ UNCHANGED <<fed, scan, stamp, kept, trail, keys, autoID, layout, enabled, seen>>
  BY DEF hidSetSharedMemPtr
<1>2. /\ entered' \in [Rings -> Times] /\ published' = entered'
  <2>1. PICK n \in Times : /\ entered' = [d \in Rings |-> IF d \in fed THEN n ELSE 0]
                           /\ published' = entered'
    BY DEF hidSetSharedMemPtr
  <2> QED BY <2>1, Constants
<1>3. TypeOK'
  BY <1>1, <1>2 DEF IInv, TypeOK
<1>4. Passed = Rings /\ \A d \in Rings : ~Scanned(d)' /\ ~Copying(d)' /\ ~Copying(d)
  BY <1>1 DEF Idle, Passed, Scanned, Copying
<1>5. ScanFits' /\ SlotFits' /\ BegunFits' /\ KeptFits' /\ KeysFit'
  BY <1>1, <1>4 DEF ScanFits, SlotFits, BegunFits, KeptFits, KeysFit
<1>6. TrailFits'
  <2>1. \A d \in Trails : d \in Rings
    BY Places DEF Trails
  <2> QED BY <1>1, <1>4, <2>1 DEF IInv, TrailFits, TrailHolds, CopyBegun, Copied
<1> QED BY <1>3, <1>5, <1>6 DEF IInv

(* What no property is about may change. *)
LEMMA HidRest ==
  ASSUME IInv, TypeOK',
         UNCHANGED <<fed, entered, published, scan, stamp, kept, trail, keys, stale, seen>>
  PROVE  IInv'
<1>1. Passed' = Passed /\ ScanFits' /\ BegunFits' /\ SlotFits'
  BY DEF IInv, Passed, ScanFits, BegunFits, SlotFits, Scanned
<1>2. KeptFits' /\ KeysFit'
  BY <1>1 DEF IInv, KeptFits, KeysFit, KeyFits, KeysOf
<1>3. TrailFits'
  BY DEF IInv, TrailFits, TrailHolds, CopyBegun, Copied, Copying
<1> QED BY <1>1, <1>2, <1>3 DEF IInv

LEMMA HidSettings ==
  ASSUME HidAssumption, IInv,
         \/ \E c \in fed \cap Pads, lay \in Layouts : hidSetControllerLayout(c, lay)
         \/ "motion" \in fed /\ \E on \in BOOLEAN : SetSixAxis(on)
  PROVE  IInv'
<1>1. CASE \E c \in fed \cap Pads, lay \in Layouts : hidSetControllerLayout(c, lay)
  <2>1. PICK c \in fed \cap Pads, lay \in Layouts : hidSetControllerLayout(c, lay)
    BY <1>1
  <2>2. layout' \in [Pads -> Layouts]
    BY <2>1 DEF hidSetControllerLayout, IInv, TypeOK
  <2>3. UNCHANGED <<fed, entered, published, scan, stamp, kept, trail, keys, autoID, enabled, stale, seen>>
    BY <2>1 DEF hidSetControllerLayout
  <2>4. TypeOK'
    BY <2>2, <2>3 DEF IInv, TypeOK
  <2> QED BY <2>3, <2>4, HidRest
<1>2. CASE \E on \in BOOLEAN : SetSixAxis(on)
  <2>1. /\ UNCHANGED <<fed, entered, published, scan, stamp, kept, trail, keys, autoID, layout, stale, seen>>
        /\ enabled' \in BOOLEAN
    BY <1>2 DEF SetSixAxis
  <2>2. TypeOK'
    BY <2>1 DEF IInv, TypeOK
  <2> QED BY <2>1, <2>2, HidRest
<1> QED BY <1>1, <1>2

-----------------------------------------------------------------------------
(* The steps of a scan. *)

LEMMA HidBegin ==
  ASSUME HidAssumption, IInv, BeginScan PROVE IInv'
<1>1. /\ scan = Idle /\ ~stale /\ scan' = Enters(1) /\ kept' = NothingKept
      /\ keys' = [keys EXCEPT !.old = keys.held, !.held = NoKeys]
      /\ trail' = [d \in Trails |-> NoTrail]
      /\ seen' = [seen EXCEPT !.scanned = TRUE, !.before = [d \in Keyed |-> KeysOf(d)]]
      /\ UNCHANGED <<fed, entered, published, stamp, autoID, layout, enabled, stale>>
  BY DEF BeginScan
<1>2. ScanFits' /\ SlotFits' /\ Passed' = {} /\ \A d \in Rings : ~Copying(d)'
  <2>1. {Order[j] : j \in 1..1 - 1} = {}
    OBVIOUS
  <2> QED BY <1>1, <2>1, EnteredFits
<1>3. Passed = Rings /\ \A d \in Keyed : d \in Rings
  BY <1>1, Between, Places DEF Keyed, Pads
<1>4. \A d \in Keyed : keys.held[d] = KeysOf(d)
  BY <1>1, <1>3 DEF IInv, KeysFit, KeyFits
<1>5. keys \in [old : KeySets, held : KeySets, down : KeySets, up : KeySets] /\ seen \in Histories
  BY DEF IInv, TypeOK
<1>6. [d \in Keyed |-> KeysOf(d)] = keys.held /\ keys.held \in KeySets
  BY <1>4, <1>5 DEF KeySets
<1>7. /\ keys' \in [old : KeySets, held : KeySets, down : KeySets, up : KeySets]
      /\ keys'.old = keys.held /\ keys'.held = NoKeys
  BY <1>1, <1>5, <1>6, Blank
<1>8. seen' \in Histories /\ seen'.before = keys.held /\ seen'.began = seen.began
  BY <1>1, <1>5, <1>6 DEF Histories
<1>9. TypeOK'
  BY <1>1, <1>7, <1>8, Blank, EntersFits DEF IInv, TypeOK
<1>10. BegunFits' /\ KeptFits'
  BY <1>1, <1>2, <1>8 DEF IInv, BegunFits, KeptFits
<1>11. KeysFit'
  BY <1>2, <1>3, <1>7, <1>8 DEF KeysFit, KeyFits, NoKeys
<1>12. TrailFits'
  <2>1. \A d \in Trails : d \in Rings /\ trail'[d].max = 0
    BY <1>1, Places DEF Trails, NoTrail
  <2> QED BY <1>2, <2>1 DEF TrailFits, TrailHolds, CopyBegun
<1> QED BY <1>2, <1>9, <1>10, <1>11, <1>12 DEF IInv

LEMMA HidReadLatest ==
  ASSUME HidAssumption, IInv, scan # Idle, NEW d, d = Order[scan.ring], ReadLatest(d) PROVE IInv'
<1>1. /\ scan.part = "latest"
      /\ scan' = [scan EXCEPT !.part = IF d \in Trails THEN "header" ELSE "take",
                              !.slot = published[d] % RingSize]
      /\ seen' = [seen EXCEPT !.began = [seen.began EXCEPT ![d] = published[d]]]
      /\ UNCHANGED <<fed, entered, published, stamp, kept, trail, keys, autoID, layout, enabled, stale>>
  BY DEF ReadLatest
<1>2. /\ scan.ring \in 1..6 /\ ~stale /\ d \in Rings /\ d \notin Passed
  BY Here DEF IInv
<1>3. scan = Enters(scan.ring) /\ scan.copied = 0 /\ d # "motion"
  <2>1. scan = Enters(scan.ring)
    BY <1>1 DEF IInv, ScanFits
  <2>2. PICK k \in 1..6 : k = scan.ring
    BY <1>2
  <2> QED BY <1>1, <2>1, <2>2, EntersFits
<1>4. /\ published[d] \in Times /\ published[d] \in Nat /\ entered[d] \in Nat
      /\ entered[d] <= published[d] + 1 /\ RingSize \in Nat /\ RingSize > 1
  <2>1. published[d] \in {entered[d], entered[d] - 1} /\ published[d] \in Times /\ entered[d] \in Times
    BY <1>2 DEF IInv, TypeOK
  <2> QED BY <2>1, Constants
<1>5. published[d] % RingSize \in Slots
  <2>1. RingSize \in Nat \ {0} /\ published[d] \in Int
    BY <1>4
  <2> QED BY <2>1, Divide DEF Slots
<1>6. /\ scan' \in Scans /\ scan'.ring = scan.ring /\ scan'.copied = 0
      /\ scan'.slot = published[d] % RingSize
      /\ scan'.part = IF d \in Trails THEN "header" ELSE "take"
  BY <1>1, <1>3, <1>5 DEF IInv, TypeOK, Scans
<1>7. /\ seen' \in Histories /\ seen'.began = [seen.began EXCEPT ![d] = published[d]]
      /\ seen'.before = seen.before /\ seen'.from = seen.from /\ seen'.upto = seen.upto
      /\ seen.began \in [Rings -> Times]
  BY <1>1, <1>4 DEF IInv, TypeOK, Histories
<1>8. TypeOK'
  BY <1>1, <1>6, <1>7 DEF IInv, TypeOK
<1>9. scan' # Idle /\ Passed' = Passed
  BY <1>2, <1>6 DEF Passed, Idle
<1>10. ScanFits'
  BY <1>1, <1>2, <1>3, <1>6, Places DEF ScanFits, Trails
<1>11. BegunFits'
  BY <1>1, <1>2, <1>4, <1>7 DEF IInv, BegunFits
<1>12. SlotFits'
  <2>1. ASSUME NEW e \in Rings, Scanned(e)' PROVE e = d
    BY <1>6, <2>1 DEF Scanned
  <2>2. stamp'[d] <= seen'.began[d]
    BY <1>1, <1>2, <1>7 DEF IInv, BegunFits
  <2>3. /\ entered'[d] < seen'.began[d] + RingSize /\ scan'.slot = seen'.began[d] % RingSize
        /\ d = "mouse" => scan'.part = "header"
    BY <1>1, <1>2, <1>4, <1>6, <1>7 DEF Trails
  <2> QED BY <2>1, <2>2, <2>3 DEF SlotFits
<1>13. KeptFits'
  BY <1>1, <1>2, <1>7, <1>9 DEF IInv, KeptFits, Passed
<1>14. KeysFit'
  BY <1>1, <1>7, <1>9 DEF IInv, KeysFit, KeyFits, KeysOf
<1>15. TrailFits'
  <2>1. \A e \in Trails : ~Copying(e)' /\ ~Copying(e)
    BY <1>1, <1>6 DEF Copying
  <2> QED BY <1>1, <1>7, <2>1 DEF IInv, TrailFits, TrailHolds, CopyBegun, Copied
<1> QED BY <1>8, <1>10, <1>11, <1>12, <1>13, <1>14, <1>15 DEF IInv

(* What a step that goes on to the next ring keeps: it copied d before.    *)
LEMMA HidSkip ==
  ASSUME HidAssumption, IInv, scan # Idle, Onward, "motion" = Order[scan.ring], TypeOK',
         UNCHANGED <<entered, published, stamp, kept, keys, stale>>,
         seen'.before = seen.before, \A e \in Rings \ {"motion"} : seen'.began[e] = seen.began[e],
         seen'.began["motion"] <= published["motion"],
         \A e \in Trails : TrailHolds(e)'
  PROVE  IInv'
<1>1. ~stale /\ "motion" \in Rings /\ "motion" \notin Passed /\ Passed \subseteq Rings
  BY Here DEF IInv
<1>2. /\ ScanFits' /\ SlotFits' /\ Passed' = Passed \cup {"motion"}
      /\ \A e \in Rings : ~Copying(e)'
  BY <1>1, OnwardFits DEF IInv
<1>3. BegunFits' /\ KeptFits'
  BY <1>1, <1>2 DEF IInv, BegunFits, KeptFits, Passed
<1>4. KeysFit'
  <2>1. \A e \in Keyed : e # "motion" /\ KeysOf(e)' = KeysOf(e)
    BY DEF Keyed, Pads, KeysOf
  <2> QED BY <1>2, <2>1 DEF IInv, KeysFit, KeyFits
<1>5. TrailFits'
  <2>1. \A e \in Trails : e \in Rings
    BY Places DEF Trails
  <2> QED BY <1>2, <2>1 DEF TrailFits, CopyBegun
<1> QED BY <1>2, <1>3, <1>4, <1>5 DEF IInv

LEMMA HidCopyHeader ==
  ASSUME HidAssumption, IInv, scan # Idle, NEW d, d = Order[scan.ring], CopyHeader(d) PROVE IInv'
<1>1. /\ scan.part = "header"
      /\ UNCHANGED <<fed, entered, published, stamp, kept, keys, layout, enabled, stale>>
  BY DEF CopyHeader
<1>2. /\ scan.ring \in 1..6 /\ ~stale /\ d \in Rings /\ d \notin Passed
  BY Here DEF IInv
<1>3. d \in Trails /\ scan.copied = 0 /\ (d # "motion" => d = "mouse" /\ Scanned(d))
  <2>1. PICK k \in 1..6 : k = scan.ring
    BY <1>2
  <2>2. CASE scan = Enters(scan.ring)
    BY <1>1, <2>1, <2>2, EntersFits DEF Trails
  <2>3. CASE scan # Enters(scan.ring)
    BY <1>1, <1>2, <2>3 DEF IInv, ScanFits, Trails, Scanned
  <2> QED BY <2>2, <2>3
<1>4. /\ published[d] \in Times /\ published[d] \in Nat /\ entered[d] \in Nat
      /\ entered[d] <= published[d] + 1 /\ published[d] <= entered[d]
      /\ RingSize \in Nat /\ RingSize > 1
  <2>1. published[d] \in {entered[d], entered[d] - 1} /\ published[d] \in Times /\ entered[d] \in Times
    BY <1>2 DEF IInv, TypeOK
  <2> QED BY <2>1, Constants
<1>5. \A e \in Trails : e \in Rings /\ ~Copying(e)
  BY <1>1, Places DEF Trails, Copying
<1>6. CASE d = "motion" /\ ~enabled
  <2>1. Onward /\ UNCHANGED <<trail, seen>>
    BY <1>6 DEF CopyHeader
  <2>2. scan' \in Scans /\ autoID' \in Pads /\ \A e \in Rings : ~Copying(e)'
    BY <1>1, <1>2, <2>1, OnwardFits DEF IInv
  <2>3. TypeOK'
    BY <1>1, <2>1, <2>2 DEF IInv, TypeOK
  <2>4. \A e \in Trails : TrailHolds(e)'
    BY <1>5, <2>1, <2>2 DEF IInv, TrailFits, TrailHolds, Copied
  <2>5. seen.began["motion"] <= published["motion"]
    BY <1>2, <1>6 DEF IInv, BegunFits
  <2> QED BY <1>1, <1>6, <2>1, <2>3, <2>4, <2>5, HidSkip
<1>7. CASE ~(d = "motion" /\ ~enabled)
  <2> DEFINE began == IF d = "motion" THEN published[d] ELSE seen.began[d]
  <2>1. /\ scan' = [scan EXCEPT !.part = "entries"] /\ autoID' = autoID
        /\ trail' = [trail EXCEPT ![d] = [trail[d] EXCEPT !.latest = published[d] % RingSize,
                                                          !.max = RingSize - 1]]
        /\ seen' = [seen EXCEPT !.from = [seen.from EXCEPT ![d] = published[d]],
                                !.began = [seen.began EXCEPT ![d] = began]]
    BY <1>7 DEF CopyHeader
  <2>2. seen \in Histories /\ scan \in Scans /\ trail \in [Trails -> Copies]
    BY DEF IInv, TypeOK
  <2>3. began \in Times
    BY <1>2, <1>4, <2>2 DEF Histories
  <2>4. /\ scan' \in Scans /\ scan'.ring = scan.ring /\ scan'.part = "entries" /\ scan'.copied = 0
        /\ scan'.slot = scan.slot
    BY <1>3, <2>1, <2>2 DEF Scans
  <2>5. /\ seen' \in Histories /\ seen'.before = seen.before /\ seen'.upto = seen.upto
        /\ \A e \in Rings : seen'.began[e] = IF e = d THEN began ELSE seen.began[e]
        /\ \A e \in Trails : seen'.from[e] = IF e = d THEN published[d] ELSE seen.from[e]
    BY <1>2, <1>3, <1>4, <2>1, <2>2, <2>3 DEF Histories
  <2> HIDE DEF began
  <2>6. published[d] % RingSize \in Slots
    <3>1. RingSize \in Nat \ {0} /\ published[d] \in Int
      BY <1>4
    <3> QED BY <3>1, Divide DEF Slots
  <2>7. /\ trail' \in [Trails -> Copies] /\ trail'[d].latest = published[d] % RingSize
        /\ trail'[d].max = RingSize - 1 /\ \A e \in Trails : e # d => trail'[e] = trail[e]
    <3>1. trail[d] \in Copies
      BY <1>3, <2>2
    <3> DEFINE new == [trail[d] EXCEPT !.latest = published[d] % RingSize, !.max = RingSize - 1]
    <3>2. new \in Copies /\ new.latest = published[d] % RingSize /\ new.max = RingSize - 1
      BY <2>6, <3>1 DEF Copies
    <3>3. trail' = [trail EXCEPT ![d] = new]
      BY <2>1
    <3> HIDE DEF new
    <3> QED BY <1>3, <2>2, <3>2, <3>3
  <2>8. TypeOK'
    BY <1>1, <2>1, <2>4, <2>5, <2>7 DEF IInv, TypeOK
  <2>9. scan' # Idle /\ Passed' = Passed /\ Passed \subseteq Rings
    BY <1>2, <2>4, Here DEF Passed, Idle, IInv
  <2>10. ScanFits'
    BY <1>1, <1>2, <1>3, <2>4, Places DEF ScanFits
  <2>11. began <= published[d] /\ stamp[d] <= began /\ entered[d] < began + RingSize
         /\ (d # "motion" => scan.slot = began % RingSize)
    <3>1. CASE d = "motion"
      BY <1>1, <1>2, <1>4, <3>1 DEF IInv, BegunFits, began
    <3>2. CASE d # "motion"
      BY <1>2, <1>3, <3>2 DEF IInv, BegunFits, SlotFits, began
    <3> QED BY <3>1, <3>2
  <2>12. BegunFits'
    BY <1>1, <1>2, <2>5, <2>11 DEF IInv, BegunFits
  <2>13. SlotFits'
    <3>1. ASSUME NEW e \in Rings, Scanned(e)' PROVE e = d
      BY <2>4, <3>1 DEF Scanned
    <3>2. scan.slot \in Nat
      BY <2>2, Constants DEF Scans
    <3> QED BY <1>1, <1>2, <2>4, <2>5, <2>11, <3>1, <3>2 DEF SlotFits
  <2>14. KeptFits'
    BY <1>1, <1>2, <2>5, <2>9 DEF IInv, KeptFits
  <2>15. KeysFit'
    BY <1>1, <2>5, <2>9 DEF IInv, KeysFit, KeyFits, KeysOf
  <2>16. ASSUME NEW e \in Trails PROVE TrailHolds(e)' /\ CopyBegun(e)'
    <3>1. CASE e = d
      <4>1. Copied(d)' = {}
        BY <1>2, <2>4 DEF Copied, Copying
      <4>2. TrailHolds(d)'
        BY <1>3, <2>5, <2>7, <4>1 DEF TrailHolds
      <4>3. CopyBegun(d)'
        BY <1>1, <1>3, <1>4, <2>4, <2>5, <2>7 DEF CopyBegun
      <4> QED BY <3>1, <4>2, <4>3
    <3>2. CASE e # d
      <4>1. ~Copying(e)' /\ ~Copying(e)
        BY <1>5, <2>4, <3>2 DEF Copying
      <4>2. TrailHolds(e)' <=> TrailHolds(e)
        BY <2>5, <2>7, <3>2, <4>1 DEF TrailHolds, Copied
      <4> QED BY <4>1, <4>2 DEF IInv, TrailFits, CopyBegun
    <3> QED BY <3>1, <3>2
  <2> QED BY <2>8, <2>10, <2>12, <2>13, <2>14, <2>15, <2>16 DEF IInv, TrailFits
<1> QED BY <1>6, <1>7

LEMMA HidCopyEntry ==
  ASSUME HidAssumption, IInv, scan # Idle, NEW d, d = Order[scan.ring], CopyEntry(d) PROVE IInv'
<1> DEFINE c == scan.copied
           new == [trail[d] EXCEPT !.times = [trail[d].times EXCEPT ![c] = InSlot(d, c)]]
<1>1. /\ scan.part = "entries" /\ trail' = [trail EXCEPT ![d] = new]
      /\ seen' = [seen EXCEPT !.upto = [seen.upto EXCEPT ![d] = entered[d]]]
      /\ UNCHANGED <<fed, entered, published, stamp, kept, keys, layout, enabled, stale>>
  BY DEF CopyEntry
<1>2. /\ scan.ring \in 1..6 /\ ~stale /\ d \in Rings /\ d \notin Passed /\ Passed \subseteq Rings
  BY Here DEF IInv
<1>3. d \in Trails /\ Scanned(d) /\ Copying(d)
  <2>1. PICK k \in 1..6 : k = scan.ring
    BY <1>2
  <2>2. scan # Enters(scan.ring)
    BY <1>1, <2>1, EntersFits
  <2> QED BY <1>1, <1>2, <2>2 DEF IInv, ScanFits, Scanned, Copying
<1>4. /\ seen \in Histories /\ scan \in Scans /\ trail \in [Trails -> Copies] /\ c \in Slots
      /\ trail[d] \in Copies /\ trail[d].times \in [Slots -> Times]
  BY <1>3 DEF IInv, TypeOK, Scans, Copies
<1>5. /\ entered[d] \in Times /\ entered[d] \in Nat /\ published[d] <= entered[d] /\ c \in Nat
      /\ published[d] \in Nat /\ RingSize \in Nat /\ RingSize > 1 /\ Slots = 0..RingSize - 1
  <2>1. published[d] \in {entered[d], entered[d] - 1} /\ published[d] \in Times /\ entered[d] \in Times
    BY <1>2 DEF IInv, TypeOK
  <2> QED BY <1>4, <2>1, Constants DEF Slots
<1>6. InSlot(d, c) \in Times /\ InSlot(d, c) = Newest(c, entered[d])
  <2>1. Newest(c, entered[d]) \in 0..entered[d]
    BY <1>5, NewestIn
  <2>2. MaxTime["mouse"] \in Nat
    BY Places DEF HidAssumption
  <2> QED BY <1>5, <2>1, <2>2 DEF InSlot, Times
<1>7. /\ new \in Copies /\ new.latest = trail[d].latest /\ new.max = trail[d].max
      /\ \A s \in Slots : new.times[s] = IF s = c THEN Newest(c, entered[d]) ELSE trail[d].times[s]
  BY <1>4, <1>6 DEF Copies
<1> HIDE DEF new
<1>8. trail' \in [Trails -> Copies] /\ trail'[d] = new /\ \A e \in Trails : e # d => trail'[e] = trail[e]
  BY <1>1, <1>3, <1>4, <1>7
<1>9. /\ seen' \in Histories /\ seen'.before = seen.before /\ seen'.began = seen.began
      /\ seen'.from = seen.from
      /\ \A e \in Trails : seen'.upto[e] = IF e = d THEN entered[d] ELSE seen.upto[e]
  BY <1>1, <1>3, <1>4, <1>5 DEF Histories
<1>10. /\ trail[d].max > 0 /\ seen.from[d] <= entered[d] /\ seen.from[d] \in Nat
       /\ c > 0 => seen.upto[d] <= entered[d] /\ seen.upto[d] \in Nat
       /\ trail[d].latest = seen.from[d] % RingSize
       /\ \A s \in 0..c - 1 :
            \E e \in seen.from[d]..seen.upto[d] : trail[d].times[s] = Newest(s, e)
  <2>1. TrailHolds(d) /\ CopyBegun(d) /\ seen.from[d] \in Nat /\ seen.upto[d] \in Nat
    BY <1>3, <1>4, Constants DEF IInv, TrailFits, Histories
  <2> QED BY <1>3, <2>1 DEF TrailHolds, CopyBegun, Copied
<1>11. ASSUME NEW s \in 0..c
       PROVE  \E e \in seen.from[d]..entered[d] : new.times[s] = Newest(s, e)
  <2>1. s \in Slots
    BY <1>4, <1>5
  <2>2. CASE s = c
    <3>1. entered[d] \in seen.from[d]..entered[d] /\ new.times[s] = Newest(s, entered[d])
      BY <1>5, <1>7, <1>10, <2>1, <2>2
    <3> QED BY <3>1
  <2>3. CASE s # c
    <3>1. s \in 0..c - 1 /\ c > 0
      BY <1>5, <2>3
    <3>2. PICK e \in seen.from[d]..seen.upto[d] : trail[d].times[s] = Newest(s, e)
      BY <1>10, <3>1
    <3>3. e \in seen.from[d]..entered[d]
      BY <1>5, <1>10, <3>1
    <3>4. new.times[s] = Newest(s, e)
      BY <1>7, <2>1, <2>3, <3>2
    <3> QED BY <3>3, <3>4
  <2> QED BY <2>2, <2>3
<1>12. ASSUME Copied(d)' \subseteq 0..c PROVE TrailHolds(d)'
  <2>1. trail'[d].latest = seen'.from[d] % RingSize
    BY <1>7, <1>8, <1>9, <1>10
  <2>2. \A s \in 0..c : \E e \in seen'.from[d]..seen'.upto[d] : trail'[d].times[s] = Newest(s, e)
    BY <1>3, <1>8, <1>9, <1>11
  <2> QED BY <1>12, <2>1, <2>2 DEF TrailHolds
<1>13. ASSUME NEW e \in Trails, e # d, ~Copying(e)' PROVE TrailHolds(e)'
  <2>1. ~Copying(e)
    BY <1>13 DEF Copying
  <2>2. TrailHolds(e)' <=> TrailHolds(e)
    BY <1>8, <1>9, <1>13, <2>1 DEF TrailHolds, Copied
  <2> QED BY <2>2 DEF IInv, TrailFits
<1>14. CASE c + 1 >= RingSize /\ d = "motion"
  <2>1. Onward
    BY <1>5, <1>14 DEF CopyEntry
  <2>2. scan' \in Scans /\ autoID' \in Pads /\ \A e \in Rings : ~Copying(e)'
    BY <1>1, <1>2, <2>1, OnwardFits DEF IInv
  <2>3. TypeOK'
    BY <1>1, <1>8, <1>9, <2>2 DEF IInv, TypeOK
  <2>4. Copied(d)' \subseteq 0..c
    BY <1>2, <1>5, <1>14, <2>2 DEF Copied, Slots
  <2>5. \A e \in Trails : TrailHolds(e)'
    <3>1. \A e \in Trails : e \in Rings
      BY Places DEF Trails
    <3> QED BY <1>12, <1>13, <2>2, <2>4, <3>1
  <2>6. seen'.began["motion"] <= published["motion"]
    BY <1>2, <1>9, <1>14 DEF IInv, BegunFits
  <2> QED BY <1>1, <1>9, <1>14, <2>1, <2>3, <2>5, <2>6, HidSkip
<1>15. CASE ~(c + 1 >= RingSize /\ d = "motion")
  <2>1. /\ autoID' = autoID
        /\ scan' = IF c + 1 < RingSize THEN [scan EXCEPT !.copied = c + 1]
                   ELSE [scan EXCEPT !.part = "take"]
    BY <1>5, <1>15 DEF CopyEntry
  <2>2. /\ scan' \in Scans /\ scan'.ring = scan.ring /\ scan'.slot = scan.slot
        /\ c + 1 < RingSize => scan'.part = "entries" /\ scan'.copied = c + 1
        /\ ~(c + 1 < RingSize) => scan'.part = "take" /\ d # "motion"
    <3>1. c + 1 < RingSize => c + 1 \in Slots
      BY <1>5
    <3> QED BY <1>1, <1>4, <1>5, <1>15, <2>1, <3>1 DEF Scans
  <2>3. TypeOK'
    BY <1>1, <1>8, <1>9, <2>1, <2>2 DEF IInv, TypeOK
  <2>4. scan' # Idle /\ Passed' = Passed
    BY <1>2, <2>2 DEF Passed, Idle
  <2>5. ScanFits'
    BY <1>1, <1>2, <1>3, <2>2, Places DEF ScanFits
  <2>6. BegunFits' /\ KeptFits'
    BY <1>1, <1>9, <2>4 DEF IInv, BegunFits, KeptFits
  <2>7. KeysFit'
    BY <1>1, <1>9, <2>4 DEF IInv, KeysFit, KeyFits, KeysOf
  <2>8. SlotFits'
    <3>1. ASSUME NEW e \in Rings, Scanned(e)' PROVE e = d
      BY <2>2, <3>1 DEF Scanned
    <3>2. /\ entered[d] < seen.began[d] + RingSize /\ stamp[d] <= seen.began[d]
          /\ seen.began[d] <= published[d]
          /\ d # "motion" => scan.slot = seen.began[d] % RingSize
          /\ d = "mouse" /\ c > scan.slot => trail[d].times[scan.slot] = seen.began[d]
      BY <1>1, <1>2, <1>3 DEF IInv, SlotFits, BegunFits
    <3>3. scan.slot \in Slots /\ seen.began[d] \in Nat
      BY <1>2, <1>4, Constants DEF Scans, Histories
    <3>4. ASSUME d = "mouse", scan'.part = "entries" => scan'.copied > scan.slot
          PROVE  trail'[d].times[scan.slot] = seen.began[d]
      <4>1. CASE scan.slot = c
        <5>1. Newest(c, entered[d]) = seen.began[d]
          BY <1>5, <3>2, <3>3, <3>4, <4>1, NewestIs
        <5> QED BY <1>7, <1>8, <3>3, <4>1, <5>1
      <4>2. CASE scan.slot # c
        <5>1. c > scan.slot
          BY <1>5, <2>2, <3>3, <3>4, <4>2
        <5> QED BY <1>7, <1>8, <3>2, <3>3, <3>4, <4>2, <5>1
      <4> QED BY <4>1, <4>2
    <3> QED BY <1>1, <1>9, <2>2, <3>1, <3>2, <3>4 DEF SlotFits
  <2>9. ASSUME NEW e \in Trails PROVE TrailHolds(e)' /\ CopyBegun(e)'
    <3>1. CASE e = d
      <4>1. Copied(d)' \subseteq 0..c
        <5>1. CASE c + 1 < RingSize
          <6>1. Copied(d)' = 0..(c + 1) - 1
            BY <1>2, <2>2, <5>1 DEF Copied, Copying
          <6> QED BY <1>5, <6>1
        <5>2. CASE ~(c + 1 < RingSize)
          <6>1. Copied(d)' = Slots
            BY <2>2, <5>2 DEF Copied, Copying, Slots
          <6> QED BY <1>5, <5>2, <6>1
        <5> QED BY <5>1, <5>2
      <4>2. TrailHolds(d)'
        BY <1>12, <4>1
      <4>3. CopyBegun(d)'
        BY <1>1, <1>3, <1>5, <1>7, <1>8, <1>9, <1>10 DEF CopyBegun
      <4> QED BY <3>1, <4>2, <4>3
    <3>2. CASE e # d
      <4>1. ~Copying(e)'
        BY <2>2, <3>2 DEF Copying
      <4> QED BY <1>13, <3>2, <4>1 DEF CopyBegun
    <3> QED BY <3>1, <3>2
  <2> QED BY <2>3, <2>5, <2>6, <2>7, <2>8, <2>9 DEF IInv, TrailFits
<1> QED BY <1>14, <1>15

LEMMA HidTake ==
  ASSUME HidAssumption, IInv, scan # Idle, NEW d, d = Order[scan.ring], Take(d) PROVE IInv'
<1> DEFINE time == InSlot(d, scan.slot)
           lay == IF d \in Pads THEN layout[d] ELSE Default
           copy == IF d \in Trails THEN trail[d].times[scan.slot] ELSE time
           marks == Marks[<<d, lay, copy>>]
           began == seen.began[d]
<1>1. /\ scan.part = "take" /\ Onward
      /\ IF Fresh(time, stamp[d])
         THEN kept' = [kept EXCEPT ![d] = [time |-> copy, marks |-> marks]]
              /\ stamp' = [stamp EXCEPT ![d] = time]
         ELSE UNCHANGED <<kept, stamp>>
      /\ UNCHANGED <<fed, entered, published, trail, layout, enabled, stale, seen>>
  BY DEF Take
<1>2. /\ scan.ring \in 1..6 /\ ~stale /\ d \in Rings /\ d \notin Passed /\ Passed \subseteq Rings
  BY Here DEF IInv
<1>3. d # "motion" /\ Scanned(d)
  <2>1. PICK k \in 1..6 : k = scan.ring
    BY <1>2
  <2>2. scan # Enters(scan.ring)
    BY <1>1, <2>1, EntersFits
  <2> QED BY <1>1, <1>2, <2>2 DEF IInv, ScanFits, Scanned
<1>4. /\ entered[d] < began + RingSize /\ stamp[d] <= began /\ began <= published[d]
      /\ scan.slot = began % RingSize
      /\ d = "mouse" => trail[d].times[scan.slot] = began
  BY <1>1, <1>2, <1>3 DEF IInv, SlotFits, BegunFits
<1>5. began \in Times /\ began \in Nat /\ entered[d] \in Nat /\ began <= entered[d] /\ stamp[d] \in Nat
  <2>1. published[d] \in {entered[d], entered[d] - 1} /\ published[d] \in Times /\ entered[d] \in Times
        /\ began \in Times /\ stamp[d] \in Times
    BY <1>2 DEF IInv, TypeOK, Histories
  <2> QED BY <1>4, <2>1, Constants
<1> HIDE DEF began
<1>6. time = began
  BY <1>4, <1>5, NewestIs DEF InSlot
<1>7. copy = began
  BY <1>3, <1>4, <1>6 DEF Trails
<1>8. lay \in Layouts
  BY DEF IInv, TypeOK, HidAssumption
<1> HIDE DEF time, lay, copy
<1>9. marks \in MarkSets
  BY <1>2, <1>5, <1>7, <1>8 DEF MarkSets
<1>10. Fresh(time, stamp[d])
  BY <1>4, <1>5, <1>6 DEF Fresh
<1> HIDE DEF marks
<1>11. /\ kept' \in [Rings -> Entries] /\ kept'[d].time = began /\ kept'[d].marks = marks
       /\ \A e \in Rings : e # d => kept'[e] = kept[e]
  <2>1. [time |-> copy, marks |-> marks] \in Entries
    BY <1>5, <1>7, <1>9 DEF Entries
  <2>2. kept' = [kept EXCEPT ![d] = [time |-> copy, marks |-> marks]] /\ kept \in [Rings -> Entries]
    BY <1>1, <1>10 DEF IInv, TypeOK
  <2> QED BY <1>2, <1>7, <2>1, <2>2
<1>12. stamp' \in [Rings -> Times] /\ \A e \in Rings : stamp'[e] = IF e = d THEN began ELSE stamp[e]
  <2>1. stamp' = [stamp EXCEPT ![d] = began] /\ stamp \in [Rings -> Times]
    BY <1>1, <1>6, <1>10 DEF IInv, TypeOK
  <2> QED BY <1>2, <1>5, <2>1
<1>13. /\ scan' \in Scans /\ autoID' \in Pads /\ ScanFits' /\ SlotFits'
       /\ Passed' = Passed \cup {d} /\ \A e \in Rings : ~Copying(e)'
  BY <1>1, <1>2, OnwardFits DEF IInv
<1>14. BegunFits' /\ KeptFits'
  <2>1. BegunFits'
    BY <1>1, <1>2, <1>4, <1>12 DEF IInv, BegunFits, began
  <2>2. KeptFits'
    BY <1>1, <1>2, <1>11, <1>13 DEF IInv, KeptFits, began
  <2> QED BY <2>1, <2>2
<1>15. TrailFits'
  <2>1. \A e \in Trails : e \in Rings /\ ~Copying(e)
    BY <1>1, Places DEF Trails, Copying
  <2> QED BY <1>1, <1>13, <2>1 DEF IInv, TrailFits, TrailHolds, CopyBegun, Copied
<1>16. keys \in [old : KeySets, held : KeySets, down : KeySets, up : KeySets]
  BY DEF IInv, TypeOK
<1>17. \A e \in Keyed : e \in Rings /\ KeyFits(e) /\ "touch" \in Rings /\ "handheld" \in Rings
  BY <1>2, Places DEF IInv, KeysFit, Keyed, Pads
<1>18. marks \subseteq UNION MarkSets
  BY <1>9
<1>19. keys' \in [old : KeySets, held : KeySets, down : KeySets, up : KeySets] /\ KeysFit'
  <2>1. CASE d = "touch"
    <3> DEFINE held == [keys.held EXCEPT !["handheld"] = keys.held["handheld"] \cup marks]
    <3>1. keys' = [keys EXCEPT !.held = held]
      BY <1>11, <2>1 DEF Take
    <3>2. held \in KeySets
      BY <1>16, <1>18 DEF KeySets
    <3>3. Passed = {}
      <4>1. scan.ring = 1
        <5>1. Order[1] = Order[scan.ring] /\ 1 \in 1..6
          BY <2>1, Places
        <5> QED BY <1>2, <5>1, Apart
      <4>2. {Order[k] : k \in 1..1 - 1} = {}
        OBVIOUS
      <4> QED BY <4>1, <4>2 DEF Passed, Idle
    <3>4. \A e \in Keyed : held[e] = IF e = "handheld" THEN marks ELSE {}
      <4>1. \A e \in Keyed : keys.held[e] = {} /\ "handheld" \in Keyed
        BY <1>17, <3>3 DEF KeyFits, Keyed, Pads
      <4> QED BY <1>16, <4>1 DEF KeySets
    <3> HIDE DEF held
    <3>5. keys' \in [old : KeySets, held : KeySets, down : KeySets, up : KeySets]
          /\ keys'.old = keys.old /\ keys'.held = held
      BY <1>16, <3>1, <3>2
    <3>6. \A e \in Keyed : KeyFits(e)'
      <4>1. \A e \in Keyed : e # "touch"
        BY DEF Keyed, Pads
      <4> QED BY <1>1, <1>11, <1>13, <1>17, <2>1, <3>3, <3>4, <3>5, <4>1 DEF KeyFits
    <3> QED BY <3>5, <3>6 DEF KeysFit
  <2>2. CASE d # "touch"
    <3> DEFINE held == keys.held[d] \cup (marks \ {"connected"})
               down == held \ keys.old[d]
               up == keys.old[d] \ held
    <3>1. d \in Keyed
      BY <1>2, <1>3, <2>2, Places DEF Keyed, Pads
    <3>2. keys' = [keys EXCEPT !.held = [keys.held EXCEPT ![d] = held],
                               !.down = [keys.down EXCEPT ![d] = down],
                               !.up = [keys.up EXCEPT ![d] = up]]
      BY <1>11, <2>2 DEF Take
    <3>3. held \in SUBSET UNION MarkSets /\ down \in SUBSET UNION MarkSets
          /\ up \in SUBSET UNION MarkSets
      BY <1>16, <1>18, <3>1 DEF KeySets
    <3> HIDE DEF held, down, up
    <3>4. /\ keys' \in [old : KeySets, held : KeySets, down : KeySets, up : KeySets]
          /\ keys'.old = keys.old
          /\ keys'.held[d] = held /\ keys'.down[d] = down /\ keys'.up[d] = up
          /\ \A e \in Keyed : e # d => /\ keys'.held[e] = keys.held[e]
                                       /\ keys'.down[e] = keys.down[e] /\ keys'.up[e] = keys.up[e]
      BY <1>16, <3>1, <3>2, <3>3 DEF KeySets
    <3>5. ASSUME NEW e \in Keyed, e # d PROVE KeyFits(e)'
      <4>1. e \in Passed' <=> e \in Passed
        BY <1>13, <3>5
      <4>2. kept'["touch"] = kept["touch"] /\ kept'[e] = kept[e] /\ ("touch" \in Passed' <=> "touch" \in Passed)
        BY <1>11, <1>13, <1>17, <2>2, <3>5
      <4>3. KeysOf(e)' = KeysOf(e)
        BY <4>2 DEF KeysOf
      <4> QED BY <1>1, <1>17, <3>4, <3>5, <4>1, <4>2, <4>3 DEF KeyFits
    <3>6. KeyFits(d)'
      <4>1. d = "handheld" => "touch" \in Passed
        <5>1. ASSUME d = "handheld" PROVE Order[1] \in Passed
          <6>1. scan.ring = 6
            <7>1. Order[6] = Order[scan.ring] /\ 6 \in 1..6
              BY <5>1, Places
            <7> QED BY <1>2, <7>1, Apart
          <6>2. 1 \in 1..scan.ring - 1
            BY <6>1
          <6> QED BY <6>2 DEF Passed
        <5> QED BY <5>1, Places
      <4>2. keys.held[d] = IF d = "handheld" THEN kept["touch"].marks ELSE {}
        BY <1>2, <1>17, <3>1, <4>1 DEF KeyFits
      <4>3. kept'["touch"] = kept["touch"]
        BY <1>11, <1>17, <2>2, <3>1
      <4>4. KeysOf(d)' = held
        BY <1>11, <4>2, <4>3 DEF KeysOf, held
      <4>5. d \in Passed' /\ keys'.old[d] = seen'.before[d]
        BY <1>1, <1>13, <1>17, <3>1, <3>4 DEF KeyFits
      <4> QED BY <3>4, <4>4, <4>5 DEF KeyFits, down, up
    <3> QED BY <3>4, <3>5, <3>6 DEF KeysFit
  <2> QED BY <2>1, <2>2
<1>20. TypeOK'
  BY <1>1, <1>11, <1>12, <1>13, <1>19 DEF IInv, TypeOK
<1> QED BY <1>13, <1>14, <1>15, <1>19, <1>20 DEF IInv

LEMMA HidStep ==
  ASSUME HidAssumption, IInv, Next PROVE IInv'
<1>1. ASSUME hidScanInput PROVE IInv'
  BY <1>1, HidBegin, HidReadLatest, HidCopyHeader, HidCopyEntry, HidTake DEF hidScanInput
<1> QED BY <1>1, HidEnter, HidPublish, HidResets, HidSetPtr, HidSettings DEF Next

-----------------------------------------------------------------------------
(* What readers see. *)

(* A copy of several samples is cut before the first that does not follow  *)
(* on the one before.                                                      *)
LEMMA CutInOrder ==
  ASSUME NEW time, time \in Seq(Nat), NEW r, r = UpToGap(time)
  PROVE  \A i \in 1..Len(r) - 1 : r[i] = 0 \/ r[i + 1] = r[i] + 1
<1> DEFINE gaps == Gaps(time)
<1>1. ASSUME NEW i \in 1..Len(time) - 1, i + 1 \notin gaps
      PROVE  time[i] = 0 \/ time[i + 1] = time[i] + 1
  <2>1. /\ Len(time) \in Nat /\ i + 1 \in 2..Len(time) /\ (i + 1) - 1 = i /\ i \in 1..Len(time)
        /\ i + 1 \in 1..Len(time)
    OBVIOUS
  <2>2. time[i] \in Nat /\ time[i + 1] \in Nat
    BY <2>1
  <2>3. time[i] = 0 \/ time[i + 1] - time[i] = 1
    BY <1>1, <2>1 DEF Gaps
  <2> QED BY <2>2, <2>3
<1>2. CASE gaps = {}
  BY <1>1, <1>2 DEF UpToGap
<1>3. CASE gaps # {}
  <2> DEFINE g == CHOOSE g \in gaps : \A h \in gaps : g <= h
  <2>1. gaps \subseteq 2..Len(time) /\ Len(time) \in Nat
    BY DEF Gaps
  <2>2. r = SubSeq(time, 1, g - 1)
    BY <1>3 DEF UpToGap
  <2> HIDE DEF gaps
  <2>3. g \in gaps /\ \A h \in gaps : g <= h
    <3>1. gaps \subseteq Nat
      BY <2>1
    <3> QED BY <1>3, <3>1, Least
  <2> HIDE DEF g
  <2>4. g \in 2..Len(time)
    BY <2>1, <2>3
  <2>5. Len(r) = g - 1 /\ \A i \in 1..g - 1 : r[i] = time[i]
    <3>1. g - 1 \in Nat /\ g - 1 \in 1 - 1..Len(time) /\ 1 \in 1..Len(time) + 1
      BY <2>1, <2>4
    <3> QED BY <2>2, <3>1, SubSeqProperties
  <2>6. ASSUME NEW i \in 1..Len(r) - 1 PROVE r[i] = 0 \/ r[i + 1] = r[i] + 1
    <3>1. i \in 1..Len(time) - 1 /\ i + 1 < g /\ i \in 1..g - 1 /\ i + 1 \in 1..g - 1
      BY <2>1, <2>4, <2>5
    <3>2. i + 1 \notin gaps
      <4>1. ~(g <= i + 1)
        BY <2>4, <3>1
      <4> QED BY <2>3, <4>1
    <3> QED BY <1>1, <2>5, <3>1, <3>2
  <2> QED BY <2>6
<1> QED BY <1>2, <1>3

(* The slots that are read, and what is in them. *)
LEMMA ReadSlots ==
  ASSUME HidAssumption, TypeOK, NEW d \in Trails, NEW num \in Nat, NEW size,
         size = trail[d].max + 1, num \in 1..size
  PROVE  /\ size \in Nat \ {0} /\ size <= RingSize /\ trail[d].latest \in Nat
         /\ \A i \in 1..num : trail[d].times[(trail[d].latest + 1 - num + i - 1) % size] \in Nat
<1>1. trail[d].latest \in Slots /\ trail[d].max \in {0, RingSize - 1} /\ trail[d].times \in [Slots -> Times]
  BY DEF TypeOK, Copies
<1>2. trail[d].latest \in Nat /\ size \in Nat \ {0} /\ size <= RingSize
  BY <1>1, Constants DEF Slots
<1>3. ASSUME NEW i \in 1..num
      PROVE  trail[d].times[(trail[d].latest + 1 - num + i - 1) % size] \in Nat
  <2>1. trail[d].latest + 1 - num + i - 1 \in Int
    BY <1>2
  <2>2. (trail[d].latest + 1 - num + i - 1) % size \in 0..size - 1
    BY <1>2, <2>1, Divide
  <2>3. 0..size - 1 \subseteq Slots
    BY <1>2, Constants DEF Slots
  <2> QED BY <1>1, <2>2, <2>3, Constants
<1> QED BY <1>2, <1>3

LEMMA ReadInOrder ==
  ASSUME HidAssumption, TypeOK, NEW d \in Trails, NEW n \in 1..RingSize + 1, NEW r, r = MultiRead(d, n)
  PROVE  \A i \in 1..Len(r) - 1 : r[i] = 0 \/ r[i + 1] = r[i] + 1
<1> DEFINE size == trail[d].max + 1
           num == IF n < size THEN n ELSE size
           time == LastOf(d, num, size)
<1>1. trail[d].max \in Nat
  BY Constants DEF TypeOK, Copies
<1>2. num \in Nat /\ num \in 1..size
  BY <1>1, Constants
<1>3. r = UpToGap(time)
  BY DEF MultiRead
<1> HIDE DEF num
<1>4. \A i \in 1..num : trail[d].times[(trail[d].latest + 1 - num + i - 1) % size] \in Nat
  BY <1>2, ReadSlots
<1>5. time \in [1..num -> Nat]
  BY <1>4 DEF LastOf
<1>6. time \in Seq(Nat)
  BY <1>2, <1>5
<1> HIDE DEF time
<1> QED BY <1>3, <1>6, CutInOrder

(* What the ring had when its header was copied is still in it if fewer    *)
(* than the ring has room for were entered until the last slot was copied. *)
LEMMA ReadExact ==
  ASSUME HidAssumption, TypeOK, NEW d \in Trails, NEW n \in 1..RingSize + 1,
         TrailHolds(d), ~Copying(d), trail[d].max > 0,
         n + (seen.upto[d] - seen.from[d]) <= RingSize
  PROVE  MultiRead(d, n) = [i \in 1..n |-> LET t == seen.from[d] - n + i IN IF t < 0 THEN 0 ELSE t]
<1> DEFINE from == seen.from[d]
           upto == seen.upto[d]
           at(i) == from - n + i
           value(i) == IF at(i) < 0 THEN 0 ELSE at(i)
           time == LastOf(d, n, RingSize)
<1>1. /\ RingSize \in Nat \ {0} /\ RingSize > 1 /\ Slots = 0..RingSize - 1 /\ n \in Nat /\ n >= 1
      /\ from \in Nat /\ upto \in Nat /\ trail[d].max = RingSize - 1
  BY Constants DEF TypeOK, Copies, Histories, Slots
<1>2. /\ trail[d].latest = from % RingSize
      /\ \A s \in Slots : \E e \in from..upto : trail[d].times[s] = Newest(s, e)
  BY DEF TrailHolds, Copied
<1> HIDE DEF from, upto
<1>3. from <= upto /\ n <= RingSize
  <2>1. PICK e \in from..upto : trail[d].times[0] = Newest(0, e)
    BY <1>1, <1>2
  <2>2. n + (upto - from) <= RingSize
    BY DEF from, upto
  <2> QED BY <1>1, <2>1, <2>2
<1>4. trail[d].max + 1 = RingSize /\ (IF n < RingSize THEN n ELSE RingSize) = n
  BY <1>1, <1>3
<1>5. MultiRead(d, n) = UpToGap(time)
  BY <1>4 DEF MultiRead
<1>6. ASSUME NEW i \in 1..n
      PROVE  trail[d].times[(trail[d].latest + 1 - n + i - 1) % RingSize] = value(i)
  <2>1. at(i) \in Int /\ at(i) <= from /\ i - n \in Int /\ from + (i - n) = at(i)
        /\ from - n + 1 <= at(i)
    BY <1>1
  <2>2. /\ from \in Int /\ from % RingSize \in Int
        /\ ((from % RingSize) + (i - n)) % RingSize = (from + (i - n)) % RingSize
    <3>1. from \in Int /\ RingSize \in Nat \ {0} /\ i - n \in Int
      BY <1>1, <2>1
    <3>2. from % RingSize \in Int
      BY <3>1, Divide
    <3>3. ((from % RingSize) + (i - n)) % RingSize = (from + (i - n)) % RingSize
      BY <3>1, Around
    <3> QED BY <3>1, <3>2, <3>3
  <2>3. trail[d].latest + 1 - n + i - 1 = (from % RingSize) + (i - n)
    BY <1>1, <1>2, <2>2
  <2>4. (trail[d].latest + 1 - n + i - 1) % RingSize = at(i) % RingSize
    BY <2>1, <2>2, <2>3
  <2>5. at(i) % RingSize \in Slots
    BY <1>1, <2>1, Divide
  <2>6. PICK e \in from..upto : trail[d].times[at(i) % RingSize] = Newest(at(i) % RingSize, e)
    BY <1>2, <2>5
  <2>7. e \in Nat /\ e < at(i) + RingSize /\ from <= e
    <3>1. n + (upto - from) <= RingSize
      BY DEF from, upto
    <3> QED BY <1>1, <2>1, <3>1
  <2> HIDE DEF at
  <2>8. Newest(at(i) % RingSize, e) = IF at(i) < 0 THEN 0 ELSE at(i)
    <3>1. CASE at(i) < 0
      BY <2>1, <2>7, <3>1, NewestNone
    <3>2. CASE ~(at(i) < 0)
      <4>1. at(i) \in Nat /\ at(i) <= e
        BY <1>1, <2>1, <2>7, <3>2
      <4> QED BY <2>7, <3>2, <4>1, NewestIs
    <3> QED BY <3>1, <3>2
  <2> QED BY <2>4, <2>6, <2>8
<1>7. time = [i \in 1..n |-> value(i)]
  BY <1>6 DEF LastOf
<1>8. Gaps(time) = {}
  <2>1. ASSUME NEW i \in 2..n PROVE time[i - 1] = 0 \/ time[i] - time[i - 1] = 1
    <3>1. i - 1 \in 1..n /\ i \in 1..n /\ at(i) = at(i - 1) + 1 /\ at(i - 1) \in Int
      BY <1>1
    <3>2. time[i - 1] = value(i - 1) /\ time[i] = value(i)
      BY <1>7, <3>1
    <3> HIDE DEF at, time
    <3> QED BY <3>1, <3>2
  <2>2. Len(time) = n
    BY <1>1, <1>7
  <2> HIDE DEF time
  <2> QED BY <2>1, <2>2 DEF Gaps
<1>9. MultiRead(d, n) = time
  BY <1>5, <1>8 DEF UpToGap
<1> QED BY <1>7, <1>9 DEF from

LEMMA HidPromises ==
  ASSUME HidAssumption, IInv PROVE NewestKept /\ SamplesInOrder
<1>1. NewestKept
  <2> SUFFICES ASSUME scan = Idle, seen.scanned, ~stale
               PROVE  /\ \A d \in Rings \ {"motion"} : kept[d].time \in seen.began[d]..entered[d]
                      /\ \A d \in Keyed :
                           /\ keys.held[d] = KeysOf(d)
                           /\ keys.down[d] = KeysOf(d) \ seen.before[d]
                           /\ keys.up[d] = seen.before[d] \ KeysOf(d)
    BY DEF NewestKept
  <2>1. Passed = Rings /\ \A d \in Keyed : d \in Rings
    BY Between, Places DEF Keyed, Pads
  <2>2. ASSUME NEW d \in Rings \ {"motion"} PROVE kept[d].time \in seen.began[d]..entered[d]
    <3>1. kept[d].time = seen.began[d] /\ seen.began[d] <= published[d]
      BY <2>1 DEF IInv, KeptFits, BegunFits
    <3>2. published[d] \in {entered[d], entered[d] - 1} /\ published[d] \in Nat /\ entered[d] \in Nat
          /\ seen.began[d] \in Nat
      BY Constants DEF IInv, TypeOK, Histories
    <3> QED BY <3>1, <3>2
  <2>3. \A d \in Keyed : KeyFits(d)
    BY DEF IInv, KeysFit
  <2> QED BY <2>1, <2>2, <2>3 DEF KeyFits
<1>2. SamplesInOrder
  <2> SUFFICES ASSUME scan = Idle, NEW d \in Trails, NEW n \in 1..RingSize + 1, NEW r,
                      r = IF d = "mouse" THEN hidMouseMultiRead(n) ELSE hidSixAxisSensorValuesRead(n)
               PROVE  /\ \A i \in 1..Len(r) - 1 : r[i] = 0 \/ r[i + 1] = r[i] + 1
                      /\ (d = "mouse" \/ enabled) /\ trail[d].max > 0
                           /\ n + (seen.upto[d] - seen.from[d]) <= RingSize =>
                           r = [i \in 1..n |-> LET t == seen.from[d] - n + i IN IF t < 0 THEN 0 ELSE t]
    BY DEF SamplesInOrder
  <2>1. TypeOK /\ TrailHolds(d) /\ ~Copying(d)
    BY DEF IInv, TrailFits, Copying, Idle
  <2>2. CASE d = "mouse" \/ enabled
    <3>1. r = MultiRead(d, n)
      BY <2>2 DEF hidMouseMultiRead, hidSixAxisSensorValuesRead, Trails
    <3> QED BY <2>1, <3>1, ReadInOrder, ReadExact
  <2>3. CASE ~(d = "mouse" \/ enabled)
    <3>1. r = <<>>
      BY <2>3 DEF hidSixAxisSensorValuesRead
    <3> QED BY <2>3, <3>1
  <2> QED BY <2>2, <2>3
<1> QED BY <1>1, <1>2

(* IInv holds throughout, so between two scans the newest that was shown   *)
(* of every device is kept, and several samples are read in order.         *)
THEOREM Invariant ==
  ASSUME HidAssumption PROVE Spec => []IInv
<1>1. Init => IInv
  BY HidInit
<1>2. IInv /\ [Next]_vars => IInv'
  <2>1. ASSUME IInv, UNCHANGED vars PROVE IInv'
    <3>1. TypeOK' /\ UNCHANGED <<fed, entered, published, scan, stamp, kept, trail, keys, stale, seen>>
      BY <2>1 DEF IInv, TypeOK, vars, program
    <3> QED BY <2>1, <3>1, HidRest
  <2> QED BY <2>1, HidStep
<1> QED BY <1>1, <1>2, PTL DEF Spec
=============================================================================
