------------------------------ MODULE IoProofs ------------------------------
(***************************************************************************)
(* Proofs about the objects of Devices that are file systems and about     *)
(* those of the audio driver: for every table of devices, every file and   *)
(* piece, every directory and batch, and for every number of pools, sinks, *)
(* voices, channels and buffers, an inductive invariant of each (IInv of   *)
(* its module, PoolsFit, VoicesFit and BufsFit), kept by each of its       *)
(* steps, and what follows of it.                                          *)
(***************************************************************************)
EXTENDS Devices, FiniteSetTheorems, WellFoundedInduction, SequenceTheorems, TLAPS

LEMMA FsLeast ==
  ASSUME NEW A, A \subseteq Nat, A # {} PROVE \E k \in A : \A j \in A : k <= j
<1> DEFINE R == {ss \in Nat \X Nat : ss[1] < ss[2]}
<1>1. IsWellFoundedOn(R, Nat)
  BY NatLessThanWellFounded DEF OpToRel
<1>2. \A j, l \in Nat : j < l => <<j, l>> \in R
  OBVIOUS
<1> HIDE DEF R
<1>3. PICK k \in A : \A j \in A : ~(<<j, k>> \in R)
  BY <1>1, WFMin
<1>4. ASSUME NEW j \in A PROVE k <= j
  <2>1. j \in Nat /\ k \in Nat /\ ~(<<j, k>> \in R)
    BY <1>3
  <2>2. ~(j < k)
    BY <1>2, <2>1
  <2> QED BY <2>1, <2>2
<1> QED BY <1>4

-----------------------------------------------------------------------------
(* FsDev: no two devices have one name or one session, so what is found is *)
(* mounted, and a device that goes takes nothing from the others.          *)

LEMMA FsDevLowest ==
  ASSUME NEW A, A \subseteq Nat, A # {} PROVE FD!Lowest(A) \in A
BY FsLeast DEF FD!Lowest

LEMMA FsDevSlots ==
  ASSUME FD!FsDevAssumption
  PROVE  /\ FD!Slots \subseteq Nat /\ FD!Nowhere \notin FD!Slots
         /\ \A A \in SUBSET FD!Slots : FD!Lowest(A) \in A \/ (A = {} /\ FD!Lowest(A) = FD!Nowhere)
<1>1. FD!Slots \subseteq Nat /\ FD!Nowhere \notin FD!Slots
  BY DEF FD!FsDevAssumption, FD!Slots, FD!Nowhere
<1>2. ASSUME NEW A \in SUBSET FD!Slots
      PROVE  FD!Lowest(A) \in A \/ (A = {} /\ FD!Lowest(A) = FD!Nowhere)
  <2>1. CASE A = {}
    BY <2>1 DEF FD!Lowest
  <2>2. CASE A # {}
    BY <1>1, <2>2, FsDevLowest
  <2> QED BY <2>1, <2>2
<1> QED BY <1>1, <1>2

(* What is found for a path is set up. *)
LEMMA FsDevFound ==
  ASSUME FD!FsDevAssumption, NEW name
  PROVE  FD!fsdevFindDevice(name) \in FD!SetUp \cup {FD!Nowhere}
<1>1. FD!SetUp \in SUBSET FD!Slots
  BY DEF FD!SetUp
<1>2. FD!Lowest({i \in FD!SetUp : FD!Begins(name, devices[i].name)}) \in FD!SetUp \cup {FD!Nowhere}
  <2> DEFINE A == {i \in FD!SetUp : FD!Begins(name, devices[i].name)}
  <2>1. A \in SUBSET FD!Slots /\ A \subseteq FD!SetUp
    BY <1>1
  <2> HIDE DEF A
  <2>2. FD!Lowest(A) \in FD!SetUp \cup {FD!Nowhere}
    BY <2>1, FsDevSlots
  <2> QED BY <2>2 DEF A
<1> QED BY <1>2 DEF FD!fsdevFindDevice

(* A table with the parts of a good one is good. *)
LEMMA FsDevNow ==
  ASSUME FD!IInv
  PROVE  /\ fsReady \in BOOLEAN /\ FD!Table \in FD!Tables /\ FD!Consistent(FD!Table)
         /\ ~fsReady => FD!SetUp = {}
         /\ FD!SetUpIn(FD!Table) = FD!SetUp
         /\ devices \in [FD!Slots -> FD!DeviceStructs] /\ default \in FD!SetUp \cup {FD!Nowhere}
         /\ cwd \in FD!SetUp \cup {FD!Nowhere} /\ open \in SUBSET Sessions
         /\ devoptab = {[name |-> devices[i].name, slot |-> i] : i \in FD!SetUp}
         /\ \A i, j \in FD!SetUp : i # j =>
              devices[i].name # devices[j].name /\ devices[i].fs # devices[j].fs
         /\ \A i \in FD!SetUp : \E s \in open : devices[i].fs = {s}
         /\ \A s \in open : \E i \in FD!SetUp : devices[i].fs = {s}
<1>1. /\ FD!Table.devices = devices /\ FD!Table.default = default /\ FD!Table.cwd = cwd
      /\ FD!Table.devoptab = devoptab /\ FD!Table.open = open
  BY DEF FD!Table
<1>2. FD!SetUpIn(FD!Table) = FD!SetUp
  BY <1>1 DEF FD!SetUpIn, FD!SetUp
<1>3. /\ fsReady \in BOOLEAN /\ FD!Table \in FD!Tables /\ FD!Consistent(FD!Table)
      /\ ~fsReady => FD!SetUp = {}
  BY DEF FD!IInv, FD!TypeOK
<1>4. devices \in [FD!Slots -> FD!DeviceStructs] /\ open \in SUBSET Sessions
  BY <1>1, <1>3 DEF FD!Tables
<1>5. /\ {default, cwd} \subseteq FD!SetUp \cup {FD!Nowhere}
      /\ \A i, j \in FD!SetUp : i # j =>
           devices[i].name # devices[j].name /\ devices[i].fs # devices[j].fs
      /\ \A i \in FD!SetUp : \E s \in open : devices[i].fs = {s}
      /\ \A s \in open : \E i \in FD!SetUp : devices[i].fs = {s}
      /\ devoptab = {[name |-> devices[i].name, slot |-> i] : i \in FD!SetUp}
  BY <1>1, <1>2, <1>3 DEF FD!Consistent
<1> QED BY <1>2, <1>3, <1>4, <1>5

LEMMA FsDevThen ==
  ASSUME NEW st \in FD!Tables, FD!Consistent(st), FD!Becomes(st), fsReady' \in BOOLEAN,
         ~fsReady' => FD!SetUpIn(st) = {}
  PROVE  FD!IInv'
<1>1. st = [devices |-> st.devices, default |-> st.default, cwd |-> st.cwd,
            devoptab |-> st.devoptab, open |-> st.open]
  BY DEF FD!Tables
<1>2. FD!Table' = st
  BY <1>1 DEF FD!Table, FD!Becomes
<1>3. FD!TypeOK'
  BY <1>2 DEF FD!TypeOK
<1>4. FD!SetUp' = FD!SetUpIn(st)
  BY DEF FD!SetUp, FD!SetUpIn, FD!Becomes
<1>5. FD!Consistent(FD!Table)'
  BY <1>2
<1> QED BY <1>3, <1>4, <1>5 DEF FD!IInv

LEMMA FsDevInit ==
  ASSUME FD!FsDevAssumption, FD!Init PROVE FD!IInv
<1>1. FD!SetUpIn(FD!Table) = {} /\ FD!SetUp = {}
  BY DEF FD!Init, FD!SetUpIn, FD!SetUp, FD!Table, FD!Free
<1>2. FD!Consistent(FD!Table)
  BY <1>1 DEF FD!Consistent, FD!Init, FD!Table
<1>3. FD!Free \in FD!DeviceStructs
  BY DEF FD!Free, FD!DeviceStructs
<1>4. FD!TypeOK
  BY <1>3 DEF FD!TypeOK, FD!Table, FD!Tables, FD!Init
<1> QED BY <1>1, <1>2, <1>4 DEF FD!IInv

(* Mounting: the slot was free, the session was not open, and no device    *)
(* has the name, or it would have been found.                              *)
LEMMA FsDevMount ==
  ASSUME FD!FsDevAssumption, FD!IInv, NEW name \in FD!AllNames, NEW s \in Sessions \ open,
         NEW asDefault \in BOOLEAN, FD!Mount(name, s, asDefault)
  PROVE  FD!IInv'
<1> DEFINE u == FD!FindUnused
           refused == FD!fsdevFindDevice(name) # FD!Nowhere \/ u = FD!Nowhere
<1>1. /\ fsReady \in BOOLEAN /\ FD!Table \in FD!Tables /\ FD!Consistent(FD!Table)
      /\ ~fsReady => FD!SetUp = {}
      /\ FD!SetUpIn(FD!Table) = FD!SetUp
      /\ devices \in [FD!Slots -> FD!DeviceStructs] /\ default \in FD!SetUp \cup {FD!Nowhere}
      /\ cwd \in FD!SetUp \cup {FD!Nowhere} /\ open \in SUBSET Sessions
      /\ devoptab = {[name |-> devices[i].name, slot |-> i] : i \in FD!SetUp}
  BY FsDevNow
<1>2. /\ \A i, j \in FD!SetUp : i # j =>
           devices[i].name # devices[j].name /\ devices[i].fs # devices[j].fs
      /\ \A i \in FD!SetUp : \E r \in open : devices[i].fs = {r}
      /\ \A r \in open : \E i \in FD!SetUp : devices[i].fs = {r}
  BY FsDevNow
<1>3. fsReady' = TRUE /\ FD!SetUp \subseteq FD!Slots /\ FD!SetUp = {i \in FD!Slots : devices[i].setup}
  BY DEF FD!Mount, FD!SetUp
<1>4. refused \/ u \in FD!Slots \ FD!SetUp
  BY FsDevSlots DEF FD!FindUnused
<1>5. refused \/ \A i \in FD!SetUp : devices[i].name # name
  <2> SUFFICES ASSUME FD!fsdevFindDevice(name) = FD!Nowhere, NEW i \in FD!SetUp,
                      devices[i].name = name
               PROVE  FALSE
    OBVIOUS
  <2>1. fsReady /\ name # FD!Root
    <3>1. FD!Begins(FD!Root, FD!Root)
      <4>1. FD!Root \in Seq({"/"})
        BY DEF FD!Root
      <4> QED BY <4>1 DEF FD!Begins
    <3> QED BY <1>1, <3>1 DEF FD!FsDevAssumption, FD!AllNames
  <2>2. name \in Seq(STRING)
    BY DEF FD!FsDevAssumption, FD!AllNames
  <2>3. FD!Begins(name, devices[i].name)
    BY <2>2 DEF FD!Begins
  <2> DEFINE A == {j \in FD!SetUp : FD!Begins(name, devices[j].name)}
  <2>4. i \in A /\ A \in SUBSET FD!Slots
    BY <1>3, <2>3
  <2>5. FD!fsdevFindDevice(name) = FD!Lowest(A)
    BY <2>1 DEF FD!fsdevFindDevice
  <2> HIDE DEF A
  <2>6. FD!Lowest(A) \in FD!Slots
    BY <2>4, FsDevSlots
  <2> QED BY <2>5, <2>6, FsDevSlots
<1>6. CASE refused /\ open' = open \ {s} /\ UNCHANGED <<devices, default, cwd, devoptab>>
  <2>1. FD!Becomes(FD!Table)
    BY <1>6 DEF FD!Becomes, FD!Table
  <2> QED BY <1>1, <1>3, <2>1, FsDevThen
<1> HIDE DEF u
<1>7. CASE /\ ~refused /\ open' = open \ {s}
           /\ devices' = [devices EXCEPT ![u] = [FD!Free EXCEPT !.name = name]]
           /\ UNCHANGED <<default, cwd, devoptab>>
  <2> DEFINE st == [FD!Table EXCEPT !.devices[u] = [FD!Free EXCEPT !.name = name]]
  <2>1. /\ st.devices = [devices EXCEPT ![u] = [FD!Free EXCEPT !.name = name]]
        /\ st.default = default /\ st.cwd = cwd /\ st.devoptab = devoptab /\ st.open = open
    BY DEF FD!Table
  <2>2. [FD!Free EXCEPT !.name = name] \in FD!DeviceStructs /\ [FD!Free EXCEPT !.name = name].setup = FALSE
    BY DEF FD!Free, FD!DeviceStructs
  <2>3. st \in FD!Tables
    BY <1>1, <2>2 DEF FD!Table, FD!Tables
  <2>4. FD!Becomes(st)
    BY <1>7, <2>1 DEF FD!Becomes
  <2> HIDE DEF st
  <2>5. /\ \A i \in FD!Slots \ {u} : st.devices[i] = devices[i]
        /\ st.devices[u].setup = FALSE
    BY <1>1, <1>4, <1>7, <2>1, <2>2
  <2>6. FD!SetUpIn(st) = FD!SetUp
    BY <1>3, <1>4, <1>7, <2>5 DEF FD!SetUpIn
  <2>7. \A i \in FD!SetUp : st.devices[i] = devices[i]
    BY <1>3, <1>4, <1>7, <2>5
  <2>8. {[name |-> devices[i].name, slot |-> i] : i \in FD!SetUp}
        = {[name |-> st.devices[i].name, slot |-> i] : i \in FD!SetUp}
    BY <2>7
  <2>9. FD!Consistent(st)
    <3>1. {st.default, st.cwd} \subseteq FD!SetUpIn(st) \cup {FD!Nowhere}
      BY <1>1, <2>1, <2>6
    <3>2. ASSUME NEW i \in FD!SetUpIn(st), NEW j \in FD!SetUpIn(st), i # j
          PROVE  st.devices[i].name # st.devices[j].name /\ st.devices[i].fs # st.devices[j].fs
      <4>1. i \in FD!SetUp /\ j \in FD!SetUp
        BY <2>6
      <4>2. devices[i].name # devices[j].name /\ devices[i].fs # devices[j].fs
        BY <1>2, <3>2, <4>1
      <4>3. st.devices[i] = devices[i] /\ st.devices[j] = devices[j]
        BY <2>7, <4>1
      <4> QED BY <4>2, <4>3
    <3>3. ASSUME NEW i \in FD!SetUpIn(st) PROVE \E r \in st.open : st.devices[i].fs = {r}
      <4>1. i \in FD!SetUp
        BY <2>6
      <4>2. PICK r \in open : devices[i].fs = {r}
        BY <1>2, <4>1
      <4>3. st.devices[i] = devices[i] /\ st.open = open
        BY <2>1, <2>7, <4>1
      <4> QED BY <4>2, <4>3
    <3>4. ASSUME NEW r \in st.open PROVE \E i \in FD!SetUpIn(st) : st.devices[i].fs = {r}
      <4>1. r \in open
        BY <2>1
      <4>2. PICK i \in FD!SetUp : devices[i].fs = {r}
        BY <1>2, <4>1
      <4>3. st.devices[i] = devices[i] /\ i \in FD!SetUpIn(st)
        BY <2>6, <2>7
      <4> QED BY <4>2, <4>3
    <3>5. st.devoptab = {[name |-> st.devices[i].name, slot |-> i] : i \in FD!SetUpIn(st)}
      BY <1>1, <2>1, <2>6, <2>8
    <3> QED BY <3>1, <3>2, <3>3, <3>4, <3>5 DEF FD!Consistent
  <2> QED BY <1>3, <2>3, <2>4, <2>9, FsDevThen
<1>8. CASE /\ ~refused /\ open' = open \cup {s}
           /\ devices' = [devices EXCEPT ![u] = [setup |-> TRUE, fs |-> {s}, name |-> name]]
           /\ devoptab' = devoptab \cup {[name |-> name, slot |-> u]}
           /\ default' = (IF asDefault THEN u ELSE default)
           /\ cwd' = (IF asDefault THEN u ELSE cwd)
  <2> DEFINE dev == [setup |-> TRUE, fs |-> {s}, name |-> name]
             st == [devices |-> [devices EXCEPT ![u] = dev],
                    default |-> IF asDefault THEN u ELSE default,
                    cwd |-> IF asDefault THEN u ELSE cwd,
                    devoptab |-> devoptab \cup {[name |-> name, slot |-> u]},
                    open |-> open \cup {s}]
  <2>1. /\ st.devices = [devices EXCEPT ![u] = dev]
        /\ st.default \in {u, default} /\ st.cwd \in {u, cwd}
        /\ st.devoptab = devoptab \cup {[name |-> name, slot |-> u]} /\ st.open = open \cup {s}
    OBVIOUS
  <2>2. dev \in FD!DeviceStructs /\ dev.setup /\ dev.fs = {s} /\ dev.name = name
    BY DEF FD!DeviceStructs
  <2>3. FD!Becomes(st)
    BY <1>8 DEF FD!Becomes
  <2> HIDE DEF dev
  <2>4. st \in FD!Tables
    <3>1. [devices EXCEPT ![u] = dev] \in [FD!Slots -> FD!DeviceStructs]
      BY <1>1, <2>2
    <3>2. u \in FD!Slots /\ default \in FD!Slots \cup {FD!Nowhere} /\ cwd \in FD!Slots \cup {FD!Nowhere}
      BY <1>1, <1>3, <1>4, <1>8
    <3>3. devoptab \in SUBSET [name : FD!AllNames, slot : FD!Slots]
      BY <1>1 DEF FD!Tables, FD!Table
    <3>4. devoptab \cup {[name |-> name, slot |-> u]} \in SUBSET [name : FD!AllNames, slot : FD!Slots]
      BY <3>2, <3>3
    <3> QED BY <1>1, <3>1, <3>2, <3>4 DEF FD!Tables
  <2> HIDE DEF st
  <2>5. \A i \in FD!Slots \ {u} : st.devices[i] = devices[i]
    BY <1>1, <2>1
  <2>6. st.devices[u] = dev /\ u \in FD!Slots \ FD!SetUp
    BY <1>1, <1>4, <1>8, <2>1
  <2>7. FD!SetUpIn(st) = FD!SetUp \cup {u}
    BY <1>3, <2>2, <2>5, <2>6 DEF FD!SetUpIn
  <2>8. \A i \in FD!SetUp : i # u /\ st.devices[i] = devices[i]
    BY <1>3, <2>5, <2>6
  <2>9. {[name |-> st.devices[i].name, slot |-> i] : i \in FD!SetUpIn(st)}
        = {[name |-> devices[i].name, slot |-> i] : i \in FD!SetUp} \cup {[name |-> name, slot |-> u]}
    BY <2>2, <2>6, <2>7, <2>8
  <2>10. \A i \in FD!SetUp : devices[i].name # name /\ devices[i].fs # {s}
    <3>1. \A i \in FD!SetUp : devices[i].name # name
      BY <1>5, <1>8
    <3>2. \A i \in FD!SetUp : devices[i].fs # {s}
      BY <1>2
    <3> QED BY <3>1, <3>2
  <2>11. \A i, j \in FD!SetUpIn(st) : i # j =>
           st.devices[i].name # st.devices[j].name /\ st.devices[i].fs # st.devices[j].fs
    BY <1>2, <2>2, <2>6, <2>7, <2>8, <2>10
  <2>12. \A i \in FD!SetUpIn(st) : \E r \in st.open : st.devices[i].fs = {r}
    BY <1>2, <2>1, <2>2, <2>6, <2>7, <2>8
  <2>13. \A r \in st.open : \E i \in FD!SetUpIn(st) : st.devices[i].fs = {r}
    BY <1>2, <2>1, <2>2, <2>6, <2>7, <2>8
  <2>14. {st.default, st.cwd} \subseteq FD!SetUpIn(st) \cup {FD!Nowhere}
    BY <1>1, <2>1, <2>7
  <2>15. FD!Consistent(st)
    BY <1>1, <2>1, <2>9, <2>11, <2>12, <2>13, <2>14 DEF FD!Consistent
  <2> QED BY <1>3, <2>3, <2>4, <2>15, FsDevThen
<1> QED BY <1>6, <1>7, <1>8 DEF FD!Mount, u

(* To take a device away: the rest keep their names and sessions. *)
LEMMA FsDevWithout ==
  ASSUME FD!FsDevAssumption, NEW st \in FD!Tables, FD!Consistent(st), NEW i \in FD!Slots
  PROVE  /\ FD!Without(st, i) \in FD!Tables /\ FD!Consistent(FD!Without(st, i))
         /\ FD!SetUpIn(FD!Without(st, i)) = FD!SetUpIn(st) \ {i}
<1> DEFINE default1 == IF st.default = i THEN FD!Nowhere ELSE st.default
           sw == FD!Without(st, i)
<1>1. CASE ~st.devices[i].setup
  <2>1. sw = st /\ FD!SetUpIn(st) = FD!SetUpIn(st) \ {i}
    BY <1>1 DEF FD!Without, FD!SetUpIn
  <2> QED BY <2>1
<1>2. CASE st.devices[i].setup
  <2>0. /\ st.devices \in [FD!Slots -> FD!DeviceStructs] /\ st.open \in SUBSET Sessions
        /\ st.default \in FD!Slots \cup {FD!Nowhere} /\ st.cwd \in FD!Slots \cup {FD!Nowhere}
        /\ st.devoptab \in SUBSET [name : FD!AllNames, slot : FD!Slots]
    BY DEF FD!Tables
  <2>1. sw = [devices |-> [st.devices EXCEPT ![i] = FD!Free], default |-> default1,
              cwd |-> IF st.cwd = i THEN default1 ELSE st.cwd,
              devoptab |-> {d \in st.devoptab : d.name # st.devices[i].name},
              open |-> st.open \ st.devices[i].fs]
    <3>1. st = [devices |-> st.devices, default |-> st.default, cwd |-> st.cwd,
                devoptab |-> st.devoptab, open |-> st.open]
      BY DEF FD!Tables
    <3> QED BY <1>2, <3>1 DEF FD!Without
  <2>2. FD!Free \in FD!DeviceStructs /\ ~FD!Free.setup
    BY DEF FD!Free, FD!DeviceStructs
  <2>3. default1 \in FD!Slots \cup {FD!Nowhere}
    BY <2>0
  <2> HIDE DEF default1
  <2>4. sw \in FD!Tables
    <3>1. [st.devices EXCEPT ![i] = FD!Free] \in [FD!Slots -> FD!DeviceStructs]
      BY <2>0, <2>2
    <3> QED BY <2>0, <2>1, <2>3, <3>1 DEF FD!Tables
  <2>5. /\ sw.devices = [st.devices EXCEPT ![i] = FD!Free] /\ sw.default = default1
        /\ sw.cwd = (IF st.cwd = i THEN default1 ELSE st.cwd)
        /\ sw.devoptab = {d \in st.devoptab : d.name # st.devices[i].name}
        /\ sw.open = st.open \ st.devices[i].fs
    BY <2>1
  <2> HIDE DEF sw
  <2>6. \A j \in FD!Slots \ {i} : sw.devices[j] = st.devices[j]
    BY <2>0, <2>5
  <2>7. ~sw.devices[i].setup
    BY <2>0, <2>2, <2>5
  <2>8. FD!SetUpIn(sw) = FD!SetUpIn(st) \ {i}
    BY <2>6, <2>7 DEF FD!SetUpIn
  <2> DEFINE A == FD!SetUpIn(st)
  <2>9. i \in A /\ A \subseteq FD!Slots /\ FD!SetUpIn(sw) = A \ {i}
    BY <1>2, <2>8 DEF FD!SetUpIn
  <2>10. /\ {st.default, st.cwd} \subseteq A \cup {FD!Nowhere}
         /\ \A j, k \in A : j # k =>
              st.devices[j].name # st.devices[k].name /\ st.devices[j].fs # st.devices[k].fs
         /\ \A j \in A : \E s \in st.open : st.devices[j].fs = {s}
         /\ \A s \in st.open : \E j \in A : st.devices[j].fs = {s}
         /\ st.devoptab = {[name |-> st.devices[j].name, slot |-> j] : j \in A}
    BY DEF FD!Consistent
  <2> HIDE DEF A
  <2>11. \A j \in A \ {i} : sw.devices[j] = st.devices[j]
    BY <2>6, <2>9
  <2>12. {sw.default, sw.cwd} \subseteq (A \ {i}) \cup {FD!Nowhere}
    BY <2>5, <2>9, <2>10, FsDevSlots DEF default1
  <2>13. \A j \in A \ {i} : \E s \in sw.open : sw.devices[j].fs = {s}
    <3> SUFFICES ASSUME NEW j \in A \ {i} PROVE \E s \in sw.open : sw.devices[j].fs = {s}
      OBVIOUS
    <3>1. PICK s \in st.open : st.devices[j].fs = {s}
      BY <2>10
    <3>2. PICK r \in st.open : st.devices[i].fs = {r}
      BY <2>9, <2>10
    <3>3. s # r
      <4>1. i \in A /\ j \in A /\ i # j
        BY <2>9
      <4>2. st.devices[j].fs # st.devices[i].fs
        BY <2>10, <4>1
      <4> QED BY <3>1, <3>2, <4>2
    <3>4. s \in sw.open
      BY <2>5, <3>2, <3>3
    <3>5. sw.devices[j].fs = {s}
      BY <2>11, <3>1
    <3> QED BY <3>4, <3>5
  <2>14. \A s \in sw.open : \E j \in A \ {i} : sw.devices[j].fs = {s}
    <3> SUFFICES ASSUME NEW s \in sw.open PROVE \E j \in A \ {i} : sw.devices[j].fs = {s}
      OBVIOUS
    <3>1. s \in st.open /\ s \notin st.devices[i].fs
      BY <2>5
    <3>2. PICK j \in A : st.devices[j].fs = {s}
      BY <2>10, <3>1
    <3> QED BY <2>11, <3>1, <3>2
  <2>15. sw.devoptab = {[name |-> sw.devices[j].name, slot |-> j] : j \in A \ {i}}
    <3>1. \A j \in A : st.devices[j].name = st.devices[i].name => j = i
      BY <2>9, <2>10
    <3>2. sw.devoptab = {[name |-> st.devices[j].name, slot |-> j] : j \in A \ {i}}
      <4>1. ASSUME NEW d \in sw.devoptab PROVE \E j \in A \ {i} : d = [name |-> st.devices[j].name, slot |-> j]
        <5>1. d \in st.devoptab /\ d.name # st.devices[i].name
          BY <2>5
        <5>2. PICK j \in A : d = [name |-> st.devices[j].name, slot |-> j]
          BY <2>10, <5>1
        <5> QED BY <5>1, <5>2
      <4>2. ASSUME NEW j \in A \ {i} PROVE [name |-> st.devices[j].name, slot |-> j] \in sw.devoptab
        <5> DEFINE d == [name |-> st.devices[j].name, slot |-> j]
        <5>1. d \in st.devoptab
          BY <2>10
        <5>2. d.name = st.devices[j].name /\ st.devices[j].name # st.devices[i].name
          BY <3>1
        <5> QED BY <2>5, <5>1, <5>2
      <4> DEFINE T == {[name |-> st.devices[j].name, slot |-> j] : j \in A \ {i}}
      <4>3. sw.devoptab \subseteq T
        BY <4>1
      <4>4. T \subseteq sw.devoptab
        BY <4>2
      <4> QED BY <4>3, <4>4
    <3> QED BY <2>11, <3>2
  <2>16. FD!Consistent(sw)
    <3>1. \A j, k \in A \ {i} : j # k =>
            sw.devices[j].name # sw.devices[k].name /\ sw.devices[j].fs # sw.devices[k].fs
      BY <2>10, <2>11
    <3> QED BY <2>9, <2>12, <2>13, <2>14, <2>15, <3>1 DEF FD!Consistent
  <2> QED BY <2>4, <2>8, <2>16 DEF sw
<1> QED BY <1>1, <1>2

(* The tables on the way to the empty one are what the definition says. *)
LEMMA FsDevUnmountedIs ==
  ASSUME NumDevices \in Nat
  PROVE  \A k \in 0..NumDevices :
           FD!Unmounted[k] = IF k = 0 THEN FD!Table ELSE FD!Without(FD!Unmounted[k - 1], k - 1)
<1> DEFINE Tab(f, n) == f = [k \in 0..n |-> IF k = 0 THEN FD!Table ELSE FD!Without(f[k - 1], k - 1)]
           Not == {n \in Nat : ~ \E f : Tab(f, n)}
<1>1. SUFFICES Not = {}
  <2>1. PICK f : Tab(f, NumDevices)
    BY <1>1
  <2>2. Tab(FD!Unmounted, NumDevices)
    BY <2>1 DEF FD!Unmounted
  <2> QED BY <2>2
<1>2. SUFFICES ASSUME NEW m \in Not, \A j \in Not : m <= j PROVE FALSE
  <2>1. Not \subseteq Nat
    OBVIOUS
  <2> HIDE DEF Not
  <2>2. Not # {} => \E k \in Not : \A j \in Not : k <= j
    BY <2>1, FsLeast
  <2> QED BY <1>2, <2>2
<1>3. m \in Nat
  OBVIOUS
<1>4. CASE m = 0
  <2> DEFINE g == [k \in 0..0 |-> FD!Table]
  <2>1. Tab(g, 0)
    OBVIOUS
  <2> QED BY <1>4, <2>1
<1>5. CASE m # 0
  <2>1. m - 1 \in Nat /\ m - 1 \notin Not
    <3> HIDE DEF Not
    <3> QED BY <1>2, <1>3, <1>5
  <2>2. PICK f : Tab(f, m - 1)
    BY <2>1
  <2> DEFINE g == [k \in 0..m |-> IF k < m THEN f[k] ELSE FD!Without(f[m - 1], m - 1)]
  <2>3. \A k \in 0..m - 1 : f[k] = IF k = 0 THEN FD!Table ELSE FD!Without(f[k - 1], k - 1)
    BY <2>2
  <2>4. \A k \in 0..m - 1 : g[k] = f[k]
    BY <1>3
  <2>5. g[m] = FD!Without(f[m - 1], m - 1)
    BY <1>3
  <2>6. \A k \in 0..m : g[k] = IF k = 0 THEN FD!Table ELSE FD!Without(g[k - 1], k - 1)
    <3> HIDE DEF g, Tab
    <3>1. ASSUME NEW k \in 0..m - 1 PROVE g[k] = IF k = 0 THEN FD!Table ELSE FD!Without(g[k - 1], k - 1)
      <4>1. g[k] = IF k = 0 THEN FD!Table ELSE FD!Without(f[k - 1], k - 1)
        BY <2>3, <2>4
      <4>2. k # 0 => k - 1 \in 0..m - 1
        BY <1>3
      <4> QED BY <2>4, <4>1, <4>2
    <3>2. g[m] = FD!Without(g[m - 1], m - 1)
      BY <2>1, <2>4, <2>5
    <3>3. \A k \in 0..m : k \in 0..m - 1 \/ k = m
      BY <1>3
    <3> QED BY <1>5, <3>1, <3>2, <3>3
  <2>7. Tab(g, m)
    <3>1. g = [k \in 0..m |-> g[k]]
      OBVIOUS
    <3> HIDE DEF g
    <3>2. [k \in 0..m |-> g[k]] = [k \in 0..m |-> IF k = 0 THEN FD!Table ELSE FD!Without(g[k - 1], k - 1)]
      BY <2>6
    <3> QED BY <3>1, <3>2
  <2> QED BY <2>7
<1> QED BY <1>4, <1>5

(* After the first k slots none of them is set up. *)
LEMMA FsDevUnmounted ==
  ASSUME FD!FsDevAssumption, FD!IInv
  PROVE  /\ FD!Unmounted[NumDevices] \in FD!Tables /\ FD!Consistent(FD!Unmounted[NumDevices])
         /\ FD!SetUpIn(FD!Unmounted[NumDevices]) = {}
<1> DEFINE Good(k) == /\ FD!Unmounted[k] \in FD!Tables /\ FD!Consistent(FD!Unmounted[k])
                      /\ \A i \in FD!SetUpIn(FD!Unmounted[k]) : i >= k
           Not == {k \in 0..NumDevices : ~Good(k)}
<1>1. NumDevices \in Nat /\ FD!Slots = 0..NumDevices - 1
  BY DEF FD!FsDevAssumption, FD!Slots
<1>2. Good(0)
  <2>1. FD!Unmounted[0] = FD!Table
    BY <1>1, FsDevUnmountedIs
  <2>2. \A i \in FD!SetUpIn(FD!Table) : i >= 0
    BY <1>1 DEF FD!SetUpIn
  <2> QED BY <2>1, <2>2, FsDevNow
<1>3. ASSUME NEW k \in 1..NumDevices, Good(k - 1) PROVE Good(k)
  <2>1. k - 1 \in FD!Slots /\ k \in 0..NumDevices /\ k # 0
    BY <1>1
  <2>2. FD!Unmounted[k] = FD!Without(FD!Unmounted[k - 1], k - 1)
    BY <1>1, <2>1, FsDevUnmountedIs
  <2>3. /\ FD!Unmounted[k] \in FD!Tables /\ FD!Consistent(FD!Unmounted[k])
        /\ FD!SetUpIn(FD!Unmounted[k]) = FD!SetUpIn(FD!Unmounted[k - 1]) \ {k - 1}
    BY <1>3, <2>1, <2>2, FsDevWithout
  <2>4. ASSUME NEW i \in FD!SetUpIn(FD!Unmounted[k]) PROVE i >= k
    <3>1. i \in FD!SetUpIn(FD!Unmounted[k - 1]) /\ i # k - 1
      BY <2>3
    <3>2. i >= k - 1 /\ i \in Int
      BY <1>1, <1>3, <3>1 DEF FD!SetUpIn
    <3> QED BY <1>1, <3>1, <3>2
  <2> QED BY <2>3, <2>4
<1>4. Not = {}
  <2> SUFFICES ASSUME NEW m \in Not, \A j \in Not : m <= j PROVE FALSE
    <3>1. Not \subseteq Nat
      BY <1>1
    <3> HIDE DEF Not
    <3> QED BY <3>1, FsLeast
  <2>1. m \in 0..NumDevices /\ ~Good(m)
    OBVIOUS
  <2> HIDE DEF Good
  <2>2. m \in 1..NumDevices
    BY <1>1, <1>2, <2>1
  <2>3. m - 1 \in 0..NumDevices /\ ~(m <= m - 1)
    BY <1>1, <2>2
  <2>4. Good(m - 1)
    BY <2>3
  <2> QED BY <1>3, <2>1, <2>2, <2>4
<1>5. NumDevices \in 0..NumDevices
  BY <1>1
<1>6. Good(NumDevices)
  BY <1>4, <1>5
<1>7. FD!SetUpIn(FD!Unmounted[NumDevices]) = {}
  <2> SUFFICES ASSUME NEW i \in FD!SetUpIn(FD!Unmounted[NumDevices]) PROVE FALSE
    OBVIOUS
  <2>1. i \in FD!Slots /\ i >= NumDevices
    BY <1>6 DEF FD!SetUpIn
  <2> QED BY <1>1, <2>1
<1> QED BY <1>6, <1>7

LEMMA FsDevAgain ==
  ASSUME NEW st, NEW su, FD!Consistent(su), st.devices = su.devices, st.devoptab = su.devoptab,
         st.open = su.open, {st.default, st.cwd} \subseteq FD!SetUpIn(st) \cup {FD!Nowhere}
  PROVE  FD!Consistent(st)
<1> DEFINE A == FD!SetUpIn(su)
<1>1. FD!SetUpIn(st) = A
  BY DEF FD!SetUpIn
<1>2. /\ \A i, j \in A : i # j =>
           su.devices[i].name # su.devices[j].name /\ su.devices[i].fs # su.devices[j].fs
      /\ \A i \in A : \E s \in su.open : su.devices[i].fs = {s}
      /\ \A s \in su.open : \E i \in A : su.devices[i].fs = {s}
      /\ su.devoptab = {[name |-> su.devices[i].name, slot |-> i] : i \in A}
  BY DEF FD!Consistent
<1> HIDE DEF A
<1>3. \A i, j \in A : i # j =>
        st.devices[i].name # st.devices[j].name /\ st.devices[i].fs # st.devices[j].fs
  BY <1>2
<1>4. \A i \in A : \E s \in st.open : st.devices[i].fs = {s}
  BY <1>2
<1>5. \A s \in st.open : \E i \in A : st.devices[i].fs = {s}
  BY <1>2
<1>6. st.devoptab = {[name |-> st.devices[i].name, slot |-> i] : i \in A}
  BY <1>2
<1> QED BY <1>1, <1>3, <1>4, <1>5, <1>6 DEF FD!Consistent

LEMMA FsDevStep ==
  ASSUME FD!FsDevAssumption, FD!IInv, FD!Next PROVE FD!IInv'
<1>1. /\ fsReady \in BOOLEAN /\ FD!Table \in FD!Tables /\ FD!Consistent(FD!Table)
      /\ ~fsReady => FD!SetUp = {}
      /\ FD!SetUpIn(FD!Table) = FD!SetUp /\ FD!SetUp \subseteq FD!Slots
      /\ default \in FD!SetUp \cup {FD!Nowhere} /\ cwd \in FD!SetUp \cup {FD!Nowhere}
  BY FsDevNow DEF FD!SetUp
<1>2. ASSUME NEW name \in Names, NEW s \in Sessions, FD!fsdevMountDevice(name, s) PROVE FD!IInv'
  BY <1>2, FsDevMount DEF FD!fsdevMountDevice, FD!AllNames
<1>3. ASSUME NEW s \in Sessions, FD!fsdevMountSdmc(s) PROVE FD!IInv'
  BY <1>3, FsDevMount DEF FD!fsdevMountSdmc, FD!AllNames
<1>4. ASSUME NEW name, FD!fsdevUnmountDevice(name) PROVE FD!IInv'
  <2> DEFINE i == FD!fsdevFindDevice(name)
             st == FD!Without(FD!Table, i)
  <2>1. i \in FD!SetUp /\ FD!Becomes(st) /\ fsReady' = fsReady
    BY <1>4, FsDevFound DEF FD!fsdevUnmountDevice
  <2> HIDE DEF i
  <2>2. st \in FD!Tables /\ FD!Consistent(st) /\ FD!SetUpIn(st) = FD!SetUp \ {i}
    BY <1>1, <2>1, FsDevWithout
  <2> HIDE DEF st
  <2> QED BY <1>1, <2>1, <2>2, FsDevThen
<1>5. ASSUME FD!fsdevUnmountAll PROVE FD!IInv'
  <2> DEFINE st == FD!Unmounted[NumDevices]
  <2>1. FD!Becomes(st) /\ fsReady' = FALSE
    BY <1>5 DEF FD!fsdevUnmountAll
  <2>2. st \in FD!Tables /\ FD!Consistent(st) /\ FD!SetUpIn(st) = {}
    BY FsDevUnmounted
  <2> HIDE DEF st
  <2> QED BY <2>1, <2>2, FsDevThen
<1>6. ASSUME NEW name, NEW absolute \in BOOLEAN, FD!fsdev_chdir(name, absolute) PROVE FD!IInv'
  <2> DEFINE i == FD!PathDevice(name, absolute)
             st == [devices |-> devices, default |-> default, cwd |-> i, devoptab |-> devoptab,
                    open |-> open]
  <2>1. i \in FD!SetUp /\ FD!Becomes(st) /\ fsReady' = fsReady
    BY <1>1, <1>6, FsDevFound DEF FD!fsdev_chdir, FD!PathDevice, FD!Becomes
  <2> HIDE DEF i
  <2>2. st \in FD!Tables
    BY <1>1, <2>1 DEF FD!Tables, FD!Table
  <2>3. /\ st.devices = FD!Table.devices /\ st.default = default /\ st.cwd = i
        /\ st.devoptab = FD!Table.devoptab /\ st.open = FD!Table.open
    BY DEF FD!Table
  <2> HIDE DEF st
  <2>4. FD!SetUpIn(st) = FD!SetUp
    BY <1>1, <2>3 DEF FD!SetUpIn
  <2>5. FD!Consistent(st)
    <3>1. {st.default, st.cwd} \subseteq FD!SetUpIn(st) \cup {FD!Nowhere}
      BY <1>1, <2>1, <2>3, <2>4
    <3> QED BY <1>1, <2>3, <3>1, FsDevAgain
  <2> QED BY <1>1, <2>1, <2>2, <2>4, <2>5, FsDevThen
<1> QED BY <1>2, <1>3, <1>4, <1>5, <1>6 DEF FD!Next

LEMMA FsDevRests ==
  ASSUME FD!IInv, UNCHANGED fdVars PROVE FD!IInv'
<1>1. FD!Becomes(FD!Table)
  BY DEF fdVars, FD!Becomes, FD!Table
<1>2. /\ fsReady \in BOOLEAN /\ FD!Table \in FD!Tables /\ FD!Consistent(FD!Table)
      /\ ~fsReady => FD!SetUp = {}
      /\ FD!SetUpIn(FD!Table) = FD!SetUp
  BY FsDevNow
<1>3. fsReady' = fsReady
  BY DEF fdVars
<1> QED BY <1>1, <1>2, <1>3, FsDevThen

(* What is found is mounted, so its session is open, and of its own.       *)
LEMMA FsDevConsistent ==
  ASSUME FD!FsDevAssumption, FD!IInv PROVE FD!MountsConsistent
<1>1. /\ cwd \in FD!SetUp \cup {FD!Nowhere}
      /\ devoptab = {[name |-> devices[i].name, slot |-> i] : i \in FD!SetUp}
      /\ \A i, j \in FD!SetUp : i # j => devices[i].fs # devices[j].fs
      /\ \A i \in FD!SetUp : \E s \in open : devices[i].fs = {s}
      /\ \A s \in open : \E i \in FD!SetUp : devices[i].fs = {s}
  BY FsDevNow
<1>2. ASSUME NEW name, NEW absolute \in BOOLEAN, FD!PathDevice(name, absolute) # FD!Nowhere
      PROVE  /\ devices[FD!PathDevice(name, absolute)].setup
             /\ devices[FD!PathDevice(name, absolute)].fs \subseteq open
  <2>1. FD!PathDevice(name, absolute) \in FD!SetUp
    BY <1>1, <1>2, FsDevFound DEF FD!PathDevice
  <2> QED BY <1>1, <2>1 DEF FD!SetUp
<1>3. FD!OnlyOpenSessions
  BY <1>2 DEF FD!OnlyOpenSessions
<1>4. ASSUME NEW s \in open
      PROVE  \E i \in FD!SetUp : devices[i].fs = {s} /\ \A j \in FD!SetUp \ {i} : devices[j].fs # {s}
  <2>1. PICK i \in FD!SetUp : devices[i].fs = {s}
    BY <1>1
  <2>2. \A j \in FD!SetUp \ {i} : devices[j].fs # {s}
    BY <1>1, <2>1
  <2> QED BY <2>1, <2>2
<1>5. FD!SessionsHeld
  BY <1>1, <1>4 DEF FD!SessionsHeld
<1> QED BY <1>3, <1>5 DEF FD!MountsConsistent

-----------------------------------------------------------------------------
(* FsDir: what was delivered is what the batches read so far begin with.   *)

LEMMA DirInit == ASSUME FR!FsDirAssumption, FR!Init PROVE FR!IInv
<1>1. Listing \in Seq(BOOLEAN) /\ Batch \in Nat \ {0} /\ Len(Listing) \in Nat
  BY DEF FR!FsDirAssumption
<1>2. /\ directory.index = -1 /\ directory.size = 0 /\ directory.read = 0 /\ delivered = <<>>
      /\ directory \in FR!Directories
  BY <1>1 DEF FR!Init, FR!Directories
<1> QED BY <1>2, <1>1 DEF FR!IInv, FR!TypeOK, FR!Ordered, FR!BatchFits

LEMMA DirStep ==
  ASSUME FR!FsDirAssumption, FR!IInv, FR!Next
  PROVE  FR!IInv'
<1> DEFINE is == directory.is
           index == directory.index
           size == directory.size
           read == directory.read
           length == Len(delivered)
<1>1. /\ Batch \in Nat \ {0} /\ Len(Listing) \in Nat /\ length \in Nat
      /\ is \in BOOLEAN /\ index \in Int /\ size \in Nat /\ read \in Nat
      /\ index >= -1 /\ index + 1 <= size /\ size <= Batch /\ size <= read /\ read <= Len(Listing)
      /\ length = read - size + index + 1
  BY DEF FR!FsDirAssumption, FR!IInv, FR!TypeOK, FR!Directories, FR!BatchFits
<1>2. directory = [is |-> is, index |-> index, size |-> size, read |-> read]
  BY DEF FR!IInv, FR!TypeOK, FR!Directories
<1>3. delivered \in Seq(Int) /\ \A i \in 1..length : delivered[i] = FR!Entry(i)
  BY DEF FR!IInv, FR!TypeOK, FR!Ordered
<1>4. ASSUME NEW d \in [is : BOOLEAN, index : Int, size : Nat, read : Nat],
             d.index >= -1, d.index + 1 <= d.size, d.size <= Batch, d.size <= d.read,
             d.read <= Len(Listing), directory' = d, delivered' \in Seq(Int),
             Len(delivered') = d.read - d.size + d.index + 1,
             \A i \in 1..Len(delivered') : delivered'[i] = FR!Entry(i)
      PROVE  FR!IInv'
  <2>1. directory' \in FR!Directories
    <3>1. d.index \in -1..Batch - 1 /\ d.size \in 0..Batch /\ d.read \in 0..Len(Listing)
      BY <1>4, <1>1
    <3>2. d = [is |-> d.is, index |-> d.index, size |-> d.size, read |-> d.read] /\ d.is \in BOOLEAN
      OBVIOUS
    <3> QED BY <1>4, <3>1, <3>2 DEF FR!Directories
  <2>2. FR!BatchFits'
    BY <1>4 DEF FR!BatchFits
  <2> QED BY <1>4, <2>1, <2>2 DEF FR!IInv, FR!TypeOK, FR!Ordered
<1> HIDE DEF is, index, size, read, length
<1>5. ASSUME NEW i \in Int PROVE FR!Entry(i) \in Int
  BY <1>5 DEF FR!Entry
<1>6. ASSUME NEW i \in Int, i = length + 1, delivered' = Append(delivered, FR!Entry(i))
      PROVE  /\ delivered' \in Seq(Int) /\ Len(delivered') = length + 1
             /\ \A k \in 1..Len(delivered') : delivered'[k] = FR!Entry(k)
  <2>1. FR!Entry(i) \in Int
    BY <1>1, <1>5, <1>6
  <2>2. /\ delivered' \in Seq(Int) /\ Len(delivered') = length + 1
        /\ \A k \in 1..length : delivered'[k] = delivered[k]
        /\ delivered'[length + 1] = FR!Entry(i)
    BY <2>1, <1>3, <1>6, AppendProperties DEF length
  <2> QED BY <2>2, <1>1, <1>3, <1>6
<1>7. CASE FR!fsdev_diropen
  <2>1. directory' = [is |-> TRUE, index |-> -1, size |-> 0, read |-> 0] /\ delivered' = <<>>
    BY <1>7 DEF FR!fsdev_diropen
  <2> DEFINE d == [is |-> TRUE, index |-> -1, size |-> 0, read |-> 0]
  <2>2. /\ d \in [is : BOOLEAN, index : Int, size : Nat, read : Nat] 
        /\ d.index = -1 /\ d.size = 0 /\ d.read = 0 /\ directory' = d
    BY <2>1
  <2>3. /\ delivered' \in Seq(Int) /\ Len(delivered') = 0
        /\ \A i \in 1..Len(delivered') : delivered'[i] = FR!Entry(i)
    BY <2>1
  <2> HIDE DEF d
  <2> QED BY <2>2, <2>3, <1>1, <1>4
<1>8. CASE FR!NextOfBatch
  <2>1. /\ directory' = [directory EXCEPT !.index = index + 1] /\ index + 1 < size
        /\ delivered' = Append(delivered, FR!Entry(read - size + index + 2))
    BY <1>8 DEF FR!NextOfBatch, index, size, read
  <2>2. directory' = [is |-> is, index |-> index + 1, size |-> size, read |-> read]
    BY <2>1, <1>2
  <2>3. read - size + index + 2 \in Int /\ read - size + index + 2 = length + 1
    BY <1>1
  <2>4. /\ delivered' \in Seq(Int) /\ Len(delivered') = length + 1
        /\ \A i \in 1..Len(delivered') : delivered'[i] = FR!Entry(i)
    BY <2>1, <2>3, <1>6
  <2> DEFINE d == [is |-> is, index |-> index + 1, size |-> size, read |-> read]
  <2>5. /\ d \in [is : BOOLEAN, index : Int, size : Nat, read : Nat]
        /\ d.index = index + 1 /\ d.size = size /\ d.read = read
    BY <1>1
  <2>6. directory' = d /\ index + 1 < size
    BY <2>1, <2>2
  <2> HIDE DEF d
  <2> QED BY <2>4, <2>5, <2>6, <1>4, <1>1
<1>9. CASE FR!NextBatch
  <2> DEFINE rest == Len(Listing) - read
             n == IF rest < Batch THEN rest ELSE Batch
  <2>1. index + 1 = size /\ length = read
    BY <1>9, <1>1 DEF FR!NextBatch, index, size
  <2>2. n \in Nat /\ n <= Batch /\ read + n <= Len(Listing)
    BY <1>1
  <2> HIDE DEF n
  <2>3. CASE n > 0 /\ directory' = [directory EXCEPT !.index = 0, !.size = n, !.read = read + n]
             /\ delivered' = Append(delivered, FR!Entry(read + 1))
    <3>1. directory' = [is |-> is, index |-> 0, size |-> n, read |-> read + n]
      BY <2>3, <1>2
    <3>2. /\ delivered' \in Seq(Int) /\ Len(delivered') = read + 1
          /\ \A k \in 1..Len(delivered') : delivered'[k] = FR!Entry(k)
      <4>1. read + 1 \in Int /\ read + 1 = length + 1
        BY <1>1, <2>1
      <4> QED BY <2>3, <4>1, <1>6
    <3> DEFINE d == [is |-> is, index |-> 0, size |-> n, read |-> read + n]
    <3>3. /\ d \in [is : BOOLEAN, index : Int, size : Nat, read : Nat]
          /\ d.index = 0 /\ d.size = n /\ d.read = read + n
      BY <1>1, <2>2
    <3>4. directory' = d /\ n > 0
      BY <3>1, <2>3
    <3> HIDE DEF d
    <3> QED BY <2>2, <3>2, <3>3, <3>4, <1>4, <1>1
  <2>4. CASE directory' = [directory EXCEPT !.index = -1, !.size = 0] /\ UNCHANGED delivered
    <3>1. directory' = [is |-> is, index |-> -1, size |-> 0, read |-> read]
      BY <2>4, <1>2
    <3> DEFINE d == [is |-> is, index |-> -1, size |-> 0, read |-> read]
    <3>2. /\ d \in [is : BOOLEAN, index : Int, size : Nat, read : Nat]
          /\ d.index = -1 /\ d.size = 0 /\ d.read = read
      BY <1>1
    <3>3. directory' = d
      BY <3>1
    <3>4. /\ delivered' \in Seq(Int) /\ Len(delivered') = read
          /\ \A i \in 1..Len(delivered') : delivered'[i] = FR!Entry(i)
      BY <2>4, <2>1, <1>3 DEF length
    <3> HIDE DEF d
    <3> QED BY <3>2, <3>3, <3>4, <1>4, <1>1
  <2> QED BY <2>3, <2>4, <1>9 DEF FR!NextBatch, n, read
<1>10. CASE FR!fsdev_dirclose
  <2>1. directory' = [is |-> FALSE, index |-> index, size |-> size, read |-> read]
    BY <1>10, <1>2 DEF FR!fsdev_dirclose
  <2> QED BY <2>1, <1>10, <1>4, <1>1, <1>3 DEF length, FR!fsdev_dirclose
<1> QED BY <1>7, <1>8, <1>9, <1>10 DEF FR!Next

LEMMA DirRests ==
  ASSUME FR!IInv, UNCHANGED frVars PROVE FR!IInv'
BY DEF frVars, FR!IInv, FR!TypeOK, FR!BatchFits, FR!Ordered

(* The entries of a directory of any size come one by one, in batches of   *)
(* any size.                                                               *)
LEMMA DirInOrder ==
  ASSUME FR!FsDirAssumption, FR!IInv PROVE FR!EntriesInOrder
<1>1. delivered \in Seq(Int) /\ \A i \in 1..Len(delivered) : delivered[i] = FR!Entry(i)
  BY DEF FR!IInv, FR!TypeOK, FR!Ordered
<1>2. delivered = [i \in DOMAIN delivered |-> FR!Entry(i)]
  BY <1>1
<1>3. Len(delivered) \in directory.read - directory.size..Len(Listing)
  BY DEF FR!IInv, FR!TypeOK, FR!Directories, FR!BatchFits, FR!FsDirAssumption
<1> QED BY <1>2, <1>3 DEF FR!EntriesInOrder

-----------------------------------------------------------------------------
(* FsFile: what reading and writing make of the bytes of the file, and     *)
(* that every piece of a call lands after those before it.                 *)

LEMMA AtMostIs ==
  ASSUME NEW place \in Nat, NEW n \in Nat, content \in Seq(FF!Bytes)
  PROVE  /\ FF!AtMost(place, n) \in Seq(FF!Bytes) /\ Len(FF!AtMost(place, n)) <= n
         /\ \A k \in 1..Len(FF!AtMost(place, n)) :
              place + k <= Len(content) /\ FF!AtMost(place, n)[k] = content[place + k]
         /\ place + n <= Len(content) => Len(FF!AtMost(place, n)) = n
         /\ n = 0 => FF!AtMost(place, n) = <<>>
<1> DEFINE end == FF!Least(place + n, Len(content))
           length == IF place + 1 <= end THEN end - place ELSE 0
<1>1. Len(content) \in Nat
  OBVIOUS
<1>2. end \in Nat /\ end <= place + n /\ end <= Len(content) /\ (place + n <= Len(content) => end = place + n)
  BY <1>1 DEF FF!Least
<1> HIDE DEF end
<1>3. FF!AtMost(place, n) = [k \in 1..length |-> content[place + k]]
  BY <1>1, <1>2 DEF FF!AtMost, end
<1>4. length \in Nat /\ length <= n /\ (place + n <= Len(content) => length = n) /\ (n = 0 => length = 0)
  BY <1>2
<1>5. \A k \in 1..length : place + k \in 1..Len(content)
  BY <1>2, <1>1
<1> HIDE DEF length
<1>6. \A k \in 1..length : content[place + k] \in FF!Bytes
  BY <1>5
<1>7. FF!AtMost(place, n) \in Seq(FF!Bytes) /\ Len(FF!AtMost(place, n)) = length
  BY <1>3, <1>4, <1>6
<1>8. \A k \in 1..length : FF!AtMost(place, n)[k] = content[place + k]
  BY <1>3
<1>9. length = 0 => FF!AtMost(place, n) = <<>>
  BY <1>7
<1>10. \A k \in 1..Len(FF!AtMost(place, n)) :
         place + k <= Len(content) /\ FF!AtMost(place, n)[k] = content[place + k]
  <2> SUFFICES ASSUME NEW k \in 1..length
               PROVE  place + k <= Len(content) /\ FF!AtMost(place, n)[k] = content[place + k]
    BY <1>7
  <2>1. place + k \in 1..Len(content)
    BY <1>5
  <2>2. place + k <= Len(content)
    BY <2>1, <1>1
  <2> QED BY <2>2, <1>8
<1> QED BY <1>4, <1>7, <1>9, <1>10

LEMMA WrittenIs ==
  ASSUME NEW place \in Nat, NEW data \in Seq(FF!Bytes), content \in Seq(FF!Bytes)
  PROVE  /\ FF!Written(place, data) \in Seq(FF!Bytes)
         /\ place + Len(data) <= Len(FF!Written(place, data)) /\ Len(content) <= Len(FF!Written(place, data))
         /\ \A k \in 1..Len(data) : FF!Written(place, data)[place + k] = data[k]
         /\ \A i \in 1..Len(content) : i <= place => FF!Written(place, data)[i] = content[i]
<1> DEFINE length == IF place + Len(data) > Len(content) THEN place + Len(data) ELSE Len(content)
           byte(i) == IF i \in place + 1..place + Len(data) THEN data[i - place]
                      ELSE IF i <= Len(content) THEN content[i] ELSE FF!Hole
<1>1. Len(content) \in Nat /\ Len(data) \in Nat
  OBVIOUS
<1>2. length \in Nat /\ place + Len(data) <= length /\ Len(content) <= length
  BY <1>1
<1>3. FF!Written(place, data) = [i \in 1..length |-> byte(i)]
  BY DEF FF!Written
<1> HIDE DEF length
<1>4. \A i \in 1..length : byte(i) \in FF!Bytes
  <2> SUFFICES ASSUME NEW i \in 1..length PROVE byte(i) \in FF!Bytes
    OBVIOUS
  <2>1. CASE i \in place + 1..place + Len(data)
    <3>1. i - place \in 1..Len(data)
      BY <2>1, <1>1
    <3> QED BY <2>1, <3>1
  <2>2. CASE i \notin place + 1..place + Len(data) /\ i <= Len(content)
    BY <2>2, <1>1, <1>2
  <2>3. CASE i \notin place + 1..place + Len(data) /\ ~(i <= Len(content))
    BY <2>3 DEF FF!Hole, FF!Bytes
  <2> QED BY <2>1, <2>2, <2>3
<1>5. \A k \in 1..Len(data) : place + k \in 1..length /\ byte(place + k) = data[k]
  BY <1>1, <1>2
<1>6. \A i \in 1..Len(content) : i <= place => i \in 1..length /\ byte(i) = content[i]
  BY <1>1, <1>2
<1> HIDE DEF byte
<1>7. FF!Written(place, data) \in Seq(FF!Bytes) /\ Len(FF!Written(place, data)) = length
  BY <1>2, <1>3, <1>4
<1> QED BY <1>2, <1>3, <1>5, <1>6, <1>7

LEMMA FileInit == ASSUME FF!FsFileAssumption, FF!Init PROVE FF!IInv
BY DEF FF!Init, FF!IInv, FF!TypeOK, FF!NoFile, FF!NoCall, FF!Files, FF!Calls, FF!Modes

(* A step that ends with no call. *)
LEMMA NoCallFits ==
  ASSUME FF!FsFileAssumption, FF!IInv, exists' \in BOOLEAN, content' \in Seq(FF!Bytes), file' \in FF!Files,
         writes' \in Nat, call' = FF!NoCall
  PROVE  FF!IInv'
BY DEF FF!IInv, FF!TypeOK, FF!NoCall, FF!Calls

LEMMA FileOpen ==
  ASSUME FF!FsFileAssumption, FF!IInv, NEW mode \in FF!Modes, NEW append \in BOOLEAN, NEW creat \in BOOLEAN,
         NEW excl \in BOOLEAN, NEW trunc \in BOOLEAN, FF!fsdev_open(mode, append, creat, excl, trunc)
  PROVE  FF!IInv'
<1>1. ~file.is /\ call' = call /\ writes' = writes
  BY DEF FF!fsdev_open
<1>2. exists' \in BOOLEAN /\ content' \in {<<>>, content}
      /\ file' \in {file, [is |-> TRUE, mode |-> mode, append |-> append, offset |-> 0]}
  BY DEF FF!fsdev_open, FF!IInv, FF!TypeOK
<1>3. file' \in FF!Files /\ content' \in Seq(FF!Bytes)
  <2>1. [is |-> TRUE, mode |-> mode, append |-> append, offset |-> 0] \in FF!Files
    BY DEF FF!Files
  <2>2. <<>> \in Seq(FF!Bytes)
    OBVIOUS
  <2> QED BY <1>2, <2>1, <2>2 DEF FF!IInv, FF!TypeOK
<1>4. call.kind = "none" /\ ~call.busy
  BY <1>1 DEF FF!IInv
<1> QED BY <1>1, <1>2, <1>3, <1>4 DEF FF!IInv, FF!TypeOK

LEMMA FileSeek ==
  ASSUME FF!FsFileAssumption, FF!IInv, NEW pos \in {-1, 0, 1}, NEW whence \in {"set", "cur", "end"},
         FF!fsdev_seek(pos, whence)
  PROVE  FF!IInv'
<1>1. \E n \in 0..MaxSize : file' = [file EXCEPT !.offset = n]
  BY DEF FF!fsdev_seek
<1>2. file' \in FF!Files
  BY <1>1 DEF FF!FsFileAssumption, FF!IInv, FF!TypeOK, FF!Files
<1> QED BY <1>2, NoCallFits DEF FF!fsdev_seek, FF!IInv, FF!TypeOK

LEMMA FileTruncate ==
  ASSUME FF!FsFileAssumption, FF!IInv, NEW n \in 0..MaxSize, FF!fsdev_ftruncate(n)
  PROVE  FF!IInv'
<1>1. \A i \in 1..n : (IF i <= Len(content) THEN content[i] ELSE FF!Hole) \in FF!Bytes
  <2>1. FF!Hole \in FF!Bytes
    BY DEF FF!Hole, FF!Bytes
  <2>2. content \in Seq(FF!Bytes) /\ n \in Nat
    BY DEF FF!IInv, FF!TypeOK, FF!FsFileAssumption
  <2>3. \A i \in 1..n : i <= Len(content) => content[i] \in FF!Bytes
    BY <2>2
  <2> QED BY <2>1, <2>3
<1>2. content' \in Seq(FF!Bytes)
  BY <1>1 DEF FF!fsdev_ftruncate, FF!FsFileAssumption
<1> QED BY <1>2, NoCallFits DEF FF!fsdev_ftruncate, FF!IInv, FF!TypeOK

-----------------------------------------------------------------------------
(* The call after a step, with what it was passed and what was moved. *)
LEMMA CallFits ==
  ASSUME FF!FsFileAssumption, NEW c \in FF!Calls, NEW f \in FF!Files, content' \in Seq(FF!Bytes),
         exists' \in BOOLEAN, writes' \in Nat, call' = c, file' = f, f.is, c.kind # "none",
         Len(c.done) <= c.want,
         c.busy \/ c.result # -1 => f.offset = c.start + Len(c.done),
         \A k \in 1..Len(c.done) : c.start + k <= Len(content') /\ content'[c.start + k] = c.done[k],
         c.kind = "write" =>
           Len(c.data) = c.want /\ \A k \in 1..Len(c.done) : c.data[k] = c.done[k],
         ~c.busy => c.result = Len(c.done) \/ (c.result = -1 /\ c.done = <<>>)
  PROVE  FF!IInv'
<1>1. FF!TypeOK'
  BY DEF FF!TypeOK
<1>2. FF!InPlace' /\ FF!OfData' /\ FF!Answered'
  BY DEF FF!InPlace, FF!OfData, FF!Answered
<1> QED BY <1>1, <1>2 DEF FF!IInv

LEMMA FileWrite ==
  ASSUME FF!FsFileAssumption, FF!IInv, NEW n \in Lengths, FF!fsdev_write(n)
  PROVE  FF!IInv'
<1> DEFINE data == [i \in 1..n |-> [write |-> writes + 1, at |-> i]]
           start == IF file.append THEN Len(content) ELSE file.offset
           is(done, busy, result) == [kind |-> "write", busy |-> busy, start |-> start, data |-> data,
                                      want |-> n, done |-> done, result |-> result]
<1>1. n \in Nat /\ start \in Nat /\ writes \in Nat /\ content \in Seq(FF!Bytes) /\ file \in FF!Files
      /\ file.is /\ exists \in BOOLEAN
  BY DEF FF!FsFileAssumption, FF!IInv, FF!TypeOK, FF!Files, FF!fsdev_write
<1>2. data \in Seq(FF!Bytes) /\ Len(data) = n
  BY <1>1 DEF FF!Bytes
<1>3. exists' = exists /\ writes' = writes + 1
  BY DEF FF!fsdev_write
<1>4. \/ call' = is(<<>>, FALSE, -1) /\ file' \in {file, [file EXCEPT !.offset = start]} /\ content' = content
      \/ /\ call' = is(data, FALSE, n) /\ content' = FF!Written(start, data)
         /\ file' = [file EXCEPT !.offset = start + n]
      \/ /\ call' = is(<<>>, TRUE, 0) /\ content' = content
         /\ file' = [file EXCEPT !.offset = start]
  BY <1>2 DEF FF!fsdev_write, FF!NoCall, FF!Failed, FF!Transferred
<1> HIDE DEF data, start
<1>5. <<>> \in Seq(FF!Bytes) /\ -1 \in Int
  OBVIOUS
<1>6. \A place \in Nat : /\ [file EXCEPT !.offset = place] \in FF!Files
                      /\ [file EXCEPT !.offset = place].is /\ [file EXCEPT !.offset = place].offset = place
  BY <1>1 DEF FF!Files
<1>7. CASE call' = is(<<>>, FALSE, -1) /\ file' \in {file, [file EXCEPT !.offset = start]} /\ content' = content
  <2> DEFINE c == is(<<>>, FALSE, -1)
  <2>1. c \in FF!Calls
    BY <1>1, <1>2, <1>5 DEF FF!Calls
  <2>2. /\ c.kind = "write" /\ c.busy = FALSE /\ c.start = start /\ c.data = data /\ c.want = n
        /\ c.done = <<>> /\ c.result = -1
    OBVIOUS
  <2>3. file' \in FF!Files /\ file'.is
    BY <1>1, <1>6, <1>7
  <2> HIDE DEF c
  <2> QED BY <1>1, <1>2, <1>3, <1>7, <2>1, <2>2, <2>3, CallFits DEF c
<1>8. CASE /\ call' = is(data, FALSE, n) /\ content' = FF!Written(start, data)
           /\ file' = [file EXCEPT !.offset = start + n]
  <2> DEFINE c == is(data, FALSE, n)
  <2>1. c \in FF!Calls
    BY <1>1, <1>2 DEF FF!Calls
  <2>2. /\ c.kind = "write" /\ c.busy = FALSE /\ c.start = start /\ c.data = data /\ c.want = n
        /\ c.done = data /\ c.result = n
    OBVIOUS
  <2>3. file' \in FF!Files /\ file'.is /\ file'.offset = start + n
    <3>1. start + n \in Nat
      BY <1>1
    <3> QED BY <3>1, <1>6, <1>8
  <2>4. /\ content' \in Seq(FF!Bytes)
        /\ \A k \in 1..n : start + k <= Len(content') /\ content'[start + k] = data[k]
    BY <1>1, <1>2, <1>8, WrittenIs
  <2>5. call' = c
    BY <1>8
  <2> HIDE DEF c
  <2> QED BY <1>1, <1>2, <1>3, <2>1, <2>2, <2>3, <2>4, <2>5, CallFits
<1>9. CASE /\ call' = is(<<>>, TRUE, 0) /\ content' = content
           /\ file' = [file EXCEPT !.offset = start]
  <2> DEFINE c == is(<<>>, TRUE, 0)
  <2>1. c \in FF!Calls
    BY <1>1, <1>2, <1>5 DEF FF!Calls
  <2>2. /\ c.kind = "write" /\ c.busy = TRUE /\ c.start = start /\ c.data = data /\ c.want = n
        /\ c.done = <<>> /\ c.result = 0
    OBVIOUS
  <2>3. file' \in FF!Files /\ file'.is /\ file'.offset = start
    BY <1>1, <1>6, <1>9
  <2>4. call' = c /\ content' = content
    BY <1>9
  <2> HIDE DEF c
  <2> QED BY <1>1, <1>2, <1>3, <2>1, <2>2, <2>3, <2>4, CallFits
<1> QED BY <1>4, <1>7, <1>8, <1>9

LEMMA FileRead ==
  ASSUME FF!FsFileAssumption, FF!IInv, NEW n \in Lengths, FF!fsdev_read(n)
  PROVE  FF!IInv'
<1> DEFINE place == file.offset
           bytes == FF!AtMost(place, n)
           is(done, busy, result) == [kind |-> "read", busy |-> busy, start |-> place, data |-> <<>>,
                                      want |-> n, done |-> done, result |-> result]
<1>1. n \in Nat /\ place \in Nat /\ content \in Seq(FF!Bytes) /\ file \in FF!Files /\ file.is
  BY DEF FF!FsFileAssumption, FF!IInv, FF!TypeOK, FF!Files, FF!fsdev_read
<1>2. exists' \in BOOLEAN /\ content' = content /\ writes' \in Nat
  BY DEF FF!fsdev_read, FF!IInv, FF!TypeOK
<1>3. \/ call' = is(bytes, FALSE, Len(bytes)) /\ file' = [file EXCEPT !.offset = place + Len(bytes)]
      \/ call' = is(<<>>, FALSE, -1) /\ file' = file
      \/ call' = is(<<>>, TRUE, 0) /\ file' = file
  BY DEF FF!fsdev_read, FF!NoCall, FF!Failed, FF!Transferred
<1>4. /\ bytes \in Seq(FF!Bytes) /\ Len(bytes) \in Nat /\ Len(bytes) <= n
      /\ \A k \in 1..Len(bytes) : place + k <= Len(content) /\ content[place + k] = bytes[k]
  <2> HIDE DEF place
  <2>1. /\ bytes \in Seq(FF!Bytes) /\ Len(bytes) <= n
        /\ \A k \in 1..Len(bytes) : place + k <= Len(content) /\ bytes[k] = content[place + k]
    BY <1>1, AtMostIs
  <2> HIDE DEF bytes
  <2> QED BY <2>1
<1> HIDE DEF place, bytes
<1>5. <<>> \in Seq(FF!Bytes) /\ -1 \in Int
  OBVIOUS
<1>6. CASE call' = is(bytes, FALSE, Len(bytes)) /\ file' = [file EXCEPT !.offset = place + Len(bytes)]
  <2> DEFINE c == is(bytes, FALSE, Len(bytes))
  <2>1. c \in FF!Calls
    BY <1>1, <1>4, <1>5 DEF FF!Calls
  <2>2. /\ c.kind = "read" /\ c.busy = FALSE /\ c.start = place /\ c.want = n
        /\ c.done = bytes /\ c.result = Len(bytes)
    OBVIOUS
  <2>3. file' \in FF!Files /\ file'.is /\ file'.offset = place + Len(bytes)
    <3>1. place + Len(bytes) \in Nat
      BY <1>1, <1>4
    <3> QED BY <3>1, <1>1, <1>6 DEF FF!Files
  <2>4. call' = c
    BY <1>6
  <2> HIDE DEF c
  <2> QED BY <1>1, <1>2, <1>4, <2>1, <2>2, <2>3, <2>4, CallFits
<1>7. CASE call' = is(<<>>, FALSE, -1) /\ file' = file
  <2> DEFINE c == is(<<>>, FALSE, -1)
  <2>1. c \in FF!Calls
    BY <1>1, <1>5 DEF FF!Calls
  <2>2. /\ c.kind = "read" /\ c.busy = FALSE /\ c.start = place /\ c.want = n
        /\ c.done = <<>> /\ c.result = -1
    OBVIOUS
  <2>3. call' = c
    BY <1>7
  <2> HIDE DEF c
  <2> QED BY <1>1, <1>2, <1>7, <2>1, <2>2, <2>3, CallFits
<1>8. CASE call' = is(<<>>, TRUE, 0) /\ file' = file
  <2> DEFINE c == is(<<>>, TRUE, 0)
  <2>1. c \in FF!Calls
    BY <1>1, <1>5 DEF FF!Calls
  <2>2. /\ c.kind = "read" /\ c.busy = TRUE /\ c.start = place /\ c.want = n
        /\ c.done = <<>> /\ c.result = 0
    OBVIOUS
  <2>3. call' = c /\ file'.offset = place
    BY <1>8 DEF place
  <2> HIDE DEF c
  <2> QED BY <1>1, <1>2, <1>8, <2>1, <2>2, <2>3, CallFits
<1> QED BY <1>3, <1>6, <1>7, <1>8

-----------------------------------------------------------------------------
(* A call that goes on in pieces. *)
LEMMA Going ==
  ASSUME FF!FsFileAssumption, FF!IInv, call.busy
  PROVE  /\ call \in FF!Calls /\ file \in FF!Files /\ content \in Seq(FF!Bytes) /\ exists \in BOOLEAN
         /\ writes \in Nat /\ file.is /\ call.kind # "none" /\ file.offset \in Nat
         /\ call.start \in Nat /\ call.want \in Nat /\ call.done \in Seq(FF!Bytes)
         /\ Len(call.done) \in Nat /\ Len(call.done) <= call.want
         /\ file.offset = call.start + Len(call.done)
         /\ \A k \in 1..Len(call.done) :
              call.start + k <= Len(content) /\ content[call.start + k] = call.done[k]
<1>1. FF!TypeOK /\ call.kind # "none" /\ file.is /\ FF!InPlace
  BY DEF FF!IInv
<1>2. call \in FF!Calls /\ file \in FF!Files /\ call.done \in Seq(FF!Bytes)
  BY <1>1 DEF FF!TypeOK, FF!Calls
<1> QED BY <1>1, <1>2 DEF FF!TypeOK, FF!Calls, FF!Files, FF!InPlace

(* It ends, after some pieces or none. *)
LEMMA CallEnds ==
  ASSUME FF!FsFileAssumption, FF!IInv, call.busy, exists' = exists, content' = content, file' = file,
         writes' = writes,
         call' = FF!Transferred(call) \/ (Len(call.done) = 0 /\ call' = FF!Failed(call))
  PROVE  FF!IInv'
<1> DEFINE result == IF call' = FF!Transferred(call) THEN Len(call.done) ELSE -1
           c == [call EXCEPT !.busy = FALSE, !.result = result]
<1>1. call' = c
  BY DEF FF!Transferred, FF!Failed
<1>2. /\ c.kind = call.kind /\ c.busy = FALSE /\ c.start = call.start /\ c.data = call.data
      /\ c.want = call.want /\ c.done = call.done /\ c.result = result /\ c \in FF!Calls
  <2>1. result \in Int
    BY Going
  <2> HIDE DEF result
  <2> QED BY <2>1, Going DEF FF!Calls
<1>3. result = Len(call.done) \/ (result = -1 /\ call.done = <<>>)
  BY Going
<1>4. call.kind = "write" =>
        Len(call.data) = call.want /\ \A k \in 1..Len(call.done) : call.data[k] = call.done[k]
  BY Going DEF FF!IInv, FF!OfData
<1> HIDE DEF c, result
<1> QED BY <1>1, <1>2, <1>3, <1>4, Going, CallFits

(* Another piece, which is where the position is. *)
LEMMA PieceFits ==
  ASSUME FF!FsFileAssumption, FF!IInv, call.busy, NEW piece \in Seq(FF!Bytes), content' \in Seq(FF!Bytes),
         Len(call.done) + Len(piece) <= call.want,
         \A k \in 1..Len(call.done) :
           call.start + k <= Len(content') /\ content'[call.start + k] = call.done[k],
         \A k \in 1..Len(piece) :
           file.offset + k <= Len(content') /\ content'[file.offset + k] = piece[k],
         call.kind = "write" => \A k \in 1..Len(piece) : call.data[Len(call.done) + k] = piece[k],
         exists' = exists, writes' = writes,
         file' = [file EXCEPT !.offset = file.offset + Len(piece)],
         call' = [call EXCEPT !.done = call.done \o piece]
  PROVE  FF!IInv'
<1> DEFINE done == call.done \o piece
           c == [call EXCEPT !.done = done]
           before == Len(call.done)
<1>1. Len(piece) \in Nat /\ before \in Nat /\ call.done \in Seq(FF!Bytes)
  BY Going
<1>2. /\ done \in Seq(FF!Bytes) /\ Len(done) = before + Len(piece)
      /\ \A k \in 1..before : done[k] = call.done[k]
      /\ \A k \in 1..Len(piece) : done[before + k] = piece[k]
  BY <1>1
<1>3. \A k \in 1..Len(done) :
        (k \in 1..before) \/ (k - before \in 1..Len(piece) /\ k = before + (k - before))
  BY <1>1, <1>2
<1> HIDE DEF done
<1>4. /\ c.kind = call.kind /\ c.busy = TRUE /\ c.start = call.start /\ c.data = call.data
      /\ c.want = call.want /\ c.done = done /\ c \in FF!Calls
  BY <1>2, Going DEF FF!Calls
<1>5. call' = c
  BY DEF done
<1> HIDE DEF c
<1>6. file' \in FF!Files /\ file'.is /\ file'.offset = call.start + Len(done)
  <2>0. /\ file.offset \in Nat /\ call.start \in Nat /\ file.offset = call.start + before
        /\ Len(done) = before + Len(piece)
    BY <1>2, Going
  <2>1. file.offset + Len(piece) \in Nat /\ file.offset + Len(piece) = call.start + Len(done)
    <3> HIDE DEF before
    <3> QED BY ONLY <1>1, <2>0
  <2> QED BY <2>1, Going DEF FF!Files
<1>7. \A k \in 1..Len(done) : call.start + k <= Len(content') /\ content'[call.start + k] = done[k]
  <2> SUFFICES ASSUME NEW k \in 1..Len(done)
               PROVE  call.start + k <= Len(content') /\ content'[call.start + k] = done[k]
    OBVIOUS
  <2>1. CASE k \in 1..before
    BY <2>1, <1>2
  <2>2. CASE k - before \in 1..Len(piece)
    <3> DEFINE i == k - before
    <3>1. k = before + i /\ call.start + k = file.offset + i
      BY <1>1, <1>2, Going
    <3>2. file.offset + i <= Len(content') /\ content'[file.offset + i] = piece[i]
      BY <2>2
    <3>3. done[before + i] = piece[i]
      BY <2>2, <1>2
    <3> HIDE DEF i
    <3> QED BY <3>1, <3>2, <3>3
  <2> QED BY <2>1, <2>2, <1>3
<1>8. c.kind = "write" =>
        Len(c.data) = c.want /\ \A k \in 1..Len(done) : c.data[k] = done[k]
  <2> SUFFICES ASSUME call.kind = "write"
               PROVE  Len(call.data) = call.want /\ \A k \in 1..Len(done) : call.data[k] = done[k]
    BY <1>4
  <2>1. Len(call.data) = call.want /\ \A k \in 1..before : call.data[k] = call.done[k]
    BY Going DEF FF!IInv, FF!OfData
  <2> SUFFICES ASSUME NEW k \in 1..Len(done) PROVE call.data[k] = done[k]
    BY <2>1
  <2>2. CASE k \in 1..before
    BY <2>1, <2>2, <1>2
  <2>3. CASE k - before \in 1..Len(piece)
    <3> DEFINE i == k - before
    <3>1. k = before + i
      BY <1>1, <1>2
    <3>2. call.data[before + i] = piece[i] /\ done[before + i] = piece[i]
      BY <2>3, <1>2
    <3> HIDE DEF i
    <3> QED BY <3>1, <3>2
  <2> QED BY <2>2, <2>3, <1>3
<1>9. Len(done) <= call.want
  BY <1>2
<1>10. /\ call.kind # "none" /\ exists' \in BOOLEAN /\ writes' \in Nat
  BY Going
<1>11. /\ Len(c.done) <= c.want /\ file'.offset = c.start + Len(c.done)
       /\ \A k \in 1..Len(c.done) : c.start + k <= Len(content') /\ content'[c.start + k] = c.done[k]
       /\ c.kind = "write" =>
            Len(c.data) = c.want /\ \A k \in 1..Len(c.done) : c.data[k] = c.done[k]
  BY <1>4, <1>6, <1>7, <1>8, <1>9
<1> QED BY <1>4, <1>5, <1>6, <1>10, <1>11, CallFits

LEMMA FileWritePiece == ASSUME FF!FsFileAssumption, FF!IInv, FF!WritePiece PROVE FF!IInv'
<1> DEFINE done == Len(call.done)
           n == FF!Least(call.want - done, Piece)
           piece == SubSeq(call.data, done + 1, done + n)
<1>1. call.busy /\ call.kind = "write" /\ done < call.want
  BY DEF FF!WritePiece
<1>2. call.data \in Seq(FF!Bytes) /\ Len(call.data) = call.want
  BY <1>1 DEF FF!IInv, FF!TypeOK, FF!Calls, FF!OfData
<1>3. n \in Nat /\ done \in Nat /\ done + n <= call.want
  BY <1>1, Going DEF FF!Least, FF!FsFileAssumption
<1> HIDE DEF n
<1>4. /\ piece \in Seq(FF!Bytes) /\ Len(piece) = n
      /\ \A k \in 1..n : piece[k] = call.data[done + k]
  BY <1>2, <1>3
<1>5. \/ /\ content' = FF!Written(file.offset, piece)
         /\ file' = [file EXCEPT !.offset = file.offset + n]
         /\ call' = [call EXCEPT !.done = call.done \o piece]
      \/ /\ call' = IF done > 0 THEN FF!Transferred(call) ELSE FF!Failed(call)
         /\ file' = file /\ content' = content
  BY DEF FF!WritePiece, n
<1>6. exists' = exists /\ writes' = writes
  BY DEF FF!WritePiece
<1> HIDE DEF piece
<1>7. CASE /\ content' = FF!Written(file.offset, piece)
           /\ file' = [file EXCEPT !.offset = file.offset + n]
           /\ call' = [call EXCEPT !.done = call.done \o piece]
  <2>1. /\ content' \in Seq(FF!Bytes) /\ Len(content) <= Len(content')
        /\ file.offset + n <= Len(content')
        /\ \A k \in 1..n : content'[file.offset + k] = piece[k]
        /\ \A i \in 1..Len(content) : i <= file.offset => content'[i] = content[i]
    <3>1. file.offset \in Nat /\ content \in Seq(FF!Bytes)
      BY <1>1, Going
    <3> DEFINE w == FF!Written(file.offset, piece)
    <3>2. /\ w \in Seq(FF!Bytes) /\ file.offset + Len(piece) <= Len(w) /\ Len(content) <= Len(w)
          /\ \A k \in 1..Len(piece) : w[file.offset + k] = piece[k]
          /\ \A i \in 1..Len(content) : i <= file.offset => w[i] = content[i]
      BY <1>4, <3>1, WrittenIs
    <3>3. content' = w
      BY <1>7
    <3> HIDE DEF w
    <3> QED BY <1>4, <3>2, <3>3
  <2>2. \A k \in 1..done :
          call.start + k <= Len(content') /\ content'[call.start + k] = call.done[k]
    <3> SUFFICES ASSUME NEW k \in 1..done
                 PROVE  call.start + k <= Len(content') /\ content'[call.start + k] = call.done[k]
      OBVIOUS
    <3>1. call.start + k \in 1..Len(content) /\ call.start + k <= file.offset
          /\ content[call.start + k] = call.done[k]
      BY <1>1, Going
    <3>2. Len(content) \in Nat /\ Len(content') \in Nat
      BY <2>1, <1>1, Going
    <3> QED BY <2>1, <3>1, <3>2
  <2>3. \A k \in 1..n : file.offset + k <= Len(content')
    BY <2>1, <1>1, <1>3, Going
  <2> QED BY <1>1, <1>3, <1>4, <1>6, <1>7, <2>1, <2>2, <2>3, PieceFits
<1>8. CASE /\ call' = IF done > 0 THEN FF!Transferred(call) ELSE FF!Failed(call)
           /\ file' = file /\ content' = content
  BY <1>1, <1>3, <1>6, <1>8, CallEnds
<1> QED BY <1>5, <1>7, <1>8

LEMMA FileReadPiece == ASSUME FF!FsFileAssumption, FF!IInv, FF!ReadPiece PROVE FF!IInv'
<1> DEFINE done == Len(call.done)
           n == FF!Least(call.want - done, Piece)
           bytes == FF!AtMost(file.offset, n)
<1>1. call.busy /\ call.kind = "read" /\ done < call.want
  BY DEF FF!ReadPiece
<1>2. n \in Nat /\ done \in Nat /\ done + n <= call.want
  BY <1>1, Going DEF FF!Least, FF!FsFileAssumption
<1>3. \/ /\ file' = [file EXCEPT !.offset = file.offset + Len(bytes)]
         /\ call' = [call EXCEPT !.done = call.done \o bytes]
      \/ /\ call' = IF done > 0 THEN FF!Transferred(call) ELSE FF!Failed(call)
         /\ file' = file
  BY DEF FF!ReadPiece
<1>4. exists' = exists /\ writes' = writes /\ content' = content
  BY DEF FF!ReadPiece
<1> HIDE DEF n
<1>5. /\ bytes \in Seq(FF!Bytes) /\ Len(bytes) \in Nat /\ Len(bytes) <= n
      /\ \A k \in 1..Len(bytes) :
           file.offset + k <= Len(content) /\ content[file.offset + k] = bytes[k]
  <2>1. file.offset \in Nat /\ content \in Seq(FF!Bytes)
    BY <1>1, Going
  <2>2. /\ bytes \in Seq(FF!Bytes) /\ Len(bytes) <= n
        /\ \A k \in 1..Len(bytes) :
             file.offset + k <= Len(content) /\ bytes[k] = content[file.offset + k]
    BY <1>2, <2>1, AtMostIs
  <2> HIDE DEF bytes
  <2> QED BY <2>2
<1> HIDE DEF bytes
<1>6. CASE /\ file' = [file EXCEPT !.offset = file.offset + Len(bytes)]
           /\ call' = [call EXCEPT !.done = call.done \o bytes]
  <2>1. done + Len(bytes) <= call.want
    BY <1>1, <1>2, <1>5, Going
  <2> QED BY <1>1, <1>4, <1>5, <1>6, <2>1, Going, PieceFits
<1>7. CASE /\ call' = IF done > 0 THEN FF!Transferred(call) ELSE FF!Failed(call)
           /\ file' = file
  BY <1>1, <1>2, <1>4, <1>7, CallEnds
<1> QED BY <1>3, <1>6, <1>7

LEMMA FileStep ==
  ASSUME FF!FsFileAssumption, FF!IInv, FF!Next PROVE FF!IInv'
<1>1. ASSUME NEW mode \in FF!Modes, NEW append \in BOOLEAN, NEW creat \in BOOLEAN,
             NEW excl \in BOOLEAN, NEW trunc \in BOOLEAN, FF!fsdev_open(mode, append, creat, excl, trunc)
      PROVE  FF!IInv'
  BY <1>1, FileOpen
<1>2. CASE FF!fsdev_close
  BY <1>2, NoCallFits DEF FF!fsdev_close, FF!NoFile, FF!Files, FF!Modes, FF!IInv, FF!TypeOK
<1>3. ASSUME NEW n \in Lengths, FF!fsdev_write(n) \/ FF!fsdev_read(n)
      PROVE  FF!IInv'
  BY <1>3, FileWrite, FileRead
<1>4. CASE FF!LastPiece
  BY <1>4, CallEnds DEF FF!LastPiece
<1>5. ASSUME NEW pos \in {-1, 0, 1}, NEW whence \in {"set", "cur", "end"}, FF!fsdev_seek(pos, whence)
      PROVE  FF!IInv'
  BY <1>5, FileSeek
<1>6. ASSUME NEW n \in 0..MaxSize, FF!fsdev_ftruncate(n)
      PROVE  FF!IInv'
  BY <1>6, FileTruncate
<1> QED BY <1>1, <1>2, <1>3, <1>4, <1>5, <1>6, FileWritePiece, FileReadPiece DEF FF!Next

LEMMA FileRests ==
  ASSUME FF!IInv, UNCHANGED ffVars PROVE FF!IInv'
BY DEF ffVars, FF!IInv, FF!TypeOK, FF!InPlace, FF!OfData, FF!Answered

(* What a call returns is what it moved, for pieces of every size.         *)
LEMMA FileExact ==
  ASSUME FF!FsFileAssumption, FF!IInv PROVE FF!TransferExact
<1> SUFFICES ASSUME ~call.busy, call.kind # "none", call.result # -1
             PROVE  /\ call.result = Len(call.done) /\ call.result <= call.want
                    /\ file.offset = call.start + call.result
                    /\ FF!AtMost(call.start, call.result) = call.done
                    /\ call.kind = "write" => call.done = SubSeq(call.data, 1, call.result)
  BY DEF FF!TransferExact, FF!IInv, FF!Answered
<1>1. FF!TypeOK /\ FF!InPlace /\ FF!OfData /\ FF!Answered
  BY DEF FF!IInv
<1>2. /\ call.start \in Nat /\ call.done \in Seq(FF!Bytes) /\ call.data \in Seq(FF!Bytes)
      /\ call.want \in Nat /\ content \in Seq(FF!Bytes)
  BY <1>1 DEF FF!TypeOK, FF!Calls
<1>3. call.result = Len(call.done) /\ Len(call.done) \in Nat
  BY <1>1, <1>2 DEF FF!Answered
<1>4. /\ Len(call.done) <= call.want /\ file.offset = call.start + Len(call.done)
      /\ \A k \in 1..Len(call.done) :
           call.start + k <= Len(content) /\ content[call.start + k] = call.done[k]
  BY <1>1 DEF FF!InPlace
<1> DEFINE moved == FF!AtMost(call.start, Len(call.done))
<1>5. /\ moved \in Seq(FF!Bytes) /\ Len(moved) <= Len(call.done)
      /\ \A k \in 1..Len(moved) : moved[k] = content[call.start + k]
      /\ call.start + Len(call.done) <= Len(content) => Len(moved) = Len(call.done)
      /\ Len(call.done) = 0 => moved = <<>>
  BY <1>2, <1>3, AtMostIs
<1> HIDE DEF moved
<1>6. Len(moved) = Len(call.done)
  <2>1. CASE Len(call.done) = 0
    BY <2>1, <1>5
  <2>2. CASE Len(call.done) # 0
    <3>1. Len(call.done) \in 1..Len(call.done)
      BY <2>2, <1>3
    <3> QED BY <3>1, <1>4, <1>5
  <2> QED BY <2>1, <2>2
<1>7. moved = call.done
  <2>1. \A k \in 1..Len(call.done) : moved[k] = call.done[k]
    BY <1>4, <1>5, <1>6
  <2> QED BY <2>1, <1>2, <1>5, <1>6, SeqEqual
<1>8. ASSUME call.kind = "write" PROVE call.done = SubSeq(call.data, 1, Len(call.done))
  <2>1. Len(call.data) = call.want /\ \A k \in 1..Len(call.done) : call.data[k] = call.done[k]
    BY <1>1, <1>8 DEF FF!OfData
  <2> DEFINE passed == SubSeq(call.data, 1, Len(call.done))
  <2>2. /\ passed \in Seq(FF!Bytes) /\ Len(passed) = Len(call.done)
        /\ \A k \in 1..Len(call.done) : passed[k] = call.data[k]
    BY <1>2, <1>3, <1>4, <2>1
  <2> HIDE DEF passed
  <2>3. passed = call.done
    BY <1>2, <2>1, <2>2, SeqEqual
  <2> QED BY <2>3 DEF passed
<1> QED BY <1>3, <1>4, <1>7, <1>8 DEF moved

-----------------------------------------------------------------------------
(* The lists of the audio driver, which are threaded through arrays: q is   *)
(* the list that begins at from, n long, with nx leading from one to the   *)
(* next, and end after the last.  It holds all of ids, each once.          *)
Chain(from, nx, ids, n, end, q) ==
  /\ q \in [0..n -> ids \cup {end}] /\ q[0] = from /\ q[n] = end
  /\ \A k \in 0..n - 1 : q[k] \in ids /\ q[k + 1] = nx[q[k]]
  /\ \A i, j \in 0..n - 1 : q[i] = q[j] => i = j
  /\ \A x \in ids : \E k \in 0..n - 1 : q[k] = x

IsChain(from, nx, ids, n, end) == n \in Nat /\ end \notin ids /\ \E q : Chain(from, nx, ids, n, end, q)

LEMMA ChainCounts ==
  ASSUME NEW from, NEW nx, NEW ids, NEW n, NEW end, IsChain(from, nx, ids, n, end)
  PROVE  IsFiniteSet(ids) /\ Cardinality(ids) = n
<1>1. PICK q : Chain(from, nx, ids, n, end, q)
  BY DEF IsChain
<1>2. n \in Nat
  BY DEF IsChain
<1> DEFINE f == [i \in 1..n |-> q[i - 1]]
<1>3. \A i \in 1..n : f[i] = q[i - 1] /\ i - 1 \in 0..n - 1
  BY <1>2
<1>4. f \in [1..n -> ids]
  BY <1>1, <1>3 DEF Chain
<1>5. \A i, j \in 1..n : f[i] = f[j] => i = j
  <2> SUFFICES ASSUME NEW i \in 1..n, NEW j \in 1..n, f[i] = f[j] PROVE i = j
    OBVIOUS
  <2>1. q[i - 1] = q[j - 1] /\ i - 1 \in 0..n - 1 /\ j - 1 \in 0..n - 1
    BY <1>3
  <2>2. i - 1 = j - 1
    BY <1>1, <2>1 DEF Chain
  <2> QED BY <1>2, <2>2
<1>6. \A x \in ids : \E i \in 1..n : f[i] = x
  <2> SUFFICES ASSUME NEW x \in ids PROVE \E i \in 1..n : f[i] = x
    OBVIOUS
  <2>1. PICK k \in 0..n - 1 : q[k] = x
    BY <1>1 DEF Chain
  <2>2. k + 1 \in 1..n /\ (k + 1) - 1 = k
    BY <1>2
  <2> QED BY <1>3, <2>1, <2>2
<1> HIDE DEF f
<1>7. f \in Bijection(1..n, ids)
  BY <1>4, <1>5, <1>6 DEF Bijection, Injection, Surjection, IsInjective
<1>8. ExistsBijection(1..n, ids)
  BY <1>7 DEF ExistsBijection
<1>9. IsFiniteSet(1..n) /\ Cardinality(1..n) = n
  BY <1>2, FS_Interval
<1> QED BY <1>8, <1>9, FS_Bijection

(* The first m taken away. *)
Without(rest, ids, q, m) ==
  rest \subseteq ids /\ \A x \in ids : x \in rest <=> \A k \in 0..m - 1 : q[k] # x
Later(p, q, m, n) == \A k \in 0..n - m : p[k] = q[k + m]

LEMMA ChainTake ==
  ASSUME NEW from, NEW nx, NEW ids, NEW n \in Nat, NEW end, end \notin ids, NEW q,
         Chain(from, nx, ids, n, end, q), NEW m \in 0..n,
         NEW rest, Without(rest, ids, q, m)
  PROVE  \E p : Chain(q[m], nx, rest, n - m, end, p) /\ Later(p, q, m, n)
<1>0. rest \subseteq ids /\ \A x \in ids : x \in rest <=> \A k \in 0..m - 1 : q[k] # x
  BY DEF Without
<1> DEFINE p == [k \in 0..n - m |-> q[k + m]]
<1>1. \A k \in 0..n - m : p[k] = q[k + m] /\ k + m \in 0..n
  OBVIOUS
<1>2. \A k \in 0..n - m - 1 : k + m \in 0..n - 1 /\ k \in 0..n - m /\ k + 1 \in 0..n - m
  OBVIOUS
<1>3. \A k \in 0..n - m - 1 : p[k] \in rest
  <2> SUFFICES ASSUME NEW k \in 0..n - m - 1, NEW j \in 0..m - 1, q[k + m] = q[j] PROVE FALSE
    <3> SUFFICES ASSUME NEW k \in 0..n - m - 1 PROVE q[k + m] \in rest
      BY <1>1, <1>2
    <3>1. q[k + m] \in ids
      BY <1>2 DEF Chain
    <3> QED BY <1>0, <3>1
  <2>1. j \in 0..n - 1 /\ k + m \in 0..n - 1 /\ j # k + m
    OBVIOUS
  <2> QED BY <2>1 DEF Chain
<1>4. \A k \in 0..n - m - 1 : p[k + 1] = nx[p[k]]
  <2> SUFFICES ASSUME NEW k \in 0..n - m - 1 PROVE p[k + 1] = nx[p[k]]
    OBVIOUS
  <2>1. p[k] = q[k + m] /\ p[k + 1] = q[(k + 1) + m] /\ (k + 1) + m = (k + m) + 1 /\ k + m \in 0..n - 1
    BY <1>1, <1>2
  <2>2. q[(k + m) + 1] = nx[q[k + m]]
    BY <2>1 DEF Chain
  <2> QED BY <2>1, <2>2
<1>5. p[0] = q[m] /\ p[n - m] = end
  <2>1. 0 \in 0..n - m /\ n - m \in 0..n - m /\ 0 + m = m /\ (n - m) + m = n
    OBVIOUS
  <2> QED BY <1>1, <2>1 DEF Chain
<1>6. \A i, j \in 0..n - m - 1 : p[i] = p[j] => i = j
  <2> SUFFICES ASSUME NEW i \in 0..n - m - 1, NEW j \in 0..n - m - 1, p[i] = p[j] PROVE i = j
    OBVIOUS
  <2>1. q[i + m] = q[j + m] /\ i + m \in 0..n - 1 /\ j + m \in 0..n - 1
    BY <1>1, <1>2
  <2>2. i + m = j + m
    BY <2>1 DEF Chain
  <2> QED BY <2>2
<1>7. \A x \in rest : \E k \in 0..n - m - 1 : p[k] = x
  <2> SUFFICES ASSUME NEW x \in rest PROVE \E k \in 0..n - m - 1 : p[k] = x
    OBVIOUS
  <2>1. PICK k \in 0..n - 1 : q[k] = x
    BY <1>0 DEF Chain
  <2>2. k \notin 0..m - 1
    BY <1>0, <2>1
  <2>3. k - m \in 0..n - m - 1 /\ k - m \in 0..n - m /\ (k - m) + m = k
    BY <2>2
  <2> QED BY <1>1, <2>1, <2>3
<1>8. \A k \in 0..n - m : p[k] \in rest \cup {end}
  <2> SUFFICES ASSUME NEW k \in 0..n - m PROVE p[k] \in rest \cup {end}
    OBVIOUS
  <2>1. k \in 0..n - m - 1 \/ k = n - m
    OBVIOUS
  <2> QED BY <1>3, <1>5, <2>1
<1>9. p \in [0..n - m -> rest \cup {end}]
  <2>1. p = [k \in 0..n - m |-> p[k]]
    OBVIOUS
  <2> HIDE DEF p
  <2> QED BY <1>8, <2>1
<1> HIDE DEF p
<1>10. Chain(q[m], nx, rest, n - m, end, p)
  BY <1>3, <1>4, <1>5, <1>6, <1>7, <1>9 DEF Chain
<1> QED BY <1>1, <1>10 DEF Later

(* l more put before it, those of s. *)
Puts(ny, nx, ids, from, s, l, more, ahead) ==
  /\ ids \cap more = {} /\ ahead = IF l = 0 THEN from ELSE s[0]
  /\ \A k \in 0..l - 1 : s[k] \in more
  /\ \A i, j \in 0..l - 1 : s[i] = s[j] => i = j
  /\ \A x \in more : \E k \in 0..l - 1 : s[k] = x
  /\ \A x \in ids : ny[x] = nx[x]
  /\ \A k \in 0..l - 1 : ny[s[k]] = IF k = l - 1 THEN from ELSE s[k + 1]
Joined(p, s, l, q, n) == \A k \in 0..n + l : p[k] = IF k < l THEN s[k] ELSE q[k - l]

LEMMA ChainPut ==
  ASSUME NEW from, NEW nx, NEW ids, NEW n \in Nat, NEW end, NEW q, Chain(from, nx, ids, n, end, q),
         NEW ny, NEW more, NEW l \in Nat, NEW s, NEW ahead, end \notin ids \cup more,
         Puts(ny, nx, ids, from, s, l, more, ahead)
  PROVE  \E p : Chain(ahead, ny, ids \cup more, n + l, end, p) /\ Joined(p, s, l, q, n)
<1>0. /\ ids \cap more = {} /\ ahead = IF l = 0 THEN from ELSE s[0]
      /\ \A k \in 0..l - 1 : s[k] \in more
      /\ \A i, j \in 0..l - 1 : s[i] = s[j] => i = j
      /\ \A x \in more : \E k \in 0..l - 1 : s[k] = x
      /\ \A x \in ids : ny[x] = nx[x]
      /\ \A k \in 0..l - 1 : ny[s[k]] = IF k = l - 1 THEN from ELSE s[k + 1]
  BY DEF Puts
<1> DEFINE p == [k \in 0..n + l |-> IF k < l THEN s[k] ELSE q[k - l]]
<1>1. /\ \A k \in 0..l - 1 : p[k] = s[k]
      /\ \A k \in l..n + l : p[k] = q[k - l] /\ k - l \in 0..n
  OBVIOUS
<1>2. p = [k \in 0..n + l |-> p[k]]
  OBVIOUS
<1> HIDE DEF p
<1>3. /\ \A k \in 0..n + l - 1 : k \in 0..l - 1 \/ (k \in l..n + l - 1 /\ k \in l..n + l /\ k - l \in 0..n - 1)
      /\ 0 \in 0..n + l /\ n + l \in l..n + l /\ (n + l) - l = n
  OBVIOUS
<1>4. q[0] = from /\ q[n] = end
  BY DEF Chain
<1>5. p[0] = IF l = 0 THEN from ELSE s[0]
  <2>1. CASE l = 0
    <3>1. 0 \in l..n + l /\ 0 - l = 0
      BY <2>1
    <3> QED BY <1>1, <1>4, <2>1, <3>1
  <2>2. CASE l # 0
    <3>1. 0 \in 0..l - 1
      BY <2>2
    <3> QED BY <1>1, <2>2, <3>1
  <2> QED BY <2>1, <2>2
<1>6. p[n + l] = end
  BY <1>1, <1>3, <1>4
<1>7. \A k \in 0..n + l - 1 : p[k] \in ids \cup more /\ p[k + 1] = ny[p[k]]
  <2> SUFFICES ASSUME NEW k \in 0..n + l - 1 PROVE p[k] \in ids \cup more /\ p[k + 1] = ny[p[k]]
    OBVIOUS
  <2>1. CASE k \in 0..l - 1 /\ k # l - 1
    <3>1. k + 1 \in 0..l - 1
      BY <2>1
    <3> QED BY <1>0, <1>1, <2>1, <3>1
  <2>2. CASE k = l - 1
    <3>1. k \in 0..l - 1 /\ k + 1 \in l..n + l /\ (k + 1) - l = 0
      BY <2>2
    <3> QED BY <1>0, <1>1, <1>4, <2>2, <3>1
  <2>3. CASE k \in l..n + l - 1
    <3>1. k - l \in 0..n - 1 /\ k \in l..n + l /\ k + 1 \in l..n + l /\ (k + 1) - l = (k - l) + 1
      BY <2>3
    <3>2. q[k - l] \in ids /\ q[(k - l) + 1] = nx[q[k - l]]
      BY <3>1 DEF Chain
    <3> QED BY <1>0, <1>1, <3>1, <3>2
  <2> QED BY <1>3, <2>1, <2>2, <2>3
<1>8. \A i, j \in 0..n + l - 1 : p[i] = p[j] => i = j
  <2> SUFFICES ASSUME NEW i \in 0..n + l - 1, NEW j \in 0..n + l - 1, p[i] = p[j] PROVE i = j
    OBVIOUS
  <2>1. \A k \in 0..l - 1 : p[k] \in more
    BY <1>0, <1>1
  <2>2. \A k \in l..n + l - 1 : p[k] \in ids /\ p[k] = q[k - l] /\ k - l \in 0..n - 1
    <3>1. \A k \in 0..n - 1 : q[k] \in ids
      BY DEF Chain
    <3> QED BY <1>1, <3>1
  <2>3. CASE i \in 0..l - 1 /\ j \in 0..l - 1
    BY <1>0, <1>1, <2>3
  <2>4. CASE i \in l..n + l - 1 /\ j \in l..n + l - 1
    <3>1. q[i - l] = q[j - l] /\ i - l \in 0..n - 1 /\ j - l \in 0..n - 1
      BY <2>2, <2>4
    <3>2. i - l = j - l
      BY <3>1 DEF Chain
    <3> QED BY <2>4, <3>2
  <2>5. (i \in 0..l - 1 \/ i \in l..n + l - 1) /\ (j \in 0..l - 1 \/ j \in l..n + l - 1)
    OBVIOUS
  <2> QED BY <1>0, <2>1, <2>2, <2>3, <2>4, <2>5
<1>9. \A x \in ids \cup more : \E k \in 0..n + l - 1 : p[k] = x
  <2> SUFFICES ASSUME NEW x \in ids \cup more PROVE \E k \in 0..n + l - 1 : p[k] = x
    OBVIOUS
  <2>1. CASE x \in more
    <3>1. PICK k \in 0..l - 1 : s[k] = x
      BY <1>0, <2>1
    <3>2. k \in 0..n + l - 1
      OBVIOUS
    <3> QED BY <1>1, <3>1, <3>2
  <2>2. CASE x \in ids
    <3>1. PICK k \in 0..n - 1 : q[k] = x
      BY <2>2 DEF Chain
    <3>2. k + l \in 0..n + l - 1 /\ k + l \in l..n + l /\ (k + l) - l = k
      OBVIOUS
    <3> QED BY <1>1, <3>1, <3>2
  <2> QED BY <2>1, <2>2
<1>10. p \in [0..n + l -> (ids \cup more) \cup {end}]
  <2>1. \A k \in 0..n + l : k \in 0..n + l - 1 \/ k = n + l
    OBVIOUS
  <2>2. \A k \in 0..n + l : p[k] \in (ids \cup more) \cup {end}
    BY <1>6, <1>7, <2>1
  <2> QED BY <1>2, <2>2
<1>11. n + l \in Nat
  OBVIOUS
<1>12. Chain(ahead, ny, ids \cup more, n + l, end, p)
  BY <1>0, <1>5, <1>6, <1>7, <1>8, <1>9, <1>10 DEF Chain
<1>13. \A k \in 0..n + l : p[k] = IF k < l THEN s[k] ELSE q[k - l]
  BY DEF p
<1> QED BY <1>12, <1>13 DEF Joined

(* The one at place j taken out. *)
Skips(ny, nx, q, n, j, from, ahead) ==
  /\ j = 0 => ahead = nx[q[0]]
  /\ j # 0 => ahead = from
  /\ \A k \in 0..n - 1 : k # j => ny[q[k]] = IF k = j - 1 THEN nx[q[j]] ELSE nx[q[k]]
Skipped(p, q, n, j) == \A k \in 0..n - 1 : p[k] = IF k < j THEN q[k] ELSE q[k + 1]

LEMMA ChainSkip ==
  ASSUME NEW from, NEW nx, NEW ids, NEW n \in Nat, NEW end, end \notin ids, NEW q,
         Chain(from, nx, ids, n, end, q), NEW j \in 0..n - 1, NEW ny, NEW ahead,
         Skips(ny, nx, q, n, j, from, ahead)
  PROVE  \E p : Chain(ahead, ny, ids \ {q[j]}, n - 1, end, p) /\ Skipped(p, q, n, j)
<1>0. /\ j = 0 => ahead = nx[q[0]]
      /\ j # 0 => ahead = from
      /\ \A k \in 0..n - 1 : k # j => ny[q[k]] = IF k = j - 1 THEN nx[q[j]] ELSE nx[q[k]]
  BY DEF Skips
<1> DEFINE p == [k \in 0..n - 1 |-> IF k < j THEN q[k] ELSE q[k + 1]]
           rest == ids \ {q[j]}
           o(k) == IF k < j THEN k ELSE k + 1
<1>1. \A k \in 0..n - 1 : p[k] = q[o(k)] /\ o(k) \in 0..n /\ o(k) # j
  OBVIOUS
<1>2. p = [k \in 0..n - 1 |-> p[k]]
  OBVIOUS
<1>3. \A k \in 0..n - 2 : k \in 0..n - 1 /\ k + 1 \in 0..n - 1 /\ o(k) \in 0..n - 1
  OBVIOUS
<1>4. \A k, l \in 0..n - 2 : o(k) = o(l) => k = l
  OBVIOUS
<1>5. \A k \in 0..n - 1 : k # j => \E l \in 0..n - 2 : o(l) = k
  <2> SUFFICES ASSUME NEW k \in 0..n - 1, k # j PROVE \E l \in 0..n - 2 : o(l) = k
    OBVIOUS
  <2>1. CASE k < j
    <3>1. k \in 0..n - 2 /\ o(k) = k
      BY <2>1
    <3> QED BY <3>1
  <2>2. CASE k > j
    <3>1. k - 1 \in 0..n - 2 /\ o(k - 1) = k
      BY <2>2
    <3> QED BY <3>1
  <2> QED BY <2>1, <2>2
<1>6. \A k \in 0..n - 2 : o(k + 1) = IF k = j - 1 THEN j + 1 ELSE o(k) + 1
  OBVIOUS
<1>7. j + 1 \in 0..n /\ n - 1 \in 0..n - 1 /\ o(n - 1) = n /\ 0 \in 0..n - 1 /\ j \in 0..n - 1
  OBVIOUS
<1>8. o(0) = IF j = 0 THEN 1 ELSE 0
  OBVIOUS
<1> HIDE DEF p, o
<1>9. \A k \in 0..n - 2 : p[k] \in rest
  <2> SUFFICES ASSUME NEW k \in 0..n - 2 PROVE q[o(k)] \in ids /\ q[o(k)] # q[j]
    BY <1>1, <1>3
  <2> QED BY <1>1, <1>3, <1>7 DEF Chain
<1>10. \A k \in 0..n - 2 : p[k + 1] = ny[p[k]]
  <2> SUFFICES ASSUME NEW k \in 0..n - 2 PROVE q[o(k + 1)] = ny[q[o(k)]]
    BY <1>1, <1>3
  <2>1. o(k) \in 0..n - 1 /\ o(k) # j
    BY <1>1, <1>3
  <2>2. q[j + 1] = nx[q[j]] /\ q[o(k) + 1] = nx[q[o(k)]]
    BY <1>7, <2>1 DEF Chain
  <2>3. ny[q[o(k)]] = IF o(k) = j - 1 THEN nx[q[j]] ELSE nx[q[o(k)]]
    BY <1>0, <2>1
  <2>4. o(k) = j - 1 <=> k = j - 1
    BY DEF o
  <2> QED BY <1>6, <2>2, <2>3, <2>4
<1>11. p[0] = ahead /\ p[n - 1] = end
  <2>1. p[n - 1] = q[n] /\ p[0] = q[o(0)]
    BY <1>1, <1>7
  <2>2. q[n] = end /\ q[0] = from
    BY DEF Chain
  <2>3. CASE j = 0
    <3>1. q[0 + 1] = nx[q[0]]
      BY <2>3 DEF Chain
    <3> QED BY <1>0, <1>8, <2>1, <2>2, <2>3, <3>1
  <2>4. CASE j # 0
    BY <1>0, <1>8, <2>1, <2>2, <2>4
  <2> QED BY <2>3, <2>4
<1>12. \A k, l \in 0..n - 2 : p[k] = p[l] => k = l
  <2> SUFFICES ASSUME NEW k \in 0..n - 2, NEW l \in 0..n - 2, q[o(k)] = q[o(l)] PROVE k = l
    BY <1>1, <1>3
  <2>1. o(k) = o(l)
    BY <1>3 DEF Chain
  <2> QED BY <1>4, <2>1
<1>13. \A x \in rest : \E k \in 0..n - 2 : p[k] = x
  <2> SUFFICES ASSUME NEW x \in rest PROVE \E k \in 0..n - 2 : p[k] = x
    OBVIOUS
  <2>1. PICK k \in 0..n - 1 : q[k] = x
    BY DEF Chain
  <2>2. PICK l \in 0..n - 2 : o(l) = k
    BY <1>5, <2>1
  <2> QED BY <1>1, <1>3, <2>1, <2>2
<1>14. p \in [0..n - 1 -> rest \cup {end}]
  <2>1. \A k \in 0..n - 1 : k \in 0..n - 2 \/ k = n - 1
    OBVIOUS
  <2>2. \A k \in 0..n - 1 : p[k] \in rest \cup {end}
    BY <1>9, <1>11, <2>1
  <2> QED BY <1>2, <2>2
<1>15. (n - 1) - 1 = n - 2
  OBVIOUS
<1> HIDE DEF rest
<1>16. Chain(ahead, ny, rest, n - 1, end, p)
  BY <1>9, <1>10, <1>11, <1>12, <1>13, <1>14, <1>15 DEF Chain
<1>17. \A k \in 0..n - 1 : p[k] = IF k < j THEN q[k] ELSE q[k + 1]
  BY DEF p
<1> QED BY <1>16, <1>17 DEF rest, Skipped

(* One more after its last. *)
Appends(ny, nx, q, n, b, end, from, ahead) ==
  /\ ahead = (IF n = 0 THEN b ELSE from) /\ ny[b] = end
  /\ \A k \in 0..n - 1 : ny[q[k]] = IF k = n - 1 THEN b ELSE nx[q[k]]
Appended(p, q, n, b, end) == p[n] = b /\ p[n + 1] = end /\ \A k \in 0..n - 1 : p[k] = q[k]

LEMMA ChainAppend ==
  ASSUME NEW from, NEW nx, NEW ids, NEW n \in Nat, NEW end, NEW q, Chain(from, nx, ids, n, end, q),
         NEW b, b \notin ids, end \notin ids \cup {b}, NEW ny, NEW ahead,
         Appends(ny, nx, q, n, b, end, from, ahead)
  PROVE  \E p : Chain(ahead, ny, ids \cup {b}, n + 1, end, p) /\ Appended(p, q, n, b, end)
<1>0. /\ ahead = (IF n = 0 THEN b ELSE from) /\ ny[b] = end
      /\ \A k \in 0..n - 1 : ny[q[k]] = IF k = n - 1 THEN b ELSE nx[q[k]]
  BY DEF Appends
<1> DEFINE p == [k \in 0..n + 1 |-> IF k < n THEN q[k] ELSE IF k = n THEN b ELSE end]
<1>1. p = [k \in 0..n + 1 |-> p[k]] /\ p[n] = b /\ p[n + 1] = end /\ \A k \in 0..n - 1 : p[k] = q[k]
  OBVIOUS
<1> HIDE DEF p
<1>2. \A k \in 0..n : k \in 0..n - 1 \/ k = n
  OBVIOUS
<1>3. \A k \in 0..n + 1 : k \in 0..n \/ k = n + 1
  OBVIOUS
<1>4. \A k \in 0..n : p[k] \in ids \cup {b}
  <2>1. \A k \in 0..n - 1 : q[k] \in ids
    BY DEF Chain
  <2> QED BY <1>1, <1>2, <2>1
<1>5. \A k \in 0..n : p[k + 1] = ny[p[k]]
  <2> SUFFICES ASSUME NEW k \in 0..n PROVE p[k + 1] = ny[p[k]]
    OBVIOUS
  <2>1. CASE k = n
    BY <1>0, <1>1, <2>1
  <2>2. CASE k = n - 1
    <3>1. k \in 0..n - 1 /\ k + 1 = n
      BY <2>2
    <3> QED BY <1>0, <1>1, <2>2, <3>1
  <2>3. CASE k < n - 1
    <3>1. k \in 0..n - 1 /\ k + 1 \in 0..n - 1 /\ k # n - 1
      BY <2>3
    <3>2. q[k + 1] = nx[q[k]]
      BY <3>1 DEF Chain
    <3> QED BY <1>0, <1>1, <3>1, <3>2
  <2> QED BY <2>1, <2>2, <2>3
<1>6. \A i, j \in 0..n : p[i] = p[j] => i = j
  <2>1. \A k \in 0..n - 1 : q[k] \in ids
    BY DEF Chain
  <2>2. \A i, j \in 0..n - 1 : q[i] = q[j] => i = j
    BY DEF Chain
  <2> SUFFICES ASSUME NEW i \in 0..n, NEW j \in 0..n, p[i] = p[j] PROVE i = j
    OBVIOUS
  <2>3. CASE i \in 0..n - 1 /\ j \in 0..n - 1
    BY <1>1, <2>2, <2>3
  <2>4. i \in 0..n - 1 => p[i] # b
    BY <1>1, <2>1
  <2>5. j \in 0..n - 1 => p[j] # b
    BY <1>1, <2>1
  <2> QED BY <1>1, <1>2, <2>3, <2>4, <2>5
<1>7. \A x \in ids \cup {b} : \E k \in 0..n : p[k] = x
  <2> SUFFICES ASSUME NEW x \in ids \cup {b} PROVE \E k \in 0..n : p[k] = x
    OBVIOUS
  <2>1. CASE x = b
    BY <1>1, <2>1
  <2>2. CASE x \in ids
    <3>1. PICK k \in 0..n - 1 : q[k] = x
      BY <2>2 DEF Chain
    <3>2. k \in 0..n
      OBVIOUS
    <3> QED BY <1>1, <3>1, <3>2
  <2> QED BY <2>1, <2>2
<1>8. p[0] = ahead
  <2>1. CASE n = 0
    BY <1>0, <1>1, <2>1
  <2>2. CASE n # 0
    <3>1. 0 \in 0..n - 1 /\ q[0] = from
      BY <2>2 DEF Chain
    <3> QED BY <1>0, <1>1, <2>2, <3>1
  <2> QED BY <2>1, <2>2
<1>9. p \in [0..n + 1 -> (ids \cup {b}) \cup {end}]
  <2>1. \A k \in 0..n + 1 : p[k] \in (ids \cup {b}) \cup {end}
    BY <1>1, <1>3, <1>4
  <2> QED BY <1>1, <2>1
<1>10. (n + 1) - 1 = n
  OBVIOUS
<1>11. Chain(ahead, ny, ids \cup {b}, n + 1, end, p)
  BY <1>1, <1>4, <1>5, <1>6, <1>7, <1>8, <1>9, <1>10 DEF Chain
<1> QED BY <1>1, <1>11 DEF Appended

(* A walk along a list is the list, and then its end: two functions that   *)
(* go on alike from one place to the next are one.                         *)
SameSteps(f, g, most) == f[0] = g[0] /\ \A k \in 1..most : f[k - 1] = g[k - 1] => f[k] = g[k]

LEMMA SameWalk ==
  ASSUME NEW most \in Nat, NEW f, NEW g, SameSteps(f, g, most)
  PROVE  \A k \in 0..most : f[k] = g[k]
<1> DEFINE Not == {k \in 0..most : f[k] # g[k]}
<1>1. SUFFICES ASSUME Not # {} PROVE FALSE
  OBVIOUS
<1>2. Not \subseteq Nat /\ Not \subseteq 0..most
  OBVIOUS
<1> HIDE DEF Not
<1>3. PICK m \in Not : \A j \in Not : m <= j
  BY <1>1, <1>2, FsLeast
<1>4. m \in 0..most /\ f[m] # g[m]
  BY DEF Not
<1>5. m # 0
  BY <1>4 DEF SameSteps
<1>6. m \in 1..most /\ m - 1 \in 0..most /\ m - 1 \notin Not
  BY <1>2, <1>3, <1>4, <1>5
<1>7. f[m - 1] = g[m - 1]
  BY <1>6 DEF Not
<1> QED BY <1>4, <1>6, <1>7 DEF SameSteps

Walked(w, from, nx, ids, n, end, q, most) ==
  /\ w[0] = from /\ w[most] = end /\ w \in [0..most -> ids \cup {end}]
  /\ \A k \in 1..most : w[k] = IF w[k - 1] = end THEN end ELSE nx[w[k - 1]]
  /\ \A x \in ids : \E k \in 0..most : w[k] = x
  /\ \A k \in 0..most : w[k] = IF k <= n THEN q[k] ELSE end

LEMMA WalkedGoesOn ==
  ASSUME NEW from, NEW nx, NEW ids, NEW n \in Nat, NEW end, end \notin ids, NEW q,
         Chain(from, nx, ids, n, end, q), NEW most \in Nat, n <= most
  PROVE  \E w : Walked(w, from, nx, ids, n, end, q, most)
<1> DEFINE w == [k \in 0..most |-> IF k <= n THEN q[k] ELSE end]
<1>1. /\ \A k \in 0..n : w[k] = q[k] /\ k \in 0..most
      /\ \A k \in n..most : w[k] = end
      /\ w = [k \in 0..most |-> w[k]]
  BY DEF Chain
<1> HIDE DEF w
<1>2. /\ \A k \in 0..n : k \in 0..n - 1 \/ k = n
      /\ \A k \in 0..most : k \in 0..n - 1 \/ k \in n..most
      /\ \A k \in 0..n - 1 : k \in 0..n /\ k + 1 \in 0..n
      /\ n \in 0..n /\ 0 \in 0..n /\ most \in n..most
  OBVIOUS
<1>3. /\ \A k \in 0..n - 1 : q[k] \in ids /\ q[k + 1] = nx[q[k]]
      /\ q[0] = from /\ \A x \in ids : \E k \in 0..n - 1 : q[k] = x
  BY DEF Chain
<1>4. w[0] = from /\ w[most] = end
  BY <1>1, <1>2, <1>3
<1>5. \A k \in 0..most : w[k] \in ids \cup {end}
  BY <1>1, <1>2, <1>3
<1>6. w \in [0..most -> ids \cup {end}]
  BY <1>1, <1>5
<1>7. \A k \in 1..most : w[k] = IF w[k - 1] = end THEN end ELSE nx[w[k - 1]]
  <2> SUFFICES ASSUME NEW k \in 1..most PROVE w[k] = IF w[k - 1] = end THEN end ELSE nx[w[k - 1]]
    OBVIOUS
  <2>1. CASE k - 1 \in 0..n - 1
    <3>1. (k - 1) + 1 = k /\ k - 1 \in 0..n /\ k \in 0..n
      BY <2>1
    <3>2. w[k - 1] = q[k - 1] /\ w[k] = q[k]
      BY <1>1, <3>1
    <3>3. q[k - 1] \in ids /\ q[(k - 1) + 1] = nx[q[k - 1]]
      BY <1>3, <2>1
    <3> QED BY <3>1, <3>2, <3>3
  <2>2. CASE k - 1 \notin 0..n - 1
    <3>1. k \in n..most /\ k - 1 \in n..most
      BY <2>2
    <3> QED BY <1>1, <3>1
  <2> QED BY <2>1, <2>2
<1>8. \A x \in ids : \E k \in 0..most : w[k] = x
  BY <1>1, <1>2, <1>3
<1>9. \A k \in 0..most : w[k] = IF k <= n THEN q[k] ELSE end
  BY DEF w
<1> QED BY <1>4, <1>6, <1>7, <1>8, <1>9 DEF Walked

-----------------------------------------------------------------------------
(* AudioPools: the free numbers of pools and sinks are lists, the others    *)
(* are with the program, and the renderer has mapped what its state says.  *)
NoOne == -1

LEMMA NoOneIs == NoOne \in Int /\ NoOne < 0 /\ NoOne \notin Nat /\ NoOne = -1
BY DEF NoOne

FreeList(list, ids, all) ==
  /\ list = [first |-> list.first, next |-> list.next] /\ list.next \in [all -> Int]
  /\ ids \subseteq all
  /\ \E n \in Nat : \E q : Chain(list.first, list.next, ids, n, NoOne, q)

PoolsFit ==
  /\ P!TypeOK
  /\ FreeList(pools, P!Pools \ given.pool, P!Pools) /\ FreeList(sinks, P!Sinks \ given.sink, P!Sinks)
  /\ given = [pool |-> given.pool, mix |-> {}, sink |-> given.sink]
  /\ mixBuffers \in Int /\ mixBuffers <= 0
  /\ attached = {p \in P!Pools : poolState[p] \in {"Attached", "RequestDetach"}}
  /\ \A p \in P!Pools : p \in given.pool <=> poolState[p] # "Released"

LEMMA PoolLinked ==
  ASSUME NEW n \in Nat \ {0} PROVE FreeList(P!Linked(n), 0..n - 1, 0..n - 1)
<1> DEFINE list == P!Linked(n)
           q == [k \in 0..n |-> IF k = n THEN NoOne ELSE k]
<1>1. list = [first |-> list.first, next |-> list.next] /\ list.first = 0 /\ DOMAIN list.next = 0..n - 1
      /\ list.next = [i \in 0..n - 1 |-> list.next[i]]
      /\ \A i \in 0..n - 1 : list.next[i] = IF i # n - 1 THEN i + 1 ELSE NoOne
  BY NoOneIs DEF P!Linked
<1> HIDE DEF list
<1>2. list.next \in [0..n - 1 -> Int]
  BY <1>1, NoOneIs
<1>3. q \in [0..n -> (0..n - 1) \cup {NoOne}] /\ q[n] = NoOne /\ \A k \in 0..n - 1 : q[k] = k
  OBVIOUS
<1> HIDE DEF q
<1>4. \A k \in 0..n - 1 : q[k + 1] = list.next[q[k]]
  <2> SUFFICES ASSUME NEW k \in 0..n - 1 PROVE q[k + 1] = list.next[k]
    BY <1>3
  <2>1. CASE k = n - 1
    BY <1>1, <1>3, <2>1
  <2>2. CASE k # n - 1
    <3>1. k + 1 \in 0..n - 1
      BY <2>2
    <3> QED BY <1>1, <1>3, <2>2, <3>1
  <2> QED BY <2>1, <2>2
<1>5. Chain(list.first, list.next, 0..n - 1, n, NoOne, q)
  BY <1>1, <1>3, <1>4 DEF Chain
<1>6. FreeList(list, 0..n - 1, 0..n - 1)
  BY <1>1, <1>2, <1>5 DEF FreeList
<1> QED BY <1>6 DEF list

LEMMA PoolTaken ==
  ASSUME NEW all, all \subseteq Nat, NEW ids, NEW list, FreeList(list, ids, all), list.first >= 0
  PROVE  list.first \in ids /\ FreeList(P!Take(list), ids \ {list.first}, all)
<1>1a. PICK n \in Nat : \E q : Chain(list.first, list.next, ids, n, NoOne, q)
  BY DEF FreeList
<1>1. PICK q : Chain(list.first, list.next, ids, n, NoOne, q)
  BY <1>1a
<1>2. n # 0 /\ 0 \in 0..n - 1 /\ q[0] = list.first /\ list.first \in ids
  <2>1. n # 0
    BY <1>1, NoOneIs DEF Chain
  <2>2. 0 \in 0..n - 1
    BY <2>1
  <2> QED BY <1>1, <2>1, <2>2 DEF Chain
<1>3. q[1] = list.next[list.first]
  <2>1. q[0 + 1] = list.next[q[0]]
    BY <1>1, <1>2 DEF Chain
  <2> QED BY <1>2, <2>1
<1>4. NoOne \notin ids
  BY NoOneIs DEF FreeList
<1>5. PICK p : Chain(q[1], list.next, ids \ {list.first}, n - 1, NoOne, p)
  <2>1. 1 \in 0..n /\ 0..1 - 1 = {0}
    BY <1>2
  <2>2. \A x \in ids : x \in ids \ {list.first} <=> \A k \in 0..1 - 1 : q[k] # x
    BY <1>2, <2>1
  <2>3. ids \ {list.first} \subseteq ids
    OBVIOUS
  <2>4. Without(ids \ {list.first}, ids, q, 1)
    BY <2>2, <2>3 DEF Without
  <2> QED BY <1>1, <1>4, <2>1, <2>4, ChainTake
<1> DEFINE new == P!Take(list)
<1>7. new = [first |-> new.first, next |-> new.next] /\ new.first = q[1] /\ new.next = list.next
  BY <1>3 DEF P!Take, FreeList
<1> HIDE DEF new
<1>8. Chain(new.first, new.next, ids \ {list.first}, n - 1, NoOne, p)
  BY <1>5, <1>7
<1>9. n - 1 \in Nat
  BY <1>2
<1>10. ids \subseteq all /\ list.next \in [all -> Int]
  BY DEF FreeList
<1>11. FreeList(new, ids \ {list.first}, all)
  BY <1>7, <1>8, <1>9, <1>10 DEF FreeList
<1> QED BY <1>2, <1>11 DEF new

LEMMA PoolPut ==
  ASSUME NEW all, all \subseteq Nat, NEW ids, NEW list, FreeList(list, ids, all), NEW id \in all \ ids
  PROVE  FreeList(P!Put(list, id), ids \cup {id}, all)
<1>1a. PICK n \in Nat : \E q : Chain(list.first, list.next, ids, n, NoOne, q)
  BY DEF FreeList
<1>1. PICK q : Chain(list.first, list.next, ids, n, NoOne, q)
  BY <1>1a
<1> ids \subseteq all /\ list.next \in [all -> Int]
  BY DEF FreeList
<1>a. \A x \in ids : x \in Int
  OBVIOUS
<1>2. NoOne \notin ids \cup {id} /\ ids \subseteq all /\ list.next \in [all -> Int]
  BY NoOneIs DEF FreeList
<1> DEFINE new == P!Put(list, id)
           s == [k \in {0} |-> id]
<1>3. new = [first |-> new.first, next |-> new.next] /\ new.first = id
      /\ new.next = [list.next EXCEPT ![id] = list.first]
  BY DEF P!Put
<1>4. list.first \in Int
  <2>1. q[0] \in ids \cup {NoOne} /\ q[0] = list.first
    BY <1>1 DEF Chain
  <2> QED BY <1>a, <2>1, NoOneIs
<1>5. new.next \in [all -> Int] /\ new.next[id] = list.first /\ \A x \in ids : new.next[x] = list.next[x]
  BY <1>2, <1>3, <1>4
<1>6. 0..1 - 1 = {0} /\ s[0] = id
  OBVIOUS
<1> HIDE DEF new, s
<1>7. PICK p : Chain(new.first, new.next, ids \cup {id}, n + 1, NoOne, p)
  <2>1. ids \cap {id} = {}
    OBVIOUS
  <2>2. /\ \A k \in 0..1 - 1 : s[k] \in {id}
        /\ \A i, j \in 0..1 - 1 : s[i] = s[j] => i = j
        /\ \A x \in {id} : \E k \in 0..1 - 1 : s[k] = x
        /\ \A k \in 0..1 - 1 : new.next[s[k]] = IF k = 1 - 1 THEN list.first ELSE s[k + 1]
    BY <1>5, <1>6
  <2>3. Puts(new.next, list.next, ids, list.first, s, 1, {id}, new.first)
    BY <1>3, <1>5, <1>6, <2>1, <2>2 DEF Puts
  <2> QED BY <1>1, <1>2, <2>3, ChainPut
<1>9. FreeList(new, ids \cup {id}, all)
  <2>1. n + 1 \in Nat /\ ids \cup {id} \subseteq all
    BY <1>2
  <2> QED BY <1>3, <1>5, <1>7, <2>1 DEF FreeList
<1> QED BY <1>9 DEF new

(* What Lists walks is the list. *)
LEMMA PoolListed ==
  ASSUME NEW all, all \subseteq Nat, NEW ids, NEW list, FreeList(list, ids, all)
  PROVE  P!Lists(list, ids)
<1> DEFINE n == P!Cardinality(ids)
           walk == P!Walk(list, n)
           Goes(f) == f = [k \in 0..n |-> IF k = 0 THEN list.first
                                          ELSE IF f[k - 1] < 0 THEN -1 ELSE list.next[f[k - 1]]]
<1>1. SUFFICES walk[n] = -1 /\ {walk[k] : k \in DOMAIN walk} \ {-1} = ids
  BY DEF P!Lists
<1>2. NoOne \notin ids /\ ids \subseteq Nat
  BY NoOneIs DEF FreeList
<1>3. PICK q : n \in Nat /\ Chain(list.first, list.next, ids, n, NoOne, q)
  <2>1a. PICK m \in Nat : \E q : Chain(list.first, list.next, ids, m, NoOne, q)
    BY DEF FreeList
  <2>1. PICK q : Chain(list.first, list.next, ids, m, NoOne, q)
    BY <2>1a
  <2>2. Cardinality(ids) = m
    BY <2>1, <1>2, ChainCounts DEF IsChain
  <2>3. P!Cardinality(ids) = Cardinality(ids)
    BY DEF P!Cardinality, Cardinality
  <2> QED BY <2>1, <2>2, <2>3
<1>4. Goes(walk) \/ ~ \E f : Goes(f)
  BY DEF P!Walk
<1> HIDE DEF n, walk
<1>5. PICK w : Walked(w, list.first, list.next, ids, n, NoOne, q, n)
  BY <1>2, <1>3, WalkedGoesOn
<1>6. /\ w[0] = list.first /\ w[n] = NoOne /\ w \in [0..n -> ids \cup {NoOne}]
      /\ \A k \in 1..n : w[k] = IF w[k - 1] = NoOne THEN NoOne ELSE list.next[w[k - 1]]
      /\ \A x \in ids : \E k \in 0..n : w[k] = x
  BY <1>5 DEF Walked
<1>7. \A k \in 0..n : w[k] = IF k = 0 THEN list.first ELSE IF w[k - 1] < 0 THEN -1 ELSE list.next[w[k - 1]]
  <2>1. \A k \in 0..n : k = 0 \/ (k \in 1..n /\ k - 1 \in 0..n)
    BY <1>3
  <2>2. \A k \in 0..n : w[k] < 0 <=> w[k] = NoOne
    <3> SUFFICES ASSUME NEW k \in 0..n PROVE w[k] < 0 <=> w[k] = NoOne
      OBVIOUS
    <3>1. w[k] \in ids \cup {NoOne}
      BY <1>6
    <3>2. w[k] \in Nat \/ w[k] = NoOne
      BY <1>2, <3>1
    <3> QED BY <3>2, NoOneIs
  <2> QED BY <1>6, <2>1, <2>2, NoOneIs
<1>8. Goes(w)
  <2>1. w = [k \in 0..n |-> w[k]]
    BY <1>6
  <2>2. [k \in 0..n |-> w[k]] = [k \in 0..n |-> IF k = 0 THEN list.first
                                          ELSE IF w[k - 1] < 0 THEN -1 ELSE list.next[w[k - 1]]]
    BY <1>7
  <2> QED BY <2>1, <2>2
<1>9. Goes(walk)
  BY <1>4, <1>8
<1>10. walk = [k \in 0..n |-> walk[k]] /\ \A k \in 0..n : walk[k] = IF k = 0 THEN list.first
                            ELSE IF walk[k - 1] < 0 THEN -1 ELSE list.next[walk[k - 1]]
  BY <1>9
<1>11. \A k \in 0..n : walk[k] = w[k]
  <2>1. walk[0] = w[0]
    BY <1>3, <1>6, <1>10
  <2>2. \A k \in 1..n : walk[k - 1] = w[k - 1] => walk[k] = w[k]
    <3> SUFFICES ASSUME NEW k \in 1..n, walk[k - 1] = w[k - 1] PROVE walk[k] = w[k]
      OBVIOUS
    <3>1. k \in 0..n /\ k # 0
      BY <1>3
    <3> QED BY <1>7, <1>10, <3>1
  <2>3. SameSteps(walk, w, n)
    BY <2>1, <2>2 DEF SameSteps
  <2> QED BY <1>3, <2>3, SameWalk
<1>12. {walk[k] : k \in 0..n} \ {NoOne} \subseteq ids
  <2>1. \A k \in 0..n : walk[k] \in ids \cup {NoOne}
    BY <1>6, <1>11
  <2> QED BY <2>1
<1>13. ids \subseteq {walk[k] : k \in 0..n} \ {NoOne}
  <2>1. \A x \in ids : \E k \in 0..n : walk[k] = x
    BY <1>6, <1>11
  <2> QED BY <1>2, <2>1
<1>14. n \in 0..n
  BY <1>3
<1>15. walk[n] = -1 /\ DOMAIN walk = 0..n
  BY <1>6, <1>10, <1>11, <1>14, NoOneIs
<1>16. {walk[k] : k \in DOMAIN walk} \ {-1} = ids
  BY <1>12, <1>13, <1>15, NoOneIs
<1> QED BY <1>15, <1>16

LEMMA PoolNumbers ==
  ASSUME P!AudioPoolsAssumption
  PROVE  P!Pools \subseteq Nat /\ P!Sinks \subseteq Nat
BY DEF P!AudioPoolsAssumption, P!Pools, P!Sinks

LEMMA PoolsInit ==
  ASSUME P!AudioPoolsAssumption, P!Init PROVE PoolsFit
<1>1. FreeList(pools, P!Pools, P!Pools) /\ FreeList(sinks, P!Sinks, P!Sinks)
  BY PoolLinked DEF P!Init, P!AudioPoolsAssumption, P!Pools, P!Sinks
<1>2. given = [pool |-> {}, mix |-> {}, sink |-> {}]
  BY DEF P!Init
<1>3. FreeList(pools, P!Pools \ given.pool, P!Pools) /\ FreeList(sinks, P!Sinks \ given.sink, P!Sinks)
  <2>1. P!Pools \ given.pool = P!Pools /\ P!Sinks \ given.sink = P!Sinks
    BY <1>2
  <2> QED BY <1>1, <2>1
<1>4. mixBuffers \in Int /\ mixBuffers <= 0
  BY DEF P!Init, P!Accepted, P!MixBuffersFree, P!AudioPoolsAssumption
<1>5. P!TypeOK
  BY <1>2 DEF P!Init, P!TypeOK
<1>6. /\ attached = {p \in P!Pools : poolState[p] \in {"Attached", "RequestDetach"}}
      /\ \A p \in P!Pools : p \in given.pool <=> poolState[p] # "Released"
  BY <1>2 DEF P!Init
<1> QED BY <1>2, <1>3, <1>4, <1>5, <1>6 DEF PoolsFit

(* What is left of the invariant when no number is handed out or back. *)
LEMMA PoolsSameLists ==
  ASSUME PoolsFit, pools' = pools, sinks' = sinks, given' = given
  PROVE  /\ FreeList(pools, P!Pools \ given.pool, P!Pools)'
         /\ FreeList(sinks, P!Sinks \ given.sink, P!Sinks)'
         /\ given' = [pool |-> given'.pool, mix |-> {}, sink |-> given'.sink]
BY DEF PoolsFit, P!Pools, P!Sinks

LEMMA PoolsAdd ==
  ASSUME P!AudioPoolsAssumption, PoolsFit, P!audrvMemPoolAdd PROVE PoolsFit'
<1> DEFINE id == pools.first
<1>1. id >= 0 /\ pools' = P!Take(pools) /\ poolState' = [poolState EXCEPT ![id] = "New"]
      /\ given' = [given EXCEPT !.pool = @ \cup {id}]
      /\ UNCHANGED <<mixes, sinks, mixBuffers, buffersOf, attached>>
  BY DEF P!audrvMemPoolAdd
<1>2. id \in P!Pools \ given.pool /\ FreeList(pools', (P!Pools \ given.pool) \ {id}, P!Pools)
  BY <1>1, PoolNumbers, PoolTaken DEF PoolsFit
<1> HIDE DEF id
<1>3. given' = [pool |-> given.pool \cup {id}, mix |-> {}, sink |-> given.sink]
  BY <1>1 DEF PoolsFit
<1>4. FreeList(pools', P!Pools \ given'.pool, P!Pools) /\ FreeList(sinks', P!Sinks \ given'.sink, P!Sinks)
  <2>1. P!Pools \ given'.pool = (P!Pools \ given.pool) \ {id} /\ given'.sink = given.sink
    BY <1>3
  <2> QED BY <1>1, <1>2, <2>1 DEF PoolsFit
<1>5. P!TypeOK'
  BY <1>1, <1>2, <1>3 DEF PoolsFit, P!TypeOK, P!Pools, P!Mixes, P!Sinks
<1>6. \A p \in P!Pools : poolState'[p] = IF p = id THEN "New" ELSE poolState[p]
  BY <1>1 DEF PoolsFit, P!TypeOK
<1>7. poolState[id] = "Released"
  BY <1>2 DEF PoolsFit
<1>8. attached' = {p \in P!Pools : poolState'[p] \in {"Attached", "RequestDetach"}}
  <2>1. \A p \in P!Pools : poolState'[p] \in {"Attached", "RequestDetach"}
                             <=> poolState[p] \in {"Attached", "RequestDetach"}
    BY <1>6, <1>7
  <2> QED BY <1>1, <2>1 DEF PoolsFit
<1>9. \A p \in P!Pools : p \in given'.pool <=> poolState'[p] # "Released"
  BY <1>3, <1>6 DEF PoolsFit
<1>10. mixBuffers' \in Int /\ mixBuffers' <= 0
  BY <1>1 DEF PoolsFit
<1> QED BY <1>3, <1>4, <1>5, <1>8, <1>9, <1>10 DEF PoolsFit, P!Pools, P!Sinks

LEMMA PoolsRemove ==
  ASSUME P!AudioPoolsAssumption, PoolsFit, NEW p \in P!Pools, P!audrvMemPoolRemove(p) PROVE PoolsFit'
<1>1. p \in given.pool /\ poolState[p] \notin {"Attached", "RequestDetach"}
      /\ pools' = P!Put(pools, p) /\ poolState' = [poolState EXCEPT ![p] = "Released"]
      /\ given' = [given EXCEPT !.pool = @ \ {p}]
      /\ UNCHANGED <<mixes, sinks, mixBuffers, buffersOf, attached>>
  BY DEF P!audrvMemPoolRemove
<1>2. FreeList(pools', (P!Pools \ given.pool) \cup {p}, P!Pools)
  <2>1. p \in P!Pools \ (P!Pools \ given.pool)
    BY <1>1
  <2> QED BY <1>1, <2>1, PoolNumbers, PoolPut DEF PoolsFit
<1>3. given' = [pool |-> given.pool \ {p}, mix |-> {}, sink |-> given.sink]
  <2>1. given = [pool |-> given.pool, mix |-> {}, sink |-> given.sink]
    BY DEF PoolsFit
  <2>2. given' = [given EXCEPT !.pool = given.pool \ {p}]
    BY <1>1
  <2> QED BY <2>1, <2>2
<1>4. FreeList(pools', P!Pools \ given'.pool, P!Pools) /\ FreeList(sinks', P!Sinks \ given'.sink, P!Sinks)
  <2>1. P!Pools \ given'.pool = (P!Pools \ given.pool) \cup {p} /\ given'.sink = given.sink
    BY <1>3
  <2> QED BY <1>1, <1>2, <2>1 DEF PoolsFit
<1>5. P!TypeOK'
  BY <1>1, <1>3 DEF PoolsFit, P!TypeOK, P!Pools, P!Mixes, P!Sinks
<1>6. \A r \in P!Pools : poolState'[r] = IF r = p THEN "Released" ELSE poolState[r]
  BY <1>1 DEF PoolsFit, P!TypeOK
<1>7. attached' = {r \in P!Pools : poolState'[r] \in {"Attached", "RequestDetach"}}
  <2>1. \A r \in P!Pools : poolState'[r] \in {"Attached", "RequestDetach"}
                             <=> poolState[r] \in {"Attached", "RequestDetach"}
    BY <1>1, <1>6
  <2> QED BY <1>1, <2>1 DEF PoolsFit
<1>8. \A r \in P!Pools : r \in given'.pool <=> poolState'[r] # "Released"
  BY <1>3, <1>6 DEF PoolsFit
<1>9. mixBuffers' \in Int /\ mixBuffers' <= 0
  BY <1>1 DEF PoolsFit
<1> QED BY <1>3, <1>4, <1>5, <1>7, <1>8, <1>9 DEF PoolsFit, P!Pools, P!Sinks

(* A request to attach or detach changes nothing of what is mapped yet. *)
LEMMA PoolsAsk ==
  ASSUME P!AudioPoolsAssumption, PoolsFit, NEW p \in P!Pools,
         P!audrvMemPoolAttach(p) \/ P!audrvMemPoolDetach(p)
  PROVE  PoolsFit'
<1> DEFINE old == poolState[p]
           new == IF P!audrvMemPoolAttach(p) THEN P!AttachedState(old) ELSE P!DetachedState(old)
<1>1. p \in given.pool /\ poolState' = [poolState EXCEPT ![p] = new]
      /\ UNCHANGED <<pools, mixes, sinks, mixBuffers, buffersOf, attached, given>>
  BY DEF P!audrvMemPoolAttach, P!audrvMemPoolDetach
<1>2. old \in {"New", "RequestAttach", "Attached", "RequestDetach", "Detached"}
  BY <1>1 DEF PoolsFit, P!TypeOK
<1>3. /\ new \in {"New", "RequestAttach", "Attached", "RequestDetach", "Detached"}
      /\ new \in {"Attached", "RequestDetach"} <=> old \in {"Attached", "RequestDetach"}
  <2>1. /\ P!AttachedState(old) = IF old \in {"RequestDetach", "Attached"} THEN "Attached" ELSE "RequestAttach"
        /\ P!DetachedState(old) = IF old = "New" THEN "New"
                                  ELSE IF old \in {"RequestAttach", "Detached"} THEN "Detached"
                                  ELSE "RequestDetach"
    <3> HIDE DEF old
    <3> QED BY <1>2 DEF P!AttachedState, P!DetachedState
  <2> HIDE DEF old
  <2> QED BY <1>2, <2>1
<1> HIDE DEF old, new
<1>4. \A r \in P!Pools : poolState'[r] = IF r = p THEN new ELSE poolState[r]
  BY <1>1 DEF PoolsFit, P!TypeOK
<1>5. P!TypeOK'
  BY <1>1, <1>3 DEF PoolsFit, P!TypeOK, P!Pools, P!Mixes, P!Sinks
<1>6. attached' = {r \in P!Pools : poolState'[r] \in {"Attached", "RequestDetach"}}
  <2>1. \A r \in P!Pools : poolState'[r] \in {"Attached", "RequestDetach"}
                             <=> poolState[r] \in {"Attached", "RequestDetach"}
    BY <1>3, <1>4 DEF old
  <2> QED BY <1>1, <2>1 DEF PoolsFit
<1>7. \A r \in P!Pools : r \in given'.pool <=> poolState'[r] # "Released"
  BY <1>1, <1>3, <1>4 DEF PoolsFit
<1>8. mixBuffers' \in Int /\ mixBuffers' <= 0
  BY <1>1 DEF PoolsFit
<1> QED BY <1>1, <1>5, <1>6, <1>7, <1>8, PoolsSameLists DEF PoolsFit, P!Pools, P!Sinks

LEMMA PoolsUpdate ==
  ASSUME P!AudioPoolsAssumption, PoolsFit, P!audrvUpdate PROVE PoolsFit'
<1>1. PICK done \in SUBSET {p \in P!Pools : poolState[p] \in {"RequestAttach", "RequestDetach"}} :
        /\ attached' = (attached \cup {p \in done : poolState[p] = "RequestAttach"})
                         \ {p \in done : poolState[p] = "RequestDetach"}
        /\ poolState' = [p \in P!Pools |-> IF p \in attached' /\ p \in done THEN "Attached"
                                           ELSE IF p \in done THEN "Detached" ELSE poolState[p]]
        /\ UNCHANGED <<pools, mixes, sinks, mixBuffers, buffersOf, given>>
  BY DEF P!audrvUpdate
<1>2. \A p \in P!Pools : p \in attached <=> poolState[p] \in {"Attached", "RequestDetach"}
  BY DEF PoolsFit
<1>3. \A p \in done : p \in P!Pools /\ poolState[p] \in {"RequestAttach", "RequestDetach"}
  OBVIOUS
<1>4. \A p \in P!Pools : p \in attached' <=> IF p \in done THEN poolState[p] = "RequestAttach" ELSE p \in attached
  BY <1>1, <1>2, <1>3
<1>5. \A p \in P!Pools : poolState'[p] = IF p \in attached' /\ p \in done THEN "Attached"
                                         ELSE IF p \in done THEN "Detached" ELSE poolState[p]
  BY <1>1
<1>6. attached' \subseteq P!Pools
  <2>1. attached \subseteq P!Pools
    BY DEF PoolsFit
  <2> QED BY <1>1, <1>3, <2>1
<1>7. attached' = {p \in P!Pools : poolState'[p] \in {"Attached", "RequestDetach"}}
  <2>1. \A p \in P!Pools : p \in attached' <=> poolState'[p] \in {"Attached", "RequestDetach"}
    BY <1>2, <1>4, <1>5
  <2> QED BY <1>6, <2>1
<1>8. \A p \in P!Pools : p \in given'.pool <=> poolState'[p] # "Released"
  <2>1. \A p \in P!Pools : poolState'[p] # "Released" <=> poolState[p] # "Released"
    BY <1>3, <1>5
  <2> QED BY <1>1, <2>1 DEF PoolsFit
<1>9. P!TypeOK'
  <2>1. poolState' \in [P!Pools -> {"Released", "New", "RequestAttach", "Attached", "RequestDetach", "Detached"}]
    BY <1>1, <1>5 DEF PoolsFit, P!TypeOK
  <2> QED BY <1>1, <2>1 DEF PoolsFit, P!TypeOK, P!Pools, P!Mixes, P!Sinks
<1>10. mixBuffers' \in Int /\ mixBuffers' <= 0
  BY <1>1 DEF PoolsFit
<1> QED BY <1>1, <1>7, <1>8, <1>9, <1>10, PoolsSameLists DEF PoolsFit, P!Pools, P!Sinks

(* No configuration that is accepted leaves a mix buffer, and none is given.*)
LEMMA PoolsMix ==
  ASSUME P!AudioPoolsAssumption, PoolsFit,
         \/ \E c \in 1..MaxMixBuffers : P!audrvMixAdd(c)
         \/ \E m \in P!Mixes : P!audrvMixRemove(m)
  PROVE  UNCHANGED P!vars
<1>1. ASSUME NEW c \in 1..MaxMixBuffers, P!audrvMixAdd(c) PROVE UNCHANGED P!vars
  <2>1. mixBuffers < c
    BY DEF PoolsFit, P!AudioPoolsAssumption
  <2> QED BY <1>1, <2>1 DEF P!audrvMixAdd
<1>2. ASSUME NEW m \in P!Mixes, P!audrvMixRemove(m) PROVE UNCHANGED P!vars
  <2>1. m \notin given.mix
    <3>1. given = [pool |-> given.pool, mix |-> {}, sink |-> given.sink]
      BY DEF PoolsFit
    <3>2. given.mix = {}
      BY <3>1
    <3> QED BY <3>2
  <2> QED BY <1>2, <2>1 DEF P!audrvMixRemove
<1> QED BY <1>1, <1>2

LEMMA PoolsSink ==
  ASSUME P!AudioPoolsAssumption, PoolsFit,
         P!audrvDeviceSinkAdd \/ \E s \in P!Sinks : P!audrvSinkRemove(s)
  PROVE  PoolsFit'
<1>1. /\ UNCHANGED <<pools, mixes, poolState, mixBuffers, buffersOf, attached>>
      /\ given' = [pool |-> given.pool, mix |-> {}, sink |-> given'.sink] /\ given'.sink \subseteq P!Sinks
      /\ FreeList(sinks', P!Sinks \ given'.sink, P!Sinks)
  <2>1. CASE P!audrvDeviceSinkAdd
    <3> DEFINE id == sinks.first
    <3>1. id >= 0 /\ sinks' = P!Take(sinks) /\ given' = [given EXCEPT !.sink = @ \cup {id}]
          /\ UNCHANGED <<pools, mixes, poolState, mixBuffers, buffersOf, attached>>
      BY <2>1 DEF P!audrvDeviceSinkAdd
    <3>2. id \in P!Sinks \ given.sink /\ FreeList(sinks', (P!Sinks \ given.sink) \ {id}, P!Sinks)
      BY <3>1, PoolNumbers, PoolTaken DEF PoolsFit
    <3> HIDE DEF id
    <3>3. given' = [pool |-> given.pool, mix |-> {}, sink |-> given.sink \cup {id}]
      BY <3>1 DEF PoolsFit
    <3>4. P!Sinks \ given'.sink = (P!Sinks \ given.sink) \ {id} /\ given'.sink = given.sink \cup {id}
      BY <3>3
    <3>5. given.sink \subseteq P!Sinks
      BY DEF PoolsFit, P!TypeOK
    <3> QED BY <3>1, <3>2, <3>3, <3>4, <3>5
  <2>2. ASSUME NEW s \in P!Sinks, P!audrvSinkRemove(s)
        PROVE  /\ UNCHANGED <<pools, mixes, poolState, mixBuffers, buffersOf, attached>>
               /\ given' = [pool |-> given.pool, mix |-> {}, sink |-> given'.sink] /\ given'.sink \subseteq P!Sinks
               /\ FreeList(sinks', P!Sinks \ given'.sink, P!Sinks)
    <3>1. s \in given.sink /\ sinks' = P!Put(sinks, s) /\ given' = [given EXCEPT !.sink = @ \ {s}]
          /\ UNCHANGED <<pools, mixes, poolState, mixBuffers, buffersOf, attached>>
      BY <2>2 DEF P!audrvSinkRemove
    <3>2. FreeList(sinks', (P!Sinks \ given.sink) \cup {s}, P!Sinks)
      <4>1. s \in P!Sinks \ (P!Sinks \ given.sink)
        BY <3>1
      <4> QED BY <3>1, <4>1, PoolNumbers, PoolPut DEF PoolsFit
    <3>3. given' = [pool |-> given.pool, mix |-> {}, sink |-> given.sink \ {s}]
      BY <3>1 DEF PoolsFit
    <3>4. P!Sinks \ given'.sink = (P!Sinks \ given.sink) \cup {s} /\ given'.sink = given.sink \ {s}
      BY <3>3
    <3>5. given.sink \subseteq P!Sinks
      BY DEF PoolsFit, P!TypeOK
    <3> QED BY <3>1, <3>2, <3>3, <3>4, <3>5
  <2> QED BY <2>1, <2>2
<1>2. given'.pool = given.pool
  BY <1>1
<1>3. P!TypeOK'
  BY <1>1, <1>2 DEF PoolsFit, P!TypeOK, P!Pools, P!Mixes, P!Sinks
<1>4. given' = [pool |-> given'.pool, mix |-> {}, sink |-> given'.sink]
  BY <1>1, <1>2
<1>5. FreeList(pools', P!Pools \ given'.pool, P!Pools)
  BY <1>1, <1>2 DEF PoolsFit
<1> QED BY <1>1, <1>2, <1>3, <1>4, <1>5 DEF PoolsFit, P!Pools, P!Sinks

LEMMA PoolsRest ==
  ASSUME PoolsFit, UNCHANGED P!vars PROVE PoolsFit'
<1> USE DEF P!vars
<1>1. P!TypeOK'
  BY DEF PoolsFit, P!TypeOK, P!Pools, P!Mixes, P!Sinks
<1>2. /\ attached' = {p \in P!Pools : poolState'[p] \in {"Attached", "RequestDetach"}}
      /\ \A p \in P!Pools : p \in given'.pool <=> poolState'[p] # "Released"
      /\ mixBuffers' \in Int /\ mixBuffers' <= 0
  BY DEF PoolsFit
<1> QED BY <1>1, <1>2, PoolsSameLists DEF PoolsFit, P!Pools, P!Sinks

LEMMA PoolsStep ==
  ASSUME P!AudioPoolsAssumption, PoolsFit, [P!Next]_(P!vars) PROVE PoolsFit'
<1>1. CASE P!Next
  BY <1>1, PoolsAdd, PoolsRemove, PoolsAsk, PoolsUpdate, PoolsMix, PoolsSink, PoolsRest DEF P!Next
<1>2. CASE UNCHANGED P!vars
  BY <1>2, PoolsRest
<1> QED BY <1>1, <1>2

LEMMA PoolsSound ==
  ASSUME P!AudioPoolsAssumption, PoolsFit PROVE P!HandedOutOnce /\ P!MappedIsGiven
<1>1. P!Lists(pools, P!Pools \ given.pool) /\ P!Lists(sinks, P!Sinks \ given.sink)
  BY PoolNumbers, PoolListed DEF PoolsFit
<1>2. given.mix = {}
  <2>1. given = [pool |-> given.pool, mix |-> {}, sink |-> given.sink]
    BY DEF PoolsFit
  <2> QED BY <2>1
<1>3. attached \subseteq given.pool
  BY DEF PoolsFit
<1> QED BY <1>1, <1>2, <1>3 DEF P!HandedOutOnce, P!MappedIsGiven

-----------------------------------------------------------------------------
(* AudioVoices: the used voices are a list with pointers back, no channel  *)
(* has two places, and the channels no voice has are a list.               *)
PointsBack(back, q, n) == \A k \in 0..n - 1 : back[q[k]] = IF k = 0 THEN V!Head0 ELSE q[k - 1]

UsedFit(ahead, back, ids) ==
  /\ ids \subseteq V!Voices
  /\ ahead \in [V!Voices \cup {V!Head0} -> V!Voices \cup {NoOne}] /\ back \in [V!Voices -> V!Voices \cup {V!Head0}]
  /\ \E n \in Nat : \E q : Chain(ahead[V!Head0], ahead, ids, n, NoOne, q) /\ PointsBack(back, q, n)

LEMMA VoiceNumbers ==
  ASSUME V!AudioVoicesAssumption
  PROVE  /\ V!Voices \subseteq Nat /\ V!Head0 \in Int /\ V!Head0 \notin V!Voices
         /\ V!Head0 < 0 /\ V!Head0 # NoOne /\ NoOne \notin V!Voices
BY NoOneIs DEF V!AudioVoicesAssumption, V!Voices, V!Head0, NoOne

(* A voice taken out of the list, and one put first. *)
OutAhead(ahead, back, v) == [ahead EXCEPT ![back[v]] = ahead[v]]
OutBack(ahead, back, v) == IF ahead[v] >= 0 THEN [back EXCEPT ![ahead[v]] = back[v]] ELSE back

LEMMA VoiceOut ==
  ASSUME V!AudioVoicesAssumption, NEW ahead, NEW back, NEW ids, UsedFit(ahead, back, ids), NEW v \in ids
  PROVE  UsedFit(OutAhead(ahead, back, v), OutBack(ahead, back, v), ids \ {v})
<1> DEFINE ny == OutAhead(ahead, back, v)
           nb == OutBack(ahead, back, v)
<1>1. /\ ids \subseteq V!Voices
      /\ ahead \in [V!Voices \cup {V!Head0} -> V!Voices \cup {NoOne}] /\ back \in [V!Voices -> V!Voices \cup {V!Head0}]
  BY DEF UsedFit
<1>2a. PICK n \in Nat : \E q : Chain(ahead[V!Head0], ahead, ids, n, NoOne, q) /\ PointsBack(back, q, n)
  BY DEF UsedFit
<1>2. PICK q : Chain(ahead[V!Head0], ahead, ids, n, NoOne, q) /\ PointsBack(back, q, n)
  BY <1>2a
<1>3. PICK j \in 0..n - 1 : q[j] = v
  BY <1>2 DEF Chain
<1>4. /\ \A k \in 0..n - 1 : q[k] \in ids /\ q[k + 1] = ahead[q[k]]
      /\ \A i, k \in 0..n - 1 : q[i] = q[k] => i = k
      /\ q[n] = NoOne
  BY <1>2 DEF Chain
<1>5. \A k \in 0..n - 1 : back[q[k]] = IF k = 0 THEN V!Head0 ELSE q[k - 1]
  BY <1>2 DEF PointsBack
<1>6. \A x \in ids : x \in V!Voices /\ x \in Nat /\ x # V!Head0
  BY <1>1, VoiceNumbers
<1>7. back[v] = (IF j = 0 THEN V!Head0 ELSE q[j - 1]) /\ ahead[v] = q[j + 1]
  BY <1>3, <1>4, <1>5
<1>8. back[v] \in V!Voices \cup {V!Head0} /\ ahead[v] \in V!Voices \cup {NoOne}
  <2>1. j # 0 => j - 1 \in 0..n - 1
    BY <1>3
  <2>2. back[v] \in V!Voices \cup {V!Head0}
    BY <1>4, <1>6, <1>7, <2>1
  <2> QED BY <1>1, <1>6, <2>2
<1>9. /\ ny \in [V!Voices \cup {V!Head0} -> V!Voices \cup {NoOne}]
      /\ \A x \in V!Voices \cup {V!Head0} : ny[x] = IF x = back[v] THEN ahead[v] ELSE ahead[x]
  BY <1>1, <1>8 DEF OutAhead
<1>10. ahead[v] >= 0 => ahead[v] \in V!Voices
  BY <1>8, NoOneIs
<1>11. nb \in [V!Voices -> V!Voices \cup {V!Head0}]
  BY <1>1, <1>8, <1>10 DEF OutBack
<1>12. j = n - 1 => nb = back
  BY <1>4, <1>7, NoOneIs DEF OutBack
<1>13. j # n - 1 => \A x \in V!Voices : nb[x] = IF x = q[j + 1] THEN back[v] ELSE back[x]
  <2> SUFFICES ASSUME j # n - 1 PROVE \A x \in V!Voices : nb[x] = IF x = q[j + 1] THEN back[v] ELSE back[x]
    OBVIOUS
  <2>1. j + 1 \in 0..n - 1
    BY <1>3
  <2>2. q[j + 1] \in V!Voices /\ q[j + 1] >= 0
    BY <1>4, <1>6, <2>1
  <2> QED BY <1>1, <1>7, <2>2 DEF OutBack
<1> HIDE DEF ny, nb
<1>14. Skips(ny, ahead, q, n, j, ahead[V!Head0], ny[V!Head0])
  <2>1. j = 0 => ny[V!Head0] = ahead[q[0]]
    BY <1>3, <1>7, <1>9
  <2>2. j # 0 => j - 1 \in 0..n - 1 /\ q[j - 1] \in ids
    BY <1>3, <1>4
  <2>3. j # 0 => ny[V!Head0] = ahead[V!Head0]
    BY <1>6, <1>7, <1>9, <2>2
  <2>4. ASSUME NEW k \in 0..n - 1, k # j
        PROVE  ny[q[k]] = IF k = j - 1 THEN ahead[q[j]] ELSE ahead[q[k]]
    <3>1. q[k] \in ids /\ q[k] \in V!Voices /\ q[k] # V!Head0
      BY <1>4, <1>6
    <3>2. q[k] = back[v] <=> k = j - 1
      <4>1. CASE j = 0
        BY <1>7, <3>1, <4>1
      <4>2. CASE j # 0
        BY <1>4, <1>7, <2>2, <4>2
      <4> QED BY <4>1, <4>2
    <3> QED BY <1>3, <1>9, <3>1, <3>2
  <2> QED BY <2>1, <2>3, <2>4 DEF Skips
<1>15. NoOne \notin ids
  BY <1>1, VoiceNumbers
<1>16. PICK p : Chain(ny[V!Head0], ny, ids \ {q[j]}, n - 1, NoOne, p) /\ Skipped(p, q, n, j)
  BY <1>2, <1>3, <1>14, <1>15, ChainSkip
<1>17. PointsBack(nb, p, n - 1)
  <2>1. \A k \in 0..n - 1 : p[k] = IF k < j THEN q[k] ELSE q[k + 1]
    BY <1>16 DEF Skipped
  <2> SUFFICES ASSUME NEW k \in 0..(n - 1) - 1 PROVE nb[p[k]] = IF k = 0 THEN V!Head0 ELSE p[k - 1]
    BY DEF PointsBack
  <2>2. k \in 0..n - 1 /\ k + 1 \in 0..n - 1 /\ (k # 0 => k - 1 \in 0..n - 1)
    OBVIOUS
  <2>3. CASE k < j
    <3>1. p[k] = q[k] /\ (k # 0 => p[k - 1] = q[k - 1])
      BY <2>1, <2>2, <2>3
    <3>2. nb[q[k]] = back[q[k]]
      <4>1. CASE j = n - 1
        BY <1>12, <4>1
      <4>2. CASE j # n - 1
        <5>1. j + 1 \in 0..n - 1 /\ j + 1 # k
          BY <1>3, <2>3, <4>2
        <5>2. q[k] # q[j + 1] /\ q[k] \in V!Voices
          BY <1>4, <1>6, <2>2, <5>1
        <5> QED BY <1>13, <4>2, <5>2
      <4> QED BY <4>1, <4>2
    <3> QED BY <1>5, <2>2, <3>1, <3>2
  <2>4. CASE k = j
    <3>1. j # n - 1 /\ p[k] = q[j + 1] /\ (k # 0 => p[k - 1] = q[j - 1])
      BY <2>1, <2>2, <2>4
    <3>2. q[j + 1] \in V!Voices
      BY <1>4, <1>6, <2>2, <2>4
    <3> QED BY <1>7, <1>13, <2>4, <3>1, <3>2
  <2>5. CASE k > j
    <3>1. j # n - 1 /\ p[k] = q[k + 1] /\ k # 0 /\ p[k - 1] = q[k]
      <4>1. k # 0 /\ ~(k - 1 < j) /\ (k - 1) + 1 = k /\ j # n - 1
        BY <2>5
      <4> QED BY <2>1, <2>2, <2>5, <4>1
    <3>2. q[k + 1] \in V!Voices /\ q[k + 1] # q[j + 1]
      <4>1. j + 1 \in 0..n - 1 /\ j + 1 # k + 1
        BY <1>3, <2>5, <3>1
      <4> QED BY <1>4, <1>6, <2>2, <4>1
    <3>3. back[q[k + 1]] = q[k]
      <4>1. k + 1 # 0 /\ (k + 1) - 1 = k
        OBVIOUS
      <4> QED BY <1>5, <2>2, <4>1
    <3> QED BY <1>13, <3>1, <3>2, <3>3
  <2> QED BY <2>3, <2>4, <2>5
<1>18. n - 1 \in Nat /\ ids \ {v} \subseteq V!Voices
  BY <1>1, <1>3
<1>19. UsedFit(ny, nb, ids \ {v})
  BY <1>3, <1>9, <1>11, <1>16, <1>17, <1>18 DEF UsedFit
<1> QED BY <1>19 DEF ny, nb

FirstAhead(ahead, v) == [[ahead EXCEPT ![v] = ahead[V!Head0]] EXCEPT ![V!Head0] = v]
FirstBack(ahead, back, v) ==
  IF ahead[V!Head0] >= 0 THEN [[back EXCEPT ![v] = V!Head0] EXCEPT ![ahead[V!Head0]] = v]
                         ELSE [back EXCEPT ![v] = V!Head0]

LEMMA VoiceFirst ==
  ASSUME V!AudioVoicesAssumption, NEW ahead, NEW back, NEW ids, UsedFit(ahead, back, ids),
         NEW v \in V!Voices, v \notin ids
  PROVE  UsedFit(FirstAhead(ahead, v), FirstBack(ahead, back, v), ids \cup {v})
<1> DEFINE ny == FirstAhead(ahead, v)
           nb == FirstBack(ahead, back, v)
           one == [k \in {0} |-> v]
<1>1. /\ ids \subseteq V!Voices
      /\ ahead \in [V!Voices \cup {V!Head0} -> V!Voices \cup {NoOne}] /\ back \in [V!Voices -> V!Voices \cup {V!Head0}]
  BY DEF UsedFit
<1>2a. PICK n \in Nat : \E q : Chain(ahead[V!Head0], ahead, ids, n, NoOne, q) /\ PointsBack(back, q, n)
  BY DEF UsedFit
<1>2. PICK q : Chain(ahead[V!Head0], ahead, ids, n, NoOne, q) /\ PointsBack(back, q, n)
  BY <1>2a
<1>3. /\ \A k \in 0..n - 1 : q[k] \in ids
      /\ \A i, k \in 0..n - 1 : q[i] = q[k] => i = k
      /\ q[n] = NoOne /\ q[0] = ahead[V!Head0]
  BY <1>2 DEF Chain
<1>4. \A k \in 0..n - 1 : back[q[k]] = IF k = 0 THEN V!Head0 ELSE q[k - 1]
  BY <1>2 DEF PointsBack
<1>5. /\ \A x \in ids : x \in V!Voices /\ x \in Nat /\ x # V!Head0 /\ x # v
      /\ v \in Int /\ v # V!Head0 /\ V!Head0 \in Int
      /\ (ahead[V!Head0] >= 0 => ahead[V!Head0] \in V!Voices)
  BY <1>1, VoiceNumbers, NoOneIs
<1>6. /\ ny \in [V!Voices \cup {V!Head0} -> V!Voices \cup {NoOne}] /\ ny[V!Head0] = v /\ ny[v] = ahead[V!Head0]
      /\ \A x \in ids : ny[x] = ahead[x]
  BY <1>1, <1>5 DEF FirstAhead
<1>7. nb \in [V!Voices -> V!Voices \cup {V!Head0}]
  BY <1>1, <1>5 DEF FirstBack
<1>8. n = 0 => nb[v] = V!Head0
  BY <1>1, <1>3, NoOneIs DEF FirstBack
<1>9. n # 0 => \A x \in V!Voices : nb[x] = IF x = q[0] THEN v ELSE IF x = v THEN V!Head0 ELSE back[x]
  <2> SUFFICES ASSUME n # 0
               PROVE  \A x \in V!Voices : nb[x] = IF x = q[0] THEN v ELSE IF x = v THEN V!Head0 ELSE back[x]
    OBVIOUS
  <2>1. q[0] \in ids
    BY <1>3
  <2>2. q[0] >= 0 /\ q[0] \in V!Voices
    BY <1>5, <2>1
  <2>3. nb = [[back EXCEPT ![v] = V!Head0] EXCEPT ![q[0]] = v]
    BY <1>3, <2>2 DEF FirstBack
  <2> HIDE DEF nb
  <2> QED BY <1>1, <2>2, <2>3
<1>10. 0..1 - 1 = {0} /\ one[0] = v
  OBVIOUS
<1> HIDE DEF ny, nb, one
<1>11. Puts(ny, ahead, ids, ahead[V!Head0], one, 1, {v}, ny[V!Head0])
  <2>1. ids \cap {v} = {}
    BY <1>5
  <2>2. /\ \A k \in 0..1 - 1 : one[k] \in {v}
        /\ \A i, j \in 0..1 - 1 : one[i] = one[j] => i = j
        /\ \A x \in {v} : \E k \in 0..1 - 1 : one[k] = x
        /\ \A k \in 0..1 - 1 : ny[one[k]] = IF k = 1 - 1 THEN ahead[V!Head0] ELSE one[k + 1]
    BY <1>6, <1>10
  <2> QED BY <1>6, <1>10, <2>1, <2>2 DEF Puts
<1>12. NoOne \notin ids \cup {v}
  BY <1>1, VoiceNumbers
<1>13. PICK p : Chain(ny[V!Head0], ny, ids \cup {v}, n + 1, NoOne, p) /\ Joined(p, one, 1, q, n)
  BY <1>2, <1>11, <1>12, ChainPut
<1>14. PointsBack(nb, p, n + 1)
  <2>1. \A k \in 0..n + 1 : p[k] = IF k < 1 THEN one[k] ELSE q[k - 1]
    BY <1>13 DEF Joined
  <2> SUFFICES ASSUME NEW k \in 0..(n + 1) - 1 PROVE nb[p[k]] = IF k = 0 THEN V!Head0 ELSE p[k - 1]
    BY DEF PointsBack
  <2>2. k \in 0..n + 1 /\ (k # 0 => k - 1 \in 0..n - 1 /\ k - 1 \in 0..n + 1)
    OBVIOUS
  <2>3. CASE k = 0
    <3>1. p[k] = v
      BY <1>10, <2>1, <2>2, <2>3
    <3>2. n # 0 => v # q[0]
      <4> SUFFICES ASSUME n # 0 PROVE v # q[0]
        OBVIOUS
      <4>1. 0 \in 0..n - 1
        OBVIOUS
      <4> QED BY <1>3, <1>5, <4>1
    <3> QED BY <1>8, <1>9, <2>3, <3>1, <3>2
  <2>4. CASE k = 1
    <3>1. p[1] = q[0] /\ p[0] = v /\ n # 0
      BY <1>10, <2>1, <2>2, <2>4
    <3>2. q[0] \in V!Voices
      BY <1>3, <1>5, <2>2, <2>4
    <3> QED BY <1>9, <2>4, <3>1, <3>2
  <2>5. CASE k > 1
    <3>1. k - 2 \in 0..n - 1 /\ k - 1 \in 0..n - 1 /\ n # 0 /\ (k - 1) - 1 = k - 2 /\ k - 1 # 0 /\ 0 \in 0..n - 1
      BY <2>5
    <3>2. p[k] = q[k - 1] /\ p[k - 1] = q[k - 2]
      BY <2>1, <2>2, <2>5, <3>1
    <3>3. back[q[k - 1]] = q[k - 2]
      BY <1>4, <3>1
    <3>4. q[k - 1] \in ids /\ q[k - 1] # q[0]
      BY <1>3, <3>1
    <3> QED BY <1>5, <1>9, <2>5, <3>1, <3>2, <3>3, <3>4
  <2> QED BY <2>3, <2>4, <2>5
<1>15. n + 1 \in Nat /\ ids \cup {v} \subseteq V!Voices
  BY <1>1
<1>16. UsedFit(ny, nb, ids \cup {v})
  BY <1>6, <1>7, <1>13, <1>14, <1>15 DEF UsedFit
<1> QED BY <1>16 DEF ny, nb

(* The channels of the voices, and those of none. *)
OneHolder(ch) ==
  \A v, w \in V!Voices : \A i \in 1..Len(ch[v]), j \in 1..Len(ch[w]) : ch[v][i] = ch[w][j] => v = w /\ i = j
NotHeld(ch) == {c \in V!Voices : \A v \in V!Voices : \A i \in 1..Len(ch[v]) : ch[v][i] # c}

ChannelsFit(ch, ids, head0, nx, n) ==
  /\ ch \in [V!Voices -> Seq(V!Voices)] /\ nx \in [V!Voices -> Int]
  /\ \A v \in V!Voices : v \notin ids => ch[v] = <<>>
  /\ OneHolder(ch) /\ n \in Nat
  /\ \E q : Chain(head0, nx, NotHeld(ch), n, NoOne, q)

BackFirst(head0, mine) == IF mine = <<>> THEN head0 ELSE mine[1]
BackNext(head0, nx, mine) ==
  [c \in V!Voices |->
     IF \E i \in 1..Len(mine) : mine[i] = c
     THEN LET i == CHOOSE i \in 1..Len(mine) : mine[i] = c
          IN  IF i = Len(mine) THEN head0 ELSE mine[i + 1]
     ELSE nx[c]]

LEMMA ChannelsBack ==
  ASSUME V!AudioVoicesAssumption, NEW ch, NEW ids, NEW head0, NEW nx, NEW n,
         ChannelsFit(ch, ids, head0, nx, n), NEW v \in V!Voices
  PROVE  ChannelsFit([ch EXCEPT ![v] = <<>>], ids \ {v}, BackFirst(head0, ch[v]),
                     BackNext(head0, nx, ch[v]), n + Len(ch[v]))
<1> DEFINE mine == ch[v]
           l == Len(mine)
           s == [k \in 0..l - 1 |-> mine[k + 1]]
           more == {mine[i] : i \in 1..l}
           new == [ch EXCEPT ![v] = <<>>]
           ny == BackNext(head0, nx, mine)
<1>1. /\ ch \in [V!Voices -> Seq(V!Voices)] /\ nx \in [V!Voices -> Int] /\ n \in Nat
      /\ \A w \in V!Voices : w \notin ids => ch[w] = <<>>
  BY DEF ChannelsFit
<1>2. mine \in Seq(V!Voices) /\ l \in Nat /\ \A i \in 1..l : mine[i] \in V!Voices
  BY <1>1
<1>3. \A i, j \in 1..l : mine[i] = mine[j] => i = j
  BY DEF ChannelsFit, OneHolder
<1>4. PICK q : Chain(head0, nx, NotHeld(ch), n, NoOne, q)
  BY DEF ChannelsFit
<1>5. head0 \in Int
  <2>1. head0 \in NotHeld(ch) \cup {NoOne}
    BY <1>1, <1>4 DEF Chain
  <2> QED BY <2>1, VoiceNumbers, NoOneIs DEF NotHeld
<1>6. /\ new \in [V!Voices -> Seq(V!Voices)] /\ new[v] = <<>>
      /\ \A w \in V!Voices : w # v => new[w] = ch[w]
  BY <1>1
<1>7. \A i \in 1..l : ny[mine[i]] = IF i = l THEN head0 ELSE mine[i + 1]
  <2> SUFFICES ASSUME NEW i \in 1..l PROVE ny[mine[i]] = IF i = l THEN head0 ELSE mine[i + 1]
    OBVIOUS
  <2> DEFINE c == mine[i]
             o == CHOOSE o \in 1..l : mine[o] = c
  <2>1. o \in 1..l /\ mine[o] = c
    OBVIOUS
  <2>2. o = i
    BY <1>3, <2>1
  <2>3. c \in V!Voices
    BY <1>2
  <2>4. ny[c] = IF o = l THEN head0 ELSE mine[o + 1]
    BY <2>3 DEF BackNext
  <2> HIDE DEF o
  <2> QED BY <2>2, <2>4
<1>8. \A c \in V!Voices : c \notin more => ny[c] = nx[c]
  BY DEF BackNext
<1>9. ny \in [V!Voices -> Int]
  <2>1. ny = [c \in V!Voices |-> ny[c]]
    BY DEF BackNext
  <2>2. \A c \in V!Voices : ny[c] \in Int
    <3> SUFFICES ASSUME NEW c \in V!Voices PROVE ny[c] \in Int
      OBVIOUS
    <3>1. CASE c \notin more
      BY <1>1, <1>8, <3>1
    <3>2. ASSUME NEW i \in 1..l, c = mine[i] PROVE ny[c] \in Int
      <4>1. i = l \/ i + 1 \in 1..l
        BY <1>2
      <4> HIDE DEF ny, mine, l
      <4>2. ny[c] = head0 \/ ny[c] \in V!Voices
        BY <1>2, <1>7, <3>2, <4>1
      <4> QED BY <1>5, <4>2, VoiceNumbers
    <3> QED BY <3>1, <3>2
  <2> QED BY <2>1, <2>2
<1>10. \A k \in 0..l - 1 : s[k] = mine[k + 1] /\ k + 1 \in 1..l
  BY <1>2
<1>11. NotHeld(new) = NotHeld(ch) \cup more
  <2>1. NotHeld(ch) \subseteq NotHeld(new)
    BY <1>6 DEF NotHeld
  <2>2. more \subseteq NotHeld(new)
    <3> SUFFICES ASSUME NEW i \in 1..l PROVE mine[i] \in NotHeld(new)
      OBVIOUS
    <3>1. mine[i] \in V!Voices
      BY <1>2
    <3>2. ASSUME NEW w \in V!Voices, NEW j \in 1..Len(new[w]) PROVE new[w][j] # mine[i]
      <4>1. w # v
        BY <1>6
      <4>2. new[w] = ch[w]
        BY <1>6, <4>1
      <4> HIDE DEF new
      <4> QED BY <4>1, <4>2 DEF ChannelsFit, OneHolder
    <3> HIDE DEF new, mine
    <3> QED BY <3>1, <3>2 DEF NotHeld
  <2>3. ASSUME NEW c \in NotHeld(new), c \notin more PROVE c \in NotHeld(ch)
    <3>1. c \in V!Voices /\ \A w \in V!Voices : \A j \in 1..Len(new[w]) : new[w][j] # c
      BY <2>3 DEF NotHeld
    <3>2. ASSUME NEW w \in V!Voices, NEW j \in 1..Len(ch[w]) PROVE ch[w][j] # c
      <4>1. CASE w = v
        BY <2>3, <4>1
      <4>2. CASE w # v
        BY <1>6, <3>1, <4>2
      <4> QED BY <4>1, <4>2
    <3> QED BY <3>1, <3>2 DEF NotHeld
  <2> HIDE DEF new, more
  <2> QED BY <2>1, <2>2, <2>3
<1>12. NotHeld(ch) \cap more = {}
  <2>1. ASSUME NEW i \in 1..l PROVE mine[i] \notin NotHeld(ch)
    BY DEF NotHeld
  <2> QED BY <2>1
<1>13. (l = 0 <=> mine = <<>>) /\ (l # 0 => 0 \in 0..l - 1)
  BY <1>2
<1>14. \A k \in 0..l - 1 : s[k] \in more /\ ny[s[k]] = IF k = l - 1 THEN head0 ELSE s[k + 1]
  <2> SUFFICES ASSUME NEW k \in 0..l - 1
               PROVE  s[k] \in more /\ ny[s[k]] = IF k = l - 1 THEN head0 ELSE s[k + 1]
    OBVIOUS
  <2>1. k + 1 \in 1..l /\ (k # l - 1 => k + 1 \in 0..l - 1 /\ k + 1 # l) /\ (k = l - 1 => k + 1 = l)
    BY <1>2
  <2>2. s[k] \in more
    BY <1>10, <2>1
  <2> HIDE DEF ny, s, l, mine, more
  <2> QED BY <1>7, <1>10, <2>1, <2>2
<1>15. \A x \in more : \E k \in 0..l - 1 : s[k] = x
  <2> SUFFICES ASSUME NEW i \in 1..l PROVE \E k \in 0..l - 1 : s[k] = mine[i]
    OBVIOUS
  <2>1. i - 1 \in 0..l - 1 /\ (i - 1) + 1 = i
    BY <1>2
  <2> HIDE DEF s
  <2> QED BY <1>10, <2>1
<1>16. \A i, j \in 0..l - 1 : s[i] = s[j] => i = j
  <2> SUFFICES ASSUME NEW i \in 0..l - 1, NEW j \in 0..l - 1, s[i] = s[j] PROVE i = j
    OBVIOUS
  <2>1. i + 1 = j + 1
    BY <1>3, <1>10
  <2> QED BY <2>1
<1>17. BackFirst(head0, mine) = IF l = 0 THEN head0 ELSE s[0]
  <2>1. l # 0 => s[0] = mine[1]
    BY <1>10, <1>13
  <2> HIDE DEF s, l, mine
  <2> QED BY <1>13, <2>1 DEF BackFirst
<1>18. \A x \in NotHeld(ch) : x \in V!Voices
  BY DEF NotHeld
<1>19. NoOne \notin NotHeld(ch) \cup more
  <2>1. more \subseteq V!Voices
    BY <1>2
  <2> HIDE DEF more
  <2> QED BY <1>18, <2>1, VoiceNumbers
<1> HIDE DEF new, ny, more, s, l
<1>20. PICK p : Chain(BackFirst(head0, mine), ny, NotHeld(ch) \cup more, n + l, NoOne, p)
  <2>1. \A x \in NotHeld(ch) : ny[x] = nx[x]
    BY <1>8, <1>12, <1>18
  <2>2. Puts(ny, nx, NotHeld(ch), head0, s, l, more, BackFirst(head0, mine))
    BY <1>12, <1>14, <1>15, <1>16, <1>17, <2>1 DEF Puts
  <2> QED BY <1>1, <1>2, <1>4, <1>19, <2>2, ChainPut
<1>21. OneHolder(new)
  <2> SUFFICES ASSUME NEW w \in V!Voices, NEW u \in V!Voices, NEW i \in 1..Len(new[w]), NEW j \in 1..Len(new[u]),
                      new[w][i] = new[u][j]
               PROVE  w = u /\ i = j
    BY DEF OneHolder
  <2>1. 1..Len(new[v]) = {}
    BY <1>6
  <2>2. w # v /\ u # v
    BY <2>1
  <2>3. new[w] = ch[w] /\ new[u] = ch[u]
    BY <1>6, <2>2
  <2>4. ch[w][i] = ch[u][j] /\ i \in 1..Len(ch[w]) /\ j \in 1..Len(ch[u])
    BY <2>3
  <2>5. OneHolder(ch)
    BY DEF ChannelsFit
  <2> QED BY <2>4, <2>5 DEF OneHolder
<1>22. \A w \in V!Voices : w \notin ids \ {v} => new[w] = <<>>
  BY <1>1, <1>6
<1>23. n + l \in Nat
  BY <1>1, <1>2
<1>24. ChannelsFit(new, ids \ {v}, BackFirst(head0, mine), ny, n + l)
  BY <1>6, <1>9, <1>11, <1>20, <1>21, <1>22, <1>23 DEF ChannelsFit
<1> QED BY <1>24 DEF new, ny, l

(* The first n of the free ones, and where the next of them is. *)
Ahead(head0, nx, n) == LET spot[k \in 0..n] == IF k = 0 THEN head0 ELSE nx[spot[k - 1]] IN spot

LEMMA AheadIs ==
  ASSUME NEW head0, NEW nx, NEW ids, NEW m \in Nat, NEW q, Chain(head0, nx, ids, m, NoOne, q), NEW n \in 0..m
  PROVE  \A k \in 0..n : Ahead(head0, nx, n)[k] = q[k]
<1> DEFINE walk == Ahead(head0, nx, n)
           Goes(f) == f = [k \in 0..n |-> IF k = 0 THEN head0 ELSE nx[f[k - 1]]]
           w == [k \in 0..n |-> q[k]]
<1>1. Goes(walk) \/ ~ \E f : Goes(f)
  BY DEF Ahead
<1> HIDE DEF walk
<1>2. \A k \in 0..n : w[k] = IF k = 0 THEN head0 ELSE nx[w[k - 1]]
  <2> SUFFICES ASSUME NEW k \in 0..n PROVE w[k] = IF k = 0 THEN head0 ELSE nx[w[k - 1]]
    OBVIOUS
  <2>1. CASE k = 0
    BY <2>1 DEF Chain
  <2>2. CASE k # 0
    <3>1. k - 1 \in 0..m - 1 /\ k - 1 \in 0..n /\ (k - 1) + 1 = k
      BY <2>2
    <3>2. q[(k - 1) + 1] = nx[q[k - 1]]
      BY <3>1 DEF Chain
    <3> QED BY <2>2, <3>1, <3>2
  <2> QED BY <2>1, <2>2
<1>3. w = [k \in 0..n |-> w[k]] /\ \A k \in 0..n : w[k] = q[k]
  OBVIOUS
<1> HIDE DEF w
<1>4. Goes(w)
  <2>1. [k \in 0..n |-> w[k]] = [k \in 0..n |-> IF k = 0 THEN head0 ELSE nx[w[k - 1]]]
    BY <1>2
  <2> QED BY <1>3, <2>1
<1>5. Goes(walk)
  BY <1>1, <1>4
<1>6. \A k \in 0..n : walk[k] = IF k = 0 THEN head0 ELSE nx[walk[k - 1]]
  BY <1>5
<1>7. SameSteps(walk, w, n)
  <2>1. walk[0] = w[0]
    BY <1>2, <1>6
  <2>2. ASSUME NEW k \in 1..n, walk[k - 1] = w[k - 1] PROVE walk[k] = w[k]
    <3>1. k \in 0..n /\ k # 0
      OBVIOUS
    <3> QED BY <1>2, <1>6, <2>2, <3>1
  <2> QED BY <2>1, <2>2 DEF SameSteps
<1>8. \A k \in 0..n : walk[k] = w[k]
  BY <1>7, SameWalk
<1> QED BY <1>3, <1>8 DEF walk

LEMMA ChannelsTaken ==
  ASSUME V!AudioVoicesAssumption, NEW ch, NEW ids, NEW head0, NEW nx, NEW m,
         ChannelsFit(ch, ids, head0, nx, m), NEW v \in V!Voices, v \notin ids, NEW n \in 0..m
  PROVE  ChannelsFit([ch EXCEPT ![v] = [k \in 1..n |-> Ahead(head0, nx, n)[k - 1]]], ids \cup {v},
                     Ahead(head0, nx, n)[n], nx, m - n)
<1> DEFINE mine == [k \in 1..n |-> Ahead(head0, nx, n)[k - 1]]
           new == [ch EXCEPT ![v] = mine]
<1>1. /\ ch \in [V!Voices -> Seq(V!Voices)] /\ nx \in [V!Voices -> Int] /\ m \in Nat
      /\ \A w \in V!Voices : w \notin ids => ch[w] = <<>>
  BY DEF ChannelsFit
<1>2. PICK q : Chain(head0, nx, NotHeld(ch), m, NoOne, q)
  BY DEF ChannelsFit
<1>3. \A k \in 0..n : Ahead(head0, nx, n)[k] = q[k]
  BY <1>1, <1>2, AheadIs
<1>4. n \in Nat /\ \A k \in 1..n : k - 1 \in 0..n /\ k - 1 \in 0..m - 1
  BY <1>1
<1>5. /\ \A k \in 0..m - 1 : q[k] \in NotHeld(ch)
      /\ \A i, j \in 0..m - 1 : q[i] = q[j] => i = j
  BY <1>2 DEF Chain
<1>6. \A x \in NotHeld(ch) : x \in V!Voices
  BY DEF NotHeld
<1>7. mine = [k \in 1..n |-> mine[k]] /\ \A k \in 1..n : mine[k] = q[k - 1] /\ mine[k] \in NotHeld(ch)
  BY <1>3, <1>4, <1>5
<1> HIDE DEF mine
<1>8. mine \in [1..n -> V!Voices]
  BY <1>6, <1>7
<1>9. mine \in Seq(V!Voices) /\ Len(mine) = n
  BY <1>4, <1>8
<1>10. /\ new \in [V!Voices -> Seq(V!Voices)] /\ new[v] = mine
       /\ \A w \in V!Voices : w # v => new[w] = ch[w]
  BY <1>1, <1>9
<1> HIDE DEF new
<1>11. ch[v] = <<>>
  BY <1>1
<1>12. \A c \in NotHeld(ch) : c \in NotHeld(new) <=> \A k \in 0..n - 1 : q[k] # c
  <2> SUFFICES ASSUME NEW c \in NotHeld(ch)
               PROVE  c \in NotHeld(new) <=> \A k \in 0..n - 1 : q[k] # c
    OBVIOUS
  <2>1. c \in V!Voices /\ \A w \in V!Voices : \A i \in 1..Len(ch[w]) : ch[w][i] # c
    BY DEF NotHeld
  <2>2. ASSUME c \in NotHeld(new), NEW k \in 0..n - 1, q[k] = c PROVE FALSE
    <3>1. k + 1 \in 1..n /\ (k + 1) - 1 = k
      BY <1>4
    <3>2. mine[k + 1] = c
      BY <1>7, <2>2, <3>1
    <3> QED BY <1>9, <1>10, <2>2, <3>1, <3>2 DEF NotHeld
  <2>3. ASSUME \A k \in 0..n - 1 : q[k] # c PROVE c \in NotHeld(new)
    <3> SUFFICES ASSUME NEW w \in V!Voices, NEW i \in 1..Len(new[w]) PROVE new[w][i] # c
      BY <2>1 DEF NotHeld
    <3>1. CASE w = v
      <4>1. i \in 1..n /\ i - 1 \in 0..n - 1
        BY <1>9, <1>10, <3>1
      <4> QED BY <1>7, <1>10, <2>3, <3>1, <4>1
    <3>2. CASE w # v
      BY <1>10, <2>1, <3>2
    <3> QED BY <3>1, <3>2
  <2> QED BY <2>2, <2>3
<1>13. NotHeld(new) \subseteq NotHeld(ch)
  <2> SUFFICES ASSUME NEW c \in NotHeld(new) PROVE c \in NotHeld(ch)
    OBVIOUS
  <2>1. c \in V!Voices /\ \A w \in V!Voices : \A i \in 1..Len(new[w]) : new[w][i] # c
    BY DEF NotHeld
  <2>2. ASSUME NEW w \in V!Voices, NEW i \in 1..Len(ch[w]) PROVE ch[w][i] # c
    <3>1. w # v
      BY <1>11
    <3> QED BY <1>10, <2>1, <3>1
  <2> QED BY <2>1, <2>2 DEF NotHeld
<1>14. PICK p : Chain(q[n], nx, NotHeld(new), m - n, NoOne, p)
  <2>1. Without(NotHeld(new), NotHeld(ch), q, n)
    BY <1>12, <1>13 DEF Without
  <2>2. NoOne \notin NotHeld(ch)
    BY <1>6, VoiceNumbers
  <2> QED BY <1>1, <1>2, <2>1, <2>2, ChainTake
<1>15. OneHolder(new)
  <2> SUFFICES ASSUME NEW w \in V!Voices, NEW u \in V!Voices, NEW i \in 1..Len(new[w]), NEW j \in 1..Len(new[u]),
                      new[w][i] = new[u][j]
               PROVE  w = u /\ i = j
    BY DEF OneHolder
  <2>1. CASE w = v /\ u = v
    <3>1. i \in 1..n /\ j \in 1..n
      BY <1>9, <1>10, <2>1
    <3>2. q[i - 1] = q[j - 1]
      BY <1>7, <1>10, <2>1, <3>1
    <3>3. i - 1 = j - 1
      BY <1>4, <1>5, <3>1, <3>2
    <3> QED BY <2>1, <3>1, <3>3
  <2>2. CASE w = v /\ u # v
    <3>1. i \in 1..n /\ new[u] = ch[u]
      BY <1>9, <1>10, <2>2
    <3>2. new[w][i] \in NotHeld(ch)
      BY <1>7, <1>10, <2>2, <3>1
    <3> QED BY <3>1, <3>2 DEF NotHeld
  <2>3. CASE w # v /\ u = v
    <3>1. j \in 1..n /\ new[w] = ch[w]
      BY <1>9, <1>10, <2>3
    <3>2. new[u][j] \in NotHeld(ch)
      BY <1>7, <1>10, <2>3, <3>1
    <3> QED BY <3>1, <3>2 DEF NotHeld
  <2>4. CASE w # v /\ u # v
    <3>1. new[w] = ch[w] /\ new[u] = ch[u]
      BY <1>10, <2>4
    <3> QED BY <3>1 DEF ChannelsFit, OneHolder
  <2> QED BY <2>1, <2>2, <2>3, <2>4
<1>16. \A w \in V!Voices : w \notin ids \cup {v} => new[w] = <<>>
  BY <1>1, <1>10
<1>17. m - n \in Nat
  BY <1>1
<1>18. Ahead(head0, nx, n)[n] = q[n]
  BY <1>3, <1>4
<1>19. ChannelsFit(new, ids \cup {v}, q[n], nx, m - n)
  BY <1>1, <1>10, <1>14, <1>15, <1>16, <1>17 DEF ChannelsFit
<1> QED BY <1>18, <1>19 DEF new, mine

IsVoices(s) ==
  s = [link |-> s.link, prevNext |-> s.prevNext, used |-> s.used, channels |-> s.channels,
       firstFree |-> s.firstFree, nextFree |-> s.nextFree, freeCount |-> s.freeCount, order |-> s.order]

VoicesFit(s) ==
  /\ IsVoices(s) /\ UsedFit(s.link, s.prevNext, s.used)
  /\ ChannelsFit(s.channels, s.used, s.firstFree, s.nextFree, s.freeCount)

LEMMA ReleasedIs ==
  ASSUME NEW s, IsVoices(s), NEW v
  PROVE  V!Released(s, v) =
           [link |-> s.link, prevNext |-> s.prevNext, used |-> s.used,
            channels |-> [s.channels EXCEPT ![v] = <<>>],
            firstFree |-> BackFirst(s.firstFree, s.channels[v]),
            nextFree |-> BackNext(s.firstFree, s.nextFree, s.channels[v]),
            freeCount |-> s.freeCount + Len(s.channels[v]), order |-> s.order]
<1> DEFINE mine == s.channels[v]
<1>1. s = [link |-> s.link, prevNext |-> s.prevNext, used |-> s.used, channels |-> s.channels,
       firstFree |-> s.firstFree, nextFree |-> s.nextFree, freeCount |-> s.freeCount, order |-> s.order]
  BY DEF IsVoices
<1>2. V!Released(s, v) = [s EXCEPT !.freeCount = s.freeCount + Len(mine),
                !.firstFree = BackFirst(s.firstFree, mine),
                !.nextFree = BackNext(s.firstFree, s.nextFree, mine),
                !.channels = [s.channels EXCEPT ![v] = <<>>]]
  BY DEF V!Released, BackFirst, BackNext
<1> HIDE DEF mine
<1>3. V!Released(s, v) = [link |-> s.link, prevNext |-> s.prevNext, used |-> s.used,
            channels |-> [s.channels EXCEPT ![v] = <<>>],
            firstFree |-> BackFirst(s.firstFree, mine),
            nextFree |-> BackNext(s.firstFree, s.nextFree, mine),
            freeCount |-> s.freeCount + Len(mine), order |-> s.order]
  BY <1>1, <1>2
<1> QED BY <1>3 DEF mine

LEMMA UnlinkedIs ==
  ASSUME NEW s, IsVoices(s), NEW v
  PROVE  V!Unlinked(s, v) =
           [link |-> OutAhead(s.link, s.prevNext, v), prevNext |-> OutBack(s.link, s.prevNext, v),
            used |-> s.used, channels |-> s.channels, firstFree |-> s.firstFree,
            nextFree |-> s.nextFree, freeCount |-> s.freeCount, order |-> s.order]
<1>1. s = [link |-> s.link, prevNext |-> s.prevNext, used |-> s.used, channels |-> s.channels,
       firstFree |-> s.firstFree, nextFree |-> s.nextFree, freeCount |-> s.freeCount, order |-> s.order]
  BY DEF IsVoices
<1>2. V!Unlinked(s, v) = [s EXCEPT !.link = OutAhead(s.link, s.prevNext, v),
                                   !.prevNext = OutBack(s.link, s.prevNext, v)]
  BY DEF V!Unlinked, OutAhead, OutBack
<1> QED BY <1>1, <1>2

LEMMA LinkedFirstIs ==
  ASSUME NEW s, IsVoices(s), NEW v
  PROVE  V!LinkedFirst(s, v) =
           [link |-> FirstAhead(s.link, v), prevNext |-> FirstBack(s.link, s.prevNext, v),
            used |-> s.used, channels |-> s.channels, firstFree |-> s.firstFree,
            nextFree |-> s.nextFree, freeCount |-> s.freeCount, order |-> s.order]
<1>1. s = [link |-> s.link, prevNext |-> s.prevNext, used |-> s.used, channels |-> s.channels,
       firstFree |-> s.firstFree, nextFree |-> s.nextFree, freeCount |-> s.freeCount, order |-> s.order]
  BY DEF IsVoices
<1>2. V!LinkedFirst(s, v) = [s EXCEPT !.link = FirstAhead(s.link, v),
                                      !.prevNext = FirstBack(s.link, s.prevNext, v)]
  BY DEF V!LinkedFirst, FirstAhead, FirstBack
<1> QED BY <1>1, <1>2

LEMMA AllocatedIs ==
  ASSUME NEW s, IsVoices(s), NEW v, NEW n
  PROVE  V!Allocated(s, v, n) =
           [link |-> s.link, prevNext |-> s.prevNext, used |-> s.used,
            channels |-> [s.channels EXCEPT ![v] = [k \in 1..n |-> Ahead(s.firstFree, s.nextFree, n)[k - 1]]],
            firstFree |-> Ahead(s.firstFree, s.nextFree, n)[n],
            nextFree |-> s.nextFree, freeCount |-> s.freeCount - n, order |-> s.order]
<1>1. s = [link |-> s.link, prevNext |-> s.prevNext, used |-> s.used, channels |-> s.channels,
       firstFree |-> s.firstFree, nextFree |-> s.nextFree, freeCount |-> s.freeCount, order |-> s.order]
  BY DEF IsVoices
<1> DEFINE walk == Ahead(s.firstFree, s.nextFree, n)
<1>2. V!Allocated(s, v, n) = [s EXCEPT !.freeCount = s.freeCount - n, !.firstFree = walk[n],
                                !.channels = [s.channels EXCEPT ![v] = [k \in 1..n |-> walk[k - 1]]]]
  BY DEF V!Allocated, Ahead
<1> HIDE DEF walk
<1>3. V!Allocated(s, v, n) =
           [link |-> s.link, prevNext |-> s.prevNext, used |-> s.used,
            channels |-> [s.channels EXCEPT ![v] = [k \in 1..n |-> walk[k - 1]]],
            firstFree |-> walk[n],
            nextFree |-> s.nextFree, freeCount |-> s.freeCount - n, order |-> s.order]
  BY <1>1, <1>2
<1> QED BY <1>3 DEF walk

LEMMA VoiceDropped ==
  ASSUME V!AudioVoicesAssumption, NEW s, VoicesFit(s), NEW v \in s.used
  PROVE  VoicesFit(V!Dropped(s, v)) /\ V!Dropped(s, v).used = s.used \ {v}
<1> DEFINE r == V!Released(s, v)
           u == V!Unlinked(r, v)
           d == V!Dropped(s, v)
<1>1. v \in V!Voices /\ IsVoices(s)
  BY DEF VoicesFit, UsedFit
<1>2. /\ IsVoices(r) /\ r.link = s.link /\ r.prevNext = s.prevNext /\ r.used = s.used
      /\ r.channels = [s.channels EXCEPT ![v] = <<>>]
      /\ r.firstFree = BackFirst(s.firstFree, s.channels[v])
      /\ r.nextFree = BackNext(s.firstFree, s.nextFree, s.channels[v])
      /\ r.freeCount = s.freeCount + Len(s.channels[v])
  <2>1. r = [link |-> s.link, prevNext |-> s.prevNext, used |-> s.used,
             channels |-> [s.channels EXCEPT ![v] = <<>>],
             firstFree |-> BackFirst(s.firstFree, s.channels[v]),
             nextFree |-> BackNext(s.firstFree, s.nextFree, s.channels[v]),
             freeCount |-> s.freeCount + Len(s.channels[v]), order |-> s.order]
    BY <1>1, ReleasedIs
  <2> HIDE DEF r
  <2> QED BY <2>1 DEF IsVoices
<1> HIDE DEF r
<1>3. /\ IsVoices(u) /\ u.link = OutAhead(r.link, r.prevNext, v) /\ u.prevNext = OutBack(r.link, r.prevNext, v)
      /\ u.used = r.used /\ u.channels = r.channels /\ u.firstFree = r.firstFree
      /\ u.nextFree = r.nextFree /\ u.freeCount = r.freeCount
  <2>1. u = [link |-> OutAhead(r.link, r.prevNext, v), prevNext |-> OutBack(r.link, r.prevNext, v),
             used |-> r.used, channels |-> r.channels, firstFree |-> r.firstFree,
             nextFree |-> r.nextFree, freeCount |-> r.freeCount, order |-> r.order]
    BY <1>2, UnlinkedIs
  <2> HIDE DEF u
  <2> QED BY <2>1 DEF IsVoices
<1>4. d = [u EXCEPT !.used = @ \ {v}, !.order[v] = 0]
  BY DEF r, V!Dropped
<1> HIDE DEF u, d
<1>5. /\ IsVoices(d) /\ d.link = u.link /\ d.prevNext = u.prevNext /\ d.used = u.used \ {v}
      /\ d.channels = u.channels /\ d.firstFree = u.firstFree
      /\ d.nextFree = u.nextFree /\ d.freeCount = u.freeCount
  BY <1>3, <1>4 DEF IsVoices
<1>6. UsedFit(d.link, d.prevNext, d.used)
  BY <1>2, <1>3, <1>5, VoiceOut DEF VoicesFit
<1>7. ChannelsFit(d.channels, d.used, d.firstFree, d.nextFree, d.freeCount)
  <2>1. ChannelsFit(s.channels, s.used, s.firstFree, s.nextFree, s.freeCount)
    BY DEF VoicesFit
  <2>2. ChannelsFit([s.channels EXCEPT ![v] = <<>>], s.used \ {v}, BackFirst(s.firstFree, s.channels[v]),
                    BackNext(s.firstFree, s.nextFree, s.channels[v]), s.freeCount + Len(s.channels[v]))
    BY <1>1, <2>1, ChannelsBack
  <2> QED BY <1>2, <1>3, <1>5, <2>2
<1>8. VoicesFit(d) /\ d.used = s.used \ {v}
  BY <1>2, <1>3, <1>5, <1>6, <1>7 DEF VoicesFit
<1> QED BY <1>8 DEF d

LEMMA VoiceStarted ==
  ASSUME V!AudioVoicesAssumption, NEW s, VoicesFit(s), NEW v \in V!Voices, v \notin s.used,
         NEW n \in Nat, n <= s.freeCount
  PROVE  VoicesFit(V!Allocated(V!LinkedFirst([s EXCEPT !.used = @ \cup {v}], v), v, n))
<1> DEFINE r == [s EXCEPT !.used = @ \cup {v}]
           u == V!LinkedFirst(r, v)
           d == V!Allocated(u, v, n)
<1>1. IsVoices(s)
  BY DEF VoicesFit
<1>2. /\ IsVoices(r) /\ r.link = s.link /\ r.prevNext = s.prevNext /\ r.used = s.used \cup {v}
      /\ r.channels = s.channels /\ r.firstFree = s.firstFree
      /\ r.nextFree = s.nextFree /\ r.freeCount = s.freeCount
  BY <1>1 DEF IsVoices
<1> HIDE DEF r
<1>3. /\ IsVoices(u) /\ u.link = FirstAhead(r.link, v) /\ u.prevNext = FirstBack(r.link, r.prevNext, v)
      /\ u.used = r.used /\ u.channels = r.channels /\ u.firstFree = r.firstFree
      /\ u.nextFree = r.nextFree /\ u.freeCount = r.freeCount
  <2>1. u = [link |-> FirstAhead(r.link, v), prevNext |-> FirstBack(r.link, r.prevNext, v),
             used |-> r.used, channels |-> r.channels, firstFree |-> r.firstFree,
             nextFree |-> r.nextFree, freeCount |-> r.freeCount, order |-> r.order]
    BY <1>2, LinkedFirstIs
  <2> HIDE DEF u
  <2> QED BY <2>1 DEF IsVoices
<1> HIDE DEF u
<1>4. /\ IsVoices(d) /\ d.link = u.link /\ d.prevNext = u.prevNext /\ d.used = u.used
      /\ d.channels = [u.channels EXCEPT ![v] = [k \in 1..n |-> Ahead(u.firstFree, u.nextFree, n)[k - 1]]]
      /\ d.firstFree = Ahead(u.firstFree, u.nextFree, n)[n]
      /\ d.nextFree = u.nextFree /\ d.freeCount = u.freeCount - n
  <2>1. d = [link |-> u.link, prevNext |-> u.prevNext, used |-> u.used,
             channels |-> [u.channels EXCEPT ![v] = [k \in 1..n |-> Ahead(u.firstFree, u.nextFree, n)[k - 1]]],
             firstFree |-> Ahead(u.firstFree, u.nextFree, n)[n],
             nextFree |-> u.nextFree, freeCount |-> u.freeCount - n, order |-> u.order]
    BY <1>3, AllocatedIs
  <2> HIDE DEF d
  <2> QED BY <2>1 DEF IsVoices
<1> HIDE DEF d
<1>5. UsedFit(d.link, d.prevNext, d.used)
  BY <1>2, <1>3, <1>4, VoiceFirst DEF VoicesFit
<1>6. ChannelsFit(d.channels, d.used, d.firstFree, d.nextFree, d.freeCount)
  <2>1. n \in 0..s.freeCount /\ ChannelsFit(s.channels, s.used, s.firstFree, s.nextFree, s.freeCount)
    BY DEF VoicesFit, ChannelsFit
  <2>2. ChannelsFit([s.channels EXCEPT ![v] = [k \in 1..n |-> Ahead(s.firstFree, s.nextFree, n)[k - 1]]],
                    s.used \cup {v}, Ahead(s.firstFree, s.nextFree, n)[n], s.nextFree, s.freeCount - n)
    BY <2>1, ChannelsTaken
  <2> QED BY <1>2, <1>3, <1>4, <2>2
<1>7. VoicesFit(d)
  BY <1>4, <1>5, <1>6 DEF VoicesFit
<1> QED BY <1>7 DEF d, u, r

LEMMA VoiceStateIs ==
  /\ IsVoices(V!State) /\ V!State.used = used /\ V!State.freeCount = freeCount
  /\ V!State.link = link /\ V!State.prevNext = prevNext /\ V!State.channels = channels
  /\ V!State.firstFree = firstFree /\ V!State.nextFree = nextFree
BY DEF IsVoices, V!State

LEMMA VoiceBecomes ==
  ASSUME NEW s, VoicesFit(s), V!Becomes(s) PROVE VoicesFit(V!State)'
<1>1. V!State' = [link |-> s.link, prevNext |-> s.prevNext, used |-> s.used, channels |-> s.channels,
         firstFree |-> s.firstFree, nextFree |-> s.nextFree, freeCount |-> s.freeCount, order |-> s.order]
  BY DEF V!Becomes, V!State
<1>2. V!State' = s
  BY <1>1 DEF VoicesFit, IsVoices
<1> QED BY <1>2

LEMMA VoicesInit ==
  ASSUME V!AudioVoicesAssumption, V!Init PROVE VoicesFit(V!State)
<1> DEFINE none == [k \in 0..0 |-> NoOne]
           q == [k \in 0..NumVoices |-> IF k = NumVoices THEN NoOne ELSE k]
<1>1. /\ link \in [V!Voices \cup {V!Head0} -> V!Voices \cup {NoOne}] /\ link[V!Head0] = NoOne
      /\ prevNext \in [V!Voices -> V!Voices \cup {V!Head0}] /\ used = {}
  <2>1. 0 \in V!Voices
    BY DEF V!AudioVoicesAssumption, V!Voices
  <2> QED BY <2>1, NoOneIs, VoiceNumbers DEF V!Init
<1>2. UsedFit(link, prevNext, used)
  <2>1. none \in [0..0 -> {} \cup {NoOne}] /\ none[0] = NoOne /\ 0..0 - 1 = {}
    OBVIOUS
  <2> HIDE DEF none
  <2>2. Chain(link[V!Head0], link, used, 0, NoOne, none)
    BY <1>1, <2>1 DEF Chain
  <2>3. PointsBack(prevNext, none, 0)
    BY <2>1 DEF PointsBack
  <2> QED BY <1>1, <2>2, <2>3 DEF UsedFit
<1>3. /\ NumVoices \in Nat \ {0} /\ V!Voices = 0..NumVoices - 1 /\ freeCount = NumVoices /\ firstFree = 0
      /\ channels = [v \in V!Voices |-> <<>>]
      /\ nextFree = [c \in V!Voices |-> IF c # NumVoices - 1 THEN c + 1 ELSE NoOne]
  BY NoOneIs DEF V!Init, V!AudioVoicesAssumption, V!Voices
<1>4. /\ channels \in [V!Voices -> Seq(V!Voices)] /\ \A v \in V!Voices : 1..Len(channels[v]) = {}
      /\ \A v \in V!Voices : channels[v] = <<>>
  BY <1>3
<1>5. NotHeld(channels) = V!Voices /\ OneHolder(channels)
  BY <1>4 DEF NotHeld, OneHolder
<1>6. q \in [0..NumVoices -> V!Voices \cup {NoOne}] /\ q[NumVoices] = NoOne /\ \A k \in 0..NumVoices - 1 : q[k] = k
  BY <1>3
<1> HIDE DEF q
<1>7. nextFree \in [V!Voices -> Int]
  BY <1>3, NoOneIs
<1>8. \A k \in 0..NumVoices - 1 : q[k + 1] = nextFree[k]
  <2> SUFFICES ASSUME NEW k \in 0..NumVoices - 1 PROVE q[k + 1] = nextFree[k]
    OBVIOUS
  <2>1. CASE k = NumVoices - 1
    BY <1>3, <1>6, <2>1
  <2>2. CASE k # NumVoices - 1
    <3>1. k + 1 \in 0..NumVoices - 1
      BY <1>3, <2>2
    <3> QED BY <1>3, <1>6, <2>2, <3>1
  <2> QED BY <2>1, <2>2
<1>9. Chain(firstFree, nextFree, V!Voices, NumVoices, NoOne, q)
  BY <1>3, <1>6, <1>8 DEF Chain
<1>10. ChannelsFit(channels, used, firstFree, nextFree, freeCount)
  BY <1>3, <1>4, <1>5, <1>7, <1>9 DEF ChannelsFit
<1> QED BY <1>2, <1>10, VoiceStateIs DEF VoicesFit

LEMMA VoicesStep ==
  ASSUME V!AudioVoicesAssumption, VoicesFit(V!State), [V!Next]_(V!vars) PROVE VoicesFit(V!State)'
<1>1. ASSUME NEW v \in V!Voices, V!audrvVoiceDrop(v) PROVE VoicesFit(V!State)'
  <2>1. v \in V!State.used /\ V!Becomes(V!Dropped(V!State, v))
    BY <1>1, VoiceStateIs DEF V!audrvVoiceDrop
  <2>2. VoicesFit(V!Dropped(V!State, v))
    BY <2>1, VoiceDropped
  <2> QED BY <2>1, <2>2, VoiceBecomes
<1>2. ASSUME NEW v \in V!Voices, NEW n \in 1..MaxChannels, V!audrvVoiceInit(v, n) PROVE VoicesFit(V!State)'
  <2> DEFINE s == IF v \in used THEN V!Dropped(V!State, v) ELSE V!State
             t == V!Allocated(V!LinkedFirst([s EXCEPT !.used = @ \cup {v}], v), v, n)
  <2>1. V!Becomes(IF s.freeCount < n THEN s ELSE t)
    BY <1>2 DEF V!audrvVoiceInit
  <2>2. VoicesFit(s) /\ v \notin s.used
    <3>1. CASE v \in used
      <4>1. v \in V!State.used
        BY <3>1, VoiceStateIs
      <4>2. VoicesFit(V!Dropped(V!State, v)) /\ V!Dropped(V!State, v).used = V!State.used \ {v}
        BY <4>1, VoiceDropped
      <4> QED BY <3>1, <4>2
    <3>2. CASE v \notin used
      BY <3>2, VoiceStateIs
    <3> QED BY <3>1, <3>2
  <2> HIDE DEF s
  <2>3. s.freeCount \in Nat
    BY <2>2 DEF VoicesFit, ChannelsFit
  <2>4. n \in Nat
    BY DEF V!AudioVoicesAssumption
  <2>5. CASE s.freeCount < n
    <3>1. V!Becomes(s)
      BY <2>1, <2>5
    <3> QED BY <2>2, <3>1, VoiceBecomes
  <2>6. CASE ~(s.freeCount < n)
    <3>1. n <= s.freeCount
      BY <2>3, <2>4, <2>6
    <3>2. VoicesFit(t)
      BY <2>2, <2>4, <3>1, VoiceStarted
    <3> HIDE DEF t
    <3>3. V!Becomes(t)
      BY <2>1, <2>6
    <3> QED BY <3>2, <3>3, VoiceBecomes
  <2> QED BY <2>5, <2>6
<1>3. ASSUME UNCHANGED <<link, prevNext, used, channels, firstFree, nextFree, freeCount>> PROVE VoicesFit(V!State)'
  <2>1. /\ UsedFit(link, prevNext, used)'
        /\ ChannelsFit(channels, used, firstFree, nextFree, freeCount)'
    BY <1>3, VoiceStateIs DEF VoicesFit
  <2>2. V!State' = [link |-> link', prevNext |-> prevNext', used |-> used', channels |-> channels',
         firstFree |-> firstFree', nextFree |-> nextFree', freeCount |-> freeCount', order |-> order']
    BY DEF V!State
  <2> QED BY <2>1, <2>2 DEF VoicesFit, IsVoices
<1>4. CASE V!audrvUpdate
  BY <1>3, <1>4 DEF V!audrvUpdate
<1>5. CASE UNCHANGED V!vars
  BY <1>3, <1>5 DEF V!vars
<1> QED BY <1>1, <1>2, <1>4, <1>5 DEF V!Next

(* What Used and Free walk are the lists. *)
Steps(head0, nx) ==
  LET spot[k \in 0..NumVoices] == IF k = 0 THEN head0 ELSE IF spot[k - 1] < 0 THEN -1 ELSE nx[spot[k - 1]] IN spot

AllOf(walk, ids, n) ==
  /\ n <= NumVoices /\ walk[n] = -1 /\ walk[NumVoices] = -1
  /\ {walk[k] : k \in 0..NumVoices} \ {-1} = ids

LEMMA VoiceListed ==
  ASSUME V!AudioVoicesAssumption, NEW head0, NEW nx, NEW ids, ids \subseteq V!Voices,
         NEW n \in Nat, NEW q, Chain(head0, nx, ids, n, NoOne, q), NEW walk, walk = Steps(head0, nx)
  PROVE  AllOf(walk, ids, n)
<1> DEFINE most == NumVoices
           Goes(f) == f = [k \in 0..most |-> IF k = 0 THEN head0
                                             ELSE IF f[k - 1] < 0 THEN -1 ELSE nx[f[k - 1]]]
<1>1. Goes(walk) \/ ~ \E f : Goes(f)
  BY DEF Steps
<1>2. NoOne \notin ids /\ \A x \in ids : x \in Nat
  BY VoiceNumbers
<1>3. most \in Nat /\ n <= most
  <2>1. most \in Nat /\ V!Voices = 0..most - 1
    BY DEF V!AudioVoicesAssumption, V!Voices
  <2>2. IsFiniteSet(ids) /\ Cardinality(ids) = n
    BY <1>2, ChainCounts DEF IsChain
  <2>3. IsFiniteSet(0..most - 1) /\ Cardinality(0..most - 1) = most
    BY <2>1, FS_Interval
  <2>4. Cardinality(ids) <= Cardinality(0..most - 1)
    BY <2>1, <2>3, FS_Subset
  <2> QED BY <2>1, <2>2, <2>3, <2>4
<1>5. PICK w : Walked(w, head0, nx, ids, n, NoOne, q, most)
  BY <1>2, <1>3, WalkedGoesOn
<1>6. /\ w[0] = head0 /\ w[most] = NoOne /\ w \in [0..most -> ids \cup {NoOne}]
      /\ \A k \in 1..most : w[k] = IF w[k - 1] = NoOne THEN NoOne ELSE nx[w[k - 1]]
      /\ \A x \in ids : \E k \in 0..most : w[k] = x
      /\ \A k \in 0..most : w[k] = IF k <= n THEN q[k] ELSE NoOne
  BY <1>5 DEF Walked
<1>7. \A k \in 0..most : w[k] = IF k = 0 THEN head0 ELSE IF w[k - 1] < 0 THEN -1 ELSE nx[w[k - 1]]
  <2>1. \A k \in 0..most : k = 0 \/ (k \in 1..most /\ k - 1 \in 0..most)
    BY <1>3
  <2>2. \A k \in 0..most : w[k] < 0 <=> w[k] = NoOne
    <3> SUFFICES ASSUME NEW k \in 0..most PROVE w[k] < 0 <=> w[k] = NoOne
      OBVIOUS
    <3>1. w[k] \in ids \cup {NoOne}
      BY <1>6
    <3>2. w[k] \in Nat \/ w[k] = NoOne
      BY <1>2, <3>1
    <3> QED BY <3>2, NoOneIs
  <2> QED BY <1>6, <2>1, <2>2, NoOneIs
<1>8. Goes(w)
  <2>1. w = [k \in 0..most |-> w[k]]
    BY <1>6
  <2>2. [k \in 0..most |-> w[k]] = [k \in 0..most |-> IF k = 0 THEN head0
                                          ELSE IF w[k - 1] < 0 THEN -1 ELSE nx[w[k - 1]]]
    BY <1>7
  <2> QED BY <2>1, <2>2
<1>9. Goes(walk)
  BY <1>1, <1>8
<1>10. \A k \in 0..most : walk[k] = IF k = 0 THEN head0 ELSE IF walk[k - 1] < 0 THEN -1 ELSE nx[walk[k - 1]]
  BY <1>9
<1> HIDE DEF most
<1>11. \A k \in 0..most : walk[k] = w[k]
  <2>1. walk[0] = w[0]
    BY <1>3, <1>6, <1>10
  <2>2. \A k \in 1..most : walk[k - 1] = w[k - 1] => walk[k] = w[k]
    <3> SUFFICES ASSUME NEW k \in 1..most, walk[k - 1] = w[k - 1] PROVE walk[k] = w[k]
      OBVIOUS
    <3>1. k \in 0..most /\ k # 0
      BY <1>3
    <3> QED BY <1>7, <1>10, <3>1
  <2>3. SameSteps(walk, w, most)
    BY <2>1, <2>2 DEF SameSteps
  <2> QED BY <1>3, <2>3, SameWalk
<1>12. {walk[k] : k \in 0..most} \ {NoOne} \subseteq ids
  <2>1. \A k \in 0..most : walk[k] \in ids \cup {NoOne}
    BY <1>6, <1>11
  <2> QED BY <2>1
<1>13. ids \subseteq {walk[k] : k \in 0..most} \ {NoOne}
  <2>1. \A x \in ids : \E k \in 0..most : walk[k] = x
    BY <1>6, <1>11
  <2> QED BY <1>2, <2>1
<1>14. n \in 0..most /\ most \in 0..most /\ q[n] = NoOne
  BY <1>3 DEF Chain
<1>15. walk[n] = -1 /\ walk[most] = -1
  BY <1>6, <1>11, <1>14, NoOneIs
<1>16. {walk[k] : k \in 0..most} \ {-1} = ids
  BY <1>12, <1>13, NoOneIs
<1> QED BY <1>3, <1>15, <1>16 DEF most, AllOf

LEMMA VoicesSound ==
  ASSUME V!AudioVoicesAssumption, VoicesFit(V!State) PROVE V!VoicesAndChannels
<1>1. UsedFit(link, prevNext, used) /\ ChannelsFit(channels, used, firstFree, nextFree, freeCount)
  BY VoiceStateIs DEF VoicesFit
<1>2a. PICK n \in Nat : \E q : Chain(link[V!Head0], link, used, n, NoOne, q) /\ PointsBack(prevNext, q, n)
  BY <1>1 DEF UsedFit
<1>2. PICK q : Chain(link[V!Head0], link, used, n, NoOne, q) /\ PointsBack(prevNext, q, n)
  BY <1>2a
<1>3. V!Used = Steps(link[V!Head0], link) /\ V!Free = Steps(firstFree, nextFree)
  BY DEF V!Used, V!Free, Steps
<1>4. V!Used[NumVoices] = -1 /\ {V!Used[k] : k \in 0..NumVoices} \ {-1} = used
  <2>1. used \subseteq V!Voices
    BY <1>1 DEF UsedFit
  <2>2. AllOf(V!Used, used, n)
    BY <1>2, <1>3, <2>1, VoiceListed
  <2> QED BY <2>2 DEF AllOf
<1>5. \A v \in used : link[prevNext[v]] = v
  <2> SUFFICES ASSUME NEW v \in used PROVE link[prevNext[v]] = v
    OBVIOUS
  <2>1. PICK k \in 0..n - 1 : q[k] = v
    BY <1>2 DEF Chain
  <2>2. prevNext[q[k]] = IF k = 0 THEN V!Head0 ELSE q[k - 1]
    BY <1>2 DEF PointsBack
  <2>3. CASE k = 0
    BY <1>2, <2>1, <2>2, <2>3 DEF Chain
  <2>4. CASE k # 0
    <3>1. k - 1 \in 0..n - 1 /\ (k - 1) + 1 = k
      BY <2>4
    <3>2. q[(k - 1) + 1] = link[q[k - 1]]
      BY <1>2, <3>1 DEF Chain
    <3> QED BY <2>1, <2>2, <2>4, <3>1, <3>2
  <2> QED BY <2>3, <2>4
<1>6. PICK p : Chain(firstFree, nextFree, NotHeld(channels), freeCount, NoOne, p)
  BY <1>1 DEF ChannelsFit
<1>7. freeCount \in Nat /\ NotHeld(channels) \subseteq V!Voices
  BY <1>1 DEF ChannelsFit, NotHeld
<1> DEFINE free == {V!Free[k] : k \in 0..NumVoices} \ {-1}
<1>8. V!Free[freeCount] = -1 /\ free = NotHeld(channels)
  <2>1. AllOf(V!Free, NotHeld(channels), freeCount)
    BY <1>3, <1>6, <1>7, VoiceListed
  <2> QED BY <2>1 DEF AllOf
<1>9. V!Cardinality(NotHeld(channels)) = freeCount
  <2>1. NoOne \notin NotHeld(channels)
    BY <1>7, VoiceNumbers
  <2>2. Cardinality(NotHeld(channels)) = freeCount
    BY <1>6, <1>7, <2>1, ChainCounts DEF IsChain
  <2>3. V!Cardinality(NotHeld(channels)) = Cardinality(NotHeld(channels))
    BY DEF V!Cardinality, Cardinality
  <2> QED BY <2>2, <2>3
<1>10. \A v, w \in used : v # w => V!Channel(v) \cap V!Channel(w) = {}
  <2>1. used \subseteq V!Voices /\ OneHolder(channels)
    BY <1>1 DEF UsedFit, ChannelsFit
  <2> QED BY <2>1 DEF OneHolder, V!Channel
<1>11. NotHeld(channels) = V!Voices \ UNION {V!Channel(v) : v \in used}
  <2>1. used \subseteq V!Voices /\ \A v \in V!Voices : v \notin used => channels[v] = <<>>
    BY <1>1 DEF UsedFit, ChannelsFit
  <2>2. ASSUME NEW c \in NotHeld(channels), NEW v \in used, c \in V!Channel(v) PROVE FALSE
    BY <2>1, <2>2 DEF NotHeld, V!Channel
  <2>3. ASSUME NEW c \in V!Voices, \A v \in used : c \notin V!Channel(v) PROVE c \in NotHeld(channels)
    <3> SUFFICES ASSUME NEW v \in V!Voices, NEW i \in 1..Len(channels[v]), channels[v][i] = c PROVE FALSE
      BY DEF NotHeld
    <3>1. 1..Len(<<>>) = {}
      OBVIOUS
    <3>2. v \in used
      BY <2>1, <3>1
    <3>3. c \in V!Channel(v)
      BY DEF V!Channel
    <3> QED BY <2>3, <3>2, <3>3
  <2> QED BY <1>7, <2>2, <2>3
<1> HIDE DEF free
<1>12. /\ V!Cardinality(free) = freeCount
       /\ free = V!Voices \ UNION {V!Channel(v) : v \in used}
  BY <1>8, <1>9, <1>11
<1> QED BY <1>4, <1>5, <1>8, <1>10, <1>12 DEF V!VoicesAndChannels, free

-----------------------------------------------------------------------------
(* WaveBufs: the buffers of the voice are a list, its first ones are in the *)
(* ring, and the renderer has what it was sent and has not played.          *)
HP == INSTANCE HidProofs

Place(h, i) == (h + i) % WaveRing

LEMMA Places ==
  ASSUME W!WaveBufsAssumption, NEW h \in Nat
  PROVE  /\ \A i \in Nat : Place(h, i) \in W!Ring
         /\ \A i, j \in 0..WaveRing - 1 : Place(h, i) = Place(h, j) => i = j
<1>1. WaveRing \in Nat \ {0} /\ W!Ring = 0..WaveRing - 1
  BY DEF W!WaveBufsAssumption, W!Ring
<1>2. ASSUME NEW i \in Nat PROVE Place(h, i) \in W!Ring
  <2>1. h + i \in Int
    OBVIOUS
  <2> QED BY <1>1, <2>1, HP!Divide DEF Place
<1>3. ASSUME NEW i \in 0..WaveRing - 1, NEW j \in 0..WaveRing - 1, Place(h, i) = Place(h, j) PROVE i = j
  <2>1. h + i \in Int /\ h + j \in Int /\ h + i < (h + j) + WaveRing /\ h + j < (h + i) + WaveRing
    BY <1>1
  <2>2. h + i = h + j
    BY <1>1, <1>3, <2>1, HP!SameSlot DEF Place
  <2> QED BY <2>2
<1> QED BY <1>2, <1>3

LEMMA PlaceOn ==
  ASSUME W!WaveBufsAssumption, NEW h \in Nat, NEW m \in Nat, NEW i \in Nat
  PROVE  Place(Place(h, m), i) = Place(h, m + i) /\ Place(h, m) = (h + m) % WaveRing
<1>1. WaveRing \in Nat \ {0} /\ h + m \in Int /\ i \in Int
  BY DEF W!WaveBufsAssumption
<1>2. (((h + m) % WaveRing) + i) % WaveRing = ((h + m) + i) % WaveRing
  BY <1>1, HP!Around
<1>3. (h + m) + i = h + (m + i)
  OBVIOUS
<1> QED BY <1>2, <1>3 DEF Place

(* What From walks is the list. *)
IsFrom(head0, nx, q, n) == W!From(head0, nx) = [k \in 1..n |-> q[k - 1]]

LEMMA FromIs ==
  ASSUME W!WaveBufsAssumption, NEW head0, NEW nx, NEW ids, ids \subseteq Bufs,
         NEW n \in Nat, NEW q, Chain(head0, nx, ids, n, NoBuf, q)
  PROVE  IsFrom(head0, nx, q, n)
<1> DEFINE most == W!Cardinality(Bufs)
           Goes(f) == f = [k \in 0..most |-> IF k = 0 THEN head0
                                             ELSE IF f[k - 1] = NoBuf THEN NoBuf ELSE nx[f[k - 1]]]
           walk == CHOOSE f : Goes(f)
           places == {k \in DOMAIN walk : walk[k] # NoBuf}
           long == W!Cardinality(places)
<1>1. W!From(head0, nx) = [k \in 1..long |-> walk[k - 1]]
  BY DEF W!From
<1>2. NoBuf \notin ids /\ IsFiniteSet(Bufs) /\ most = Cardinality(Bufs)
  <2>1. NoBuf \notin Bufs /\ W!IsFiniteSet(Bufs)
    BY DEF W!WaveBufsAssumption
  <2>2. W!IsFiniteSet(Bufs) <=> IsFiniteSet(Bufs)
    BY DEF W!IsFiniteSet, IsFiniteSet
  <2>3. W!Cardinality(Bufs) = Cardinality(Bufs)
    BY DEF W!Cardinality, Cardinality
  <2> QED BY <2>1, <2>2, <2>3
<1>3. most \in Nat /\ n <= most
  <2>1. IsFiniteSet(ids) /\ Cardinality(ids) = n
    BY <1>2, ChainCounts DEF IsChain
  <2>2. Cardinality(ids) <= Cardinality(Bufs) /\ Cardinality(Bufs) \in Nat
    BY <1>2, FS_Subset, FS_CardinalityType
  <2> HIDE DEF most
  <2> QED BY <1>2, <2>1, <2>2
<1> HIDE DEF most
<1>4. PICK w : Walked(w, head0, nx, ids, n, NoBuf, q, most)
  BY <1>2, <1>3, WalkedGoesOn
<1>5. /\ w[0] = head0 /\ w \in [0..most -> ids \cup {NoBuf}]
      /\ \A k \in 1..most : w[k] = IF w[k - 1] = NoBuf THEN NoBuf ELSE nx[w[k - 1]]
      /\ \A k \in 0..most : w[k] = IF k <= n THEN q[k] ELSE NoBuf
  BY <1>4 DEF Walked
<1>6. \A k \in 0..most : w[k] = IF k = 0 THEN head0 ELSE IF w[k - 1] = NoBuf THEN NoBuf ELSE nx[w[k - 1]]
  <2>1. \A k \in 0..most : k = 0 \/ k \in 1..most
    BY <1>3
  <2> QED BY <1>5, <2>1
<1>7. Goes(w)
  <2>1. w = [k \in 0..most |-> w[k]]
    BY <1>5
  <2>2. [k \in 0..most |-> w[k]] = [k \in 0..most |-> IF k = 0 THEN head0
                                          ELSE IF w[k - 1] = NoBuf THEN NoBuf ELSE nx[w[k - 1]]]
    BY <1>6
  <2> QED BY <2>1, <2>2
<1>8. Goes(walk)
  BY <1>7
<1> HIDE DEF walk
<1>9. DOMAIN walk = 0..most
      /\ \A k \in 0..most : walk[k] = IF k = 0 THEN head0
                                      ELSE IF walk[k - 1] = NoBuf THEN NoBuf ELSE nx[walk[k - 1]]
  BY <1>8
<1>10. \A k \in 0..most : walk[k] = w[k]
  <2>1. walk[0] = w[0]
    BY <1>3, <1>5, <1>9
  <2>2. \A k \in 1..most : walk[k - 1] = w[k - 1] => walk[k] = w[k]
    <3> SUFFICES ASSUME NEW k \in 1..most, walk[k - 1] = w[k - 1] PROVE walk[k] = w[k]
      OBVIOUS
    <3>1. k \in 0..most /\ k # 0
      BY <1>3
    <3> QED BY <1>6, <1>9, <3>1
  <2>3. SameSteps(walk, w, most)
    BY <2>1, <2>2 DEF SameSteps
  <2> QED BY <1>3, <2>3, SameWalk
<1>11. places = 0..n - 1
  <2>1. \A k \in 0..n - 1 : q[k] # NoBuf /\ k <= n
    BY <1>2 DEF Chain
  <2>2. q[n] = NoBuf
    BY DEF Chain
  <2>3. \A k \in 0..most : walk[k] # NoBuf <=> k \in 0..n - 1
    <3> SUFFICES ASSUME NEW k \in 0..most PROVE w[k] # NoBuf <=> k \in 0..n - 1
      BY <1>10
    <3>1. k \in 0..n - 1 \/ k = n \/ ~(k <= n)
      BY <1>3
    <3> QED BY <1>5, <2>1, <2>2, <3>1
  <2>4. \A k \in 0..n - 1 : k \in 0..most
    BY <1>3
  <2>5. places = {k \in 0..most : walk[k] # NoBuf}
    BY <1>9
  <2> QED BY <2>3, <2>4, <2>5
<1>12. long = n
  <2>1. W!Cardinality(places) = Cardinality(places)
    BY DEF W!Cardinality, Cardinality
  <2>2. Cardinality(0..n - 1) = n
    <3>1. Cardinality(0..n - 1) = IF 0 > n - 1 THEN 0 ELSE (n - 1) - 0 + 1
      BY FS_Interval
    <3> QED BY <3>1
  <2> HIDE DEF places
  <2> QED BY <1>11, <2>1, <2>2
<1> HIDE DEF long
<1>13. \A k \in 1..n : walk[k - 1] = q[k - 1]
  <2> SUFFICES ASSUME NEW k \in 1..n PROVE w[k - 1] = q[k - 1] /\ k - 1 \in 0..most
    BY <1>10
  <2>1. k - 1 \in 0..most /\ k - 1 <= n
    BY <1>3
  <2> QED BY <1>5, <2>1
<1>14. [k \in 1..n |-> walk[k - 1]] = [k \in 1..n |-> q[k - 1]]
  BY <1>13
<1> QED BY <1>1, <1>12, <1>14 DEF IsFrom

(* What of q is from place d to before place s. *)
Part(q, d, s) == [i \in 1..s - d |-> q[i - 1 + d]]
NoTwice(l) == \A i, j \in 1..Len(l) : l[i] = l[j] => i = j

IsPart(q, d, s) ==
  /\ Part(q, d, s) \in Seq(Bufs) /\ Len(Part(q, d, s)) = s - d /\ NoTwice(Part(q, d, s))
  /\ \A i \in 1..s - d : Part(q, d, s)[i] = q[i - 1 + d] /\ i - 1 + d \in d..s - 1

LEMMA PartIs ==
  ASSUME NEW head0, NEW nx, NEW ids, ids \subseteq Bufs, NEW n \in Nat, NEW q,
         Chain(head0, nx, ids, n, NoBuf, q), NEW d \in Nat, NEW s \in Nat, d <= s, s <= n
  PROVE  IsPart(q, d, s)
<1> DEFINE l == Part(q, d, s)
<1>1. s - d \in Nat /\ \A i \in 1..s - d : i - 1 + d \in 0..n - 1 /\ i - 1 + d \in d..s - 1
  OBVIOUS
<1>2. /\ \A k \in 0..n - 1 : q[k] \in Bufs
      /\ \A i, j \in 0..n - 1 : q[i] = q[j] => i = j
  BY DEF Chain
<1>3. l = [i \in 1..s - d |-> l[i]] /\ \A i \in 1..s - d : l[i] = q[i - 1 + d]
  BY DEF Part
<1> HIDE DEF l
<1>4. l \in [1..s - d -> Bufs]
  BY <1>1, <1>2, <1>3
<1>5. l \in Seq(Bufs) /\ Len(l) = s - d
  BY <1>1, <1>4
<1>6. NoTwice(l)
  <2> SUFFICES ASSUME NEW i \in 1..s - d, NEW j \in 1..s - d, l[i] = l[j] PROVE i = j
    BY <1>5 DEF NoTwice
  <2>1. i - 1 + d = j - 1 + d
    BY <1>1, <1>2, <1>3
  <2> QED BY <2>1
<1> QED BY <1>1, <1>3, <1>5, <1>6 DEF l, IsPart

(* The buffers from place m of the list on. *)
LEMMA FromPlace ==
  ASSUME W!WaveBufsAssumption, NEW head0, NEW nx, NEW ids, ids \subseteq Bufs,
         NEW n \in Nat, NEW q, Chain(head0, nx, ids, n, NoBuf, q), NEW m \in 0..n
  PROVE  W!From(q[m], nx) = Part(q, m, n)
<1> DEFINE rest == {x \in ids : \A k \in 0..m - 1 : q[k] # x}
<1>1. Without(rest, ids, q, m)
  BY DEF Without
<1>2. rest \subseteq Bufs
  OBVIOUS
<1> HIDE DEF rest
<1>3. NoBuf \notin ids
  BY DEF W!WaveBufsAssumption
<1>4. PICK p : Chain(q[m], nx, rest, n - m, NoBuf, p) /\ Later(p, q, m, n)
  BY <1>1, <1>3, ChainTake
<1>5. n - m \in Nat
  OBVIOUS
<1>6. IsFrom(q[m], nx, p, n - m)
  BY <1>2, <1>4, <1>5, FromIs
<1>7. \A k \in 1..n - m : p[k - 1] = q[k - 1 + m]
  BY <1>4 DEF Later
<1> QED BY <1>6, <1>7 DEF IsFrom, Part

(* The ring rg, from h on, has the first c of q; s of them were sent. *)
Holds(q, n, h, c, s, rg, sn, st) ==
  /\ c \in 0..WaveRing /\ c <= n /\ s \in 0..c
  /\ \A i \in 0..c - 1 : rg[Place(h, i)] = q[i] /\ st[q[i]] \in {"Queued", "Playing"}
  /\ \A i \in 0..s - 1 : sn[Place(h, i)]
  /\ \A i \in s..c - 1 : ~sn[Place(h, i)]
  /\ \A i \in c..WaveRing - 1 : sn[Place(h, i)]
Full(q, n, c, st, wt) ==
  /\ c < WaveRing => c = n
  /\ \A i \in c..n - 1 : st[q[i]] = "Waiting"
  /\ wt = q[c]
Awaits(q, n, c, st) == \A i \in c..n - 1 : i # 0 => st[q[i]] = "Waiting"
Requeued(st, new, ids) ==
  /\ new = [b \in Bufs |-> new[b]]
  /\ \A b \in Bufs : new[b] \in {"Queued", st[b]} /\ (b \notin ids => new[b] = st[b])

LEMMA WavesQueued ==
  ASSUME W!WaveBufsAssumption, NEW head0, NEW nx, NEW ids, ids \subseteq Bufs,
         NEW n \in Nat, NEW q, Chain(head0, nx, ids, n, NoBuf, q),
         NEW h \in Nat, NEW c, NEW s, NEW sn, NEW st, Holds(q, n, h, c, s, ring, sn, st),
         Awaits(q, n, c, st), NEW w, w = Part(q, c, n),
         W!_audrvVoiceQueueWaveBufs(w, h, c, st, sn)
  PROVE  /\ Holds(q, n, h, wcount', s, ring', sent', state') /\ Full(q, n, wcount', state', waiting')
         /\ Requeued(st, state', ids)
<1> DEFINE m == IF Len(w) < WaveRing - c THEN Len(w) ELSE WaveRing - c
           Copied(p) == {i \in 1..m : W!RingIndex(h, c, i) = p}
<1>1. /\ state' = [b \in Bufs |-> IF \E i \in 1..m : w[i] = b THEN "Queued" ELSE st[b]]
      /\ ring' = [p \in W!Ring |-> IF Copied(p) = {} THEN ring[p] ELSE w[CHOOSE i \in Copied(p) : TRUE]]
      /\ sent' = [p \in W!Ring |-> sn[p] /\ Copied(p) = {}]
      /\ wcount' = c + m /\ waiting' = W!StillWaiting(w, m)
  BY DEF W!_audrvVoiceQueueWaveBufs
<1>2. /\ c \in 0..WaveRing /\ c <= n /\ s \in 0..c /\ WaveRing \in Nat \ {0}
      /\ \A i \in 0..c - 1 : ring[Place(h, i)] = q[i] /\ st[q[i]] \in {"Queued", "Playing"}
      /\ \A i \in 0..s - 1 : sn[Place(h, i)]
      /\ \A i \in s..c - 1 : ~sn[Place(h, i)]
      /\ \A i \in c..WaveRing - 1 : sn[Place(h, i)]
  BY DEF Holds, W!WaveBufsAssumption
<1>3. Len(w) = n - c /\ \A k \in 1..n - c : w[k] = q[k - 1 + c]
  <2>1. n - c \in Nat
    BY <1>2
  <2>2. w = [k \in 1..n - c |-> w[k]] /\ \A k \in 1..n - c : w[k] = q[k - 1 + c]
    BY DEF Part
  <2> QED BY <2>1, <2>2
<1>4. m \in Nat /\ m <= n - c /\ c + m <= WaveRing /\ (c + m < WaveRing => c + m = n)
      /\ (n > c /\ c = 0 => m > 0)
  BY <1>2, <1>3
<1>5. \A i \in 1..m : W!RingIndex(h, c, i) = Place(h, c + i - 1) /\ c + i - 1 \in 0..WaveRing - 1
  <2> SUFFICES ASSUME NEW i \in 1..m
               PROVE W!RingIndex(h, c, i) = Place(h, c + i - 1) /\ c + i - 1 \in 0..WaveRing - 1
    OBVIOUS
  <2>1. h + c + i - 1 = h + (c + i - 1) /\ c + i - 1 \in 0..WaveRing - 1
    BY <1>2, <1>4
  <2> QED BY <2>1 DEF W!RingIndex, Place
<1> HIDE DEF m
<1>6. \A k \in 0..WaveRing - 1 : Place(h, k) \in W!Ring
  BY <1>2, Places
<1>7. \A i, j \in 0..WaveRing - 1 : Place(h, i) = Place(h, j) => i = j
  BY Places
<1>8. \A k \in 0..WaveRing - 1 : k \notin c..c + m - 1 => Copied(Place(h, k)) = {}
  <2> SUFFICES ASSUME NEW k \in 0..WaveRing - 1, k \notin c..c + m - 1, NEW i \in 1..m,
                      W!RingIndex(h, c, i) = Place(h, k)
               PROVE  FALSE
    OBVIOUS
  <2>1. c + i - 1 = k
    BY <1>5, <1>7
  <2> QED BY <1>2, <1>4, <2>1
<1>9. \A k \in c..c + m - 1 : Copied(Place(h, k)) = {k - c + 1}
  <2> SUFFICES ASSUME NEW k \in c..c + m - 1 PROVE Copied(Place(h, k)) = {k - c + 1}
    OBVIOUS
  <2>1. k \in 0..WaveRing - 1 /\ k - c + 1 \in 1..m /\ c + (k - c + 1) - 1 = k
    BY <1>2, <1>4
  <2>2. W!RingIndex(h, c, k - c + 1) = Place(h, k)
    BY <1>5, <2>1
  <2>3. ASSUME NEW i \in 1..m, W!RingIndex(h, c, i) = Place(h, k) PROVE i = k - c + 1
    <3>1. c + i - 1 = k
      BY <1>5, <1>7, <2>1, <2>3
    <3> QED BY <1>2, <3>1
  <2> QED BY <2>1, <2>2, <2>3
<1> HIDE DEF Copied
<1>10. \A k \in 0..WaveRing - 1 : k \notin c..c + m - 1 =>
          ring'[Place(h, k)] = ring[Place(h, k)] /\ (sent'[Place(h, k)] <=> sn[Place(h, k)])
  BY <1>1, <1>6, <1>8
<1>11. \A k \in c..c + m - 1 : ring'[Place(h, k)] = q[k] /\ ~sent'[Place(h, k)]
  <2> SUFFICES ASSUME NEW k \in c..c + m - 1 PROVE ring'[Place(h, k)] = q[k] /\ ~sent'[Place(h, k)]
    OBVIOUS
  <2>1. k \in 0..WaveRing - 1 /\ k - c + 1 \in 1..n - c /\ (k - c + 1) - 1 + c = k
    BY <1>2, <1>4
  <2>2. Place(h, k) \in W!Ring /\ Copied(Place(h, k)) = {k - c + 1}
    BY <1>6, <1>9, <2>1
  <2>3. (CHOOSE i \in Copied(Place(h, k)) : TRUE) = k - c + 1
    BY <2>2
  <2>4. ring'[Place(h, k)] = w[k - c + 1]
    BY <1>1, <2>2, <2>3
  <2>5. ~sent'[Place(h, k)]
    BY <1>1, <2>2
  <2> QED BY <1>3, <2>1, <2>4, <2>5
<1>12. /\ \A k \in 0..n - 1 : q[k] \in ids /\ q[k] \in Bufs
       /\ \A i, j \in 0..n - 1 : q[i] = q[j] => i = j
       /\ q[n] = NoBuf
  BY DEF Chain
<1>13. \A k \in 0..n - 1 : state'[q[k]] = IF k \in c..c + m - 1 THEN "Queued" ELSE st[q[k]]
  <2> SUFFICES ASSUME NEW k \in 0..n - 1
               PROVE  state'[q[k]] = IF k \in c..c + m - 1 THEN "Queued" ELSE st[q[k]]
    OBVIOUS
  <2>1. state'[q[k]] = IF \E i \in 1..m : w[i] = q[k] THEN "Queued" ELSE st[q[k]]
    BY <1>1, <1>12
  <2>2. CASE k \in c..c + m - 1
    <3>1. k - c + 1 \in 1..m /\ k - c + 1 \in 1..n - c /\ (k - c + 1) - 1 + c = k
      BY <1>2, <1>4, <2>2
    <3>2. w[k - c + 1] = q[k]
      BY <1>3, <3>1
    <3> QED BY <2>1, <2>2, <3>1, <3>2
  <2>3. CASE k \notin c..c + m - 1
    <3>1. ASSUME NEW i \in 1..m, w[i] = q[k] PROVE FALSE
      <4>1. i \in 1..n - c /\ i - 1 + c \in 0..n - 1
        BY <1>2, <1>4
      <4>2. i - 1 + c = k
        BY <1>3, <1>12, <3>1, <4>1
      <4> QED BY <1>2, <1>4, <2>3, <4>2
    <3> QED BY <2>1, <2>3, <3>1
  <2> QED BY <2>2, <2>3
<1>14. \A b \in Bufs : b \notin ids => state'[b] = st[b]
  <2> SUFFICES ASSUME NEW b \in Bufs, b \notin ids PROVE state'[b] = st[b]
    OBVIOUS
  <2>1. ASSUME NEW i \in 1..m PROVE w[i] # b
    <3>1. i \in 1..n - c /\ i - 1 + c \in 0..n - 1
      BY <1>2, <1>4
    <3> QED BY <1>3, <1>12, <3>1
  <2> QED BY <1>1, <2>1
<1>15. Holds(q, n, h, c + m, s, ring', sent', state')
  <2> DEFINE e == c + m
  <2>1. e \in 0..WaveRing /\ e <= n /\ s \in 0..e
    BY <1>2, <1>4
  <2>2. ASSUME NEW i \in 0..e - 1
        PROVE  ring'[Place(h, i)] = q[i] /\ state'[q[i]] \in {"Queued", "Playing"}
    <3>1. i \in 0..n - 1 /\ i \in 0..WaveRing - 1
      BY <1>2, <1>4
    <3>2. CASE i \in c..c + m - 1
      BY <1>11, <1>13, <3>1, <3>2
    <3>3. CASE i \notin c..c + m - 1
      <4>1. i \in 0..c - 1
        BY <1>2, <1>4, <3>3
      <4> QED BY <1>2, <1>10, <1>13, <3>1, <3>3, <4>1
    <3> QED BY <3>2, <3>3
  <2>3. ASSUME NEW i \in 0..s - 1 PROVE sent'[Place(h, i)]
    <3>1. i \in 0..WaveRing - 1 /\ i \notin c..c + m - 1
      BY <1>2
    <3> QED BY <1>2, <1>10, <3>1
  <2>4. ASSUME NEW i \in s..e - 1 PROVE ~sent'[Place(h, i)]
    <3>1. CASE i \in c..c + m - 1
      BY <1>11, <3>1
    <3>2. CASE i \notin c..c + m - 1
      <4>1. i \in s..c - 1 /\ i \in 0..WaveRing - 1
        BY <1>2, <1>4, <3>2
      <4> QED BY <1>2, <1>10, <3>2, <4>1
    <3> QED BY <3>1, <3>2
  <2>5. ASSUME NEW i \in e..WaveRing - 1 PROVE sent'[Place(h, i)]
    <3>1. i \in 0..WaveRing - 1 /\ i \notin c..c + m - 1 /\ i \in c..WaveRing - 1
      BY <1>2, <1>4
    <3> QED BY <1>2, <1>10, <3>1
  <2> HIDE DEF e
  <2>6. Holds(q, n, h, e, s, ring', sent', state')
    BY <2>1, <2>2, <2>3, <2>4, <2>5 DEF Holds
  <2> QED BY <2>6 DEF e
<1>16. Full(q, n, c + m, state', waiting')
  <2>1. ASSUME NEW i \in c + m..n - 1 PROVE state'[q[i]] = "Waiting"
    <3>1. i \in 0..n - 1 /\ i \notin c..c + m - 1 /\ i \in c..n - 1 /\ i # 0
      BY <1>2, <1>4
    <3> QED BY <1>13, <3>1 DEF Awaits
  <2>2. waiting' = q[c + m]
    <3>1. waiting' = IF m < Len(w) THEN w[m + 1] ELSE NoBuf
      BY <1>1 DEF W!StillWaiting
    <3>2. CASE m < n - c
      <4>1. m + 1 \in 1..n - c /\ (m + 1) - 1 + c = c + m
        BY <1>2, <1>4, <3>2
      <4> QED BY <1>3, <3>1, <3>2, <4>1
    <3>3. CASE ~(m < n - c)
      <4>1. c + m = n
        BY <1>2, <1>4, <3>3
      <4> QED BY <1>3, <1>12, <3>1, <3>3, <4>1
    <3> QED BY <3>2, <3>3
  <2> QED BY <1>4, <2>1, <2>2 DEF Full
<1>17. state' = [b \in Bufs |-> state'[b]] /\ \A b \in Bufs : state'[b] \in {"Queued", st[b]}
  BY <1>1
<1> QED BY <1>1, <1>14, <1>15, <1>16, <1>17 DEF Requeued

PartGrows(q, d, s) == Append(Part(q, d, s), q[s]) = Part(q, d, s + 1)

LEMMA PartAppend ==
  ASSUME NEW head0, NEW nx, NEW ids, ids \subseteq Bufs, NEW n \in Nat, NEW q,
         Chain(head0, nx, ids, n, NoBuf, q), NEW d \in Nat, NEW s \in Nat, d <= s, s < n
  PROVE  PartGrows(q, d, s)
<1> DEFINE l == Part(q, d, s)
           a == Append(l, q[s])
           m == Part(q, d, s + 1)
<1>1. l \in Seq(Bufs) /\ Len(l) = s - d /\ \A i \in 1..s - d : l[i] = q[i - 1 + d]
  <2>1. s <= n
    OBVIOUS
  <2>2. IsPart(q, d, s)
    BY <2>1, PartIs
  <2> QED BY <2>2 DEF IsPart
<1>2. m \in Seq(Bufs) /\ Len(m) = (s + 1) - d /\ \A i \in 1..(s + 1) - d : m[i] = q[i - 1 + d]
  <2>1. s + 1 \in Nat /\ d <= s + 1 /\ s + 1 <= n
    OBVIOUS
  <2>2. IsPart(q, d, s + 1)
    BY <2>1, PartIs
  <2> QED BY <2>2 DEF IsPart
<1>3. q[s] \in Bufs
  BY DEF Chain
<1> HIDE DEF l, m
<1>4. a \in Seq(Bufs) /\ Len(a) = (s - d) + 1 /\ a[(s - d) + 1] = q[s] /\ \A i \in 1..s - d : a[i] = l[i]
  BY <1>1, <1>3
<1> HIDE DEF a
<1>5. (s + 1) - d = (s - d) + 1 /\ ((s - d) + 1) - 1 + d = s /\ s - d \in Nat
  OBVIOUS
<1>6. \A i \in 1..(s - d) + 1 : i \in 1..s - d \/ i = (s - d) + 1
  OBVIOUS
<1>7. \A i \in 1..Len(a) : a[i] = m[i]
  <2> SUFFICES ASSUME NEW i \in 1..(s - d) + 1 PROVE a[i] = m[i]
    BY <1>4
  <2>1. m[i] = q[i - 1 + d]
    BY <1>2, <1>5
  <2>2. CASE i \in 1..s - d
    BY <1>1, <1>4, <2>1, <2>2
  <2>3. CASE i = (s - d) + 1
    BY <1>4, <1>5, <2>1, <2>3
  <2> QED BY <1>6, <2>2, <2>3
<1>8. a = m
  BY <1>2, <1>4, <1>5, <1>7, SeqEqual
<1> QED BY <1>8 DEF a, l, m, PartGrows

PartShrinks(q, d, s) == Tail(Part(q, d, s)) = Part(q, d + 1, s)

LEMMA PartTail ==
  ASSUME NEW head0, NEW nx, NEW ids, ids \subseteq Bufs, NEW n \in Nat, NEW q,
         Chain(head0, nx, ids, n, NoBuf, q), NEW d \in Nat, NEW s \in Nat, d < s, s <= n
  PROVE  PartShrinks(q, d, s)
<1> DEFINE l == Part(q, d, s)
           t == Tail(l)
           m == Part(q, d + 1, s)
<1>1. l \in Seq(Bufs) /\ Len(l) = s - d /\ \A i \in 1..s - d : l[i] = q[i - 1 + d]
  <2>1. IsPart(q, d, s)
    BY PartIs
  <2> QED BY <2>1 DEF IsPart
<1>2. m \in Seq(Bufs) /\ Len(m) = s - (d + 1) /\ \A i \in 1..s - (d + 1) : m[i] = q[i - 1 + (d + 1)]
  <2>1. d + 1 \in Nat /\ d + 1 <= s
    OBVIOUS
  <2>2. IsPart(q, d + 1, s)
    BY <2>1, PartIs
  <2> QED BY <2>2 DEF IsPart
<1> HIDE DEF l, m
<1>3. t \in Seq(Bufs) /\ Len(t) = (s - d) - 1 /\ \A i \in 1..(s - d) - 1 : t[i] = l[i + 1]
  BY <1>1
<1> HIDE DEF t
<1>4. (s - d) - 1 = s - (d + 1)
  OBVIOUS
<1>5. \A i \in 1..Len(t) : t[i] = m[i]
  <2> SUFFICES ASSUME NEW i \in 1..(s - d) - 1 PROVE t[i] = m[i]
    BY <1>3
  <2>1. i + 1 \in 1..s - d /\ (i + 1) - 1 + d = i - 1 + (d + 1) /\ i \in 1..s - (d + 1)
    OBVIOUS
  <2>2. l[i + 1] = q[(i + 1) - 1 + d]
    BY <1>1, <2>1
  <2> QED BY <1>2, <1>3, <2>1, <2>2
<1>6. t = m
  BY <1>2, <1>3, <1>4, <1>5, SeqEqual
<1> QED BY <1>6 DEF t, l, m, PartShrinks

Listed == {b \in Bufs : state[b] \notin {"Free", "Done"}}
Played == IF isNew THEN 0 ELSE renderer.consumed - consumed

Queues(n, q, s) ==
  /\ n \in Nat /\ Chain(first, next, Listed, n, NoBuf, q)
  /\ Holds(q, n, head, wcount, s, ring, sent, state) /\ Full(q, n, wcount, state, waiting)
  /\ n # 0 => last = q[n - 1]
  /\ Played \in 0..s
  /\ isNew => s = 0 /\ consumed = 0
  /\ ~isNew => renderer.queue = Part(q, Played, s)
  /\ consumed + n <= MaxConsumed

BufsFit ==
  /\ state \in [Bufs -> {"Free", "Waiting", "Queued", "Playing", "Done"}]
  /\ next \in [Bufs -> Bufs \cup {NoBuf}]
  /\ head \in W!Ring /\ consumed \in Nat /\ isNew \in BOOLEAN
  /\ renderer = [queue |-> renderer.queue, consumed |-> renderer.consumed]
  /\ renderer.queue \in Seq(Bufs) /\ renderer.consumed \in Nat
  /\ NoTwice(renderer.queue)
  /\ \E n, q, s : Queues(n, q, s)

(* What joins the queue of the renderer, going around the ring. *)
Joins(before) ==
  LET joined[k \in 0..WaveRing] ==
        IF k = 0 THEN before
        ELSE LET s == (head + k - 1) % WaveRing
             IN  IF sent[s] THEN joined[k - 1] ELSE Append(joined[k - 1], ring[s])
  IN  joined

LEMMA WavesJoin ==
  ASSUME W!WaveBufsAssumption, BufsFit, NEW n, NEW q, NEW s, Queues(n, q, s), NEW d \in 0..s
  PROVE  Joins(Part(q, d, s))[WaveRing] = Part(q, d, wcount)
<1> DEFINE walk == Joins(Part(q, d, s))
           Next0(f, k) == IF sent[(head + k - 1) % WaveRing] THEN f[k - 1]
                          ELSE Append(f[k - 1], ring[(head + k - 1) % WaveRing])
           Goes(f) == f = [k \in 0..WaveRing |-> IF k = 0 THEN Part(q, d, s) ELSE Next0(f, k)]
           upto(k) == IF k <= s THEN s ELSE IF k <= wcount THEN k ELSE wcount
           w == [k \in 0..WaveRing |-> Part(q, d, upto(k))]
<1>1. Goes(walk) \/ ~ \E f : Goes(f)
  BY DEF Joins
<1> HIDE DEF walk
<1>2. /\ n \in Nat /\ Chain(first, next, Listed, n, NoBuf, q) /\ Listed \subseteq Bufs
      /\ wcount \in 0..WaveRing /\ wcount <= n /\ s \in 0..wcount /\ WaveRing \in Nat \ {0} /\ head \in Nat
      /\ \A i \in 0..wcount - 1 : ring[Place(head, i)] = q[i]
      /\ \A i \in 0..s - 1 : sent[Place(head, i)]
      /\ \A i \in s..wcount - 1 : ~sent[Place(head, i)]
      /\ \A i \in wcount..WaveRing - 1 : sent[Place(head, i)]
  BY DEF Queues, Holds, Listed, BufsFit, W!WaveBufsAssumption, W!Ring
<1>3. d \in Nat /\ d <= s /\ s \in Nat /\ wcount \in Nat
  BY <1>2
<1>4. \A k \in 1..WaveRing : w[k] = Next0(w, k)
  <2> SUFFICES ASSUME NEW k \in 1..WaveRing PROVE w[k] = Next0(w, k)
    OBVIOUS
  <2>1. k - 1 \in 0..WaveRing - 1 /\ k - 1 \in 0..WaveRing /\ k \in 0..WaveRing /\ (k - 1) + 1 = k
    BY <1>2
  <2>2. (head + k - 1) % WaveRing = Place(head, k - 1)
    <3>1. head + k - 1 = head + (k - 1)
      BY <1>2
    <3> QED BY <3>1 DEF Place
  <2>3. w[k] = Part(q, d, upto(k)) /\ w[k - 1] = Part(q, d, upto(k - 1))
    BY <2>1
  <2> HIDE DEF w
  <2>4. CASE k - 1 \in 0..s - 1
    <3>1. upto(k) = s /\ upto(k - 1) = s
      BY <1>3, <2>4
    <3>2. sent[Place(head, k - 1)]
      BY <1>2, <2>4
    <3> QED BY <2>2, <2>3, <3>1, <3>2
  <2>5. CASE k - 1 \in s..wcount - 1
    <3>1. upto(k) = k /\ upto(k - 1) = k - 1 /\ k - 1 \in Nat /\ d <= k - 1 /\ k - 1 < n /\ k - 1 \in 0..wcount - 1
      BY <1>2, <1>3, <2>5
    <3>2. ~sent[Place(head, k - 1)] /\ ring[Place(head, k - 1)] = q[k - 1]
      BY <1>2, <2>5, <3>1
    <3>3. Append(Part(q, d, k - 1), q[k - 1]) = Part(q, d, (k - 1) + 1)
      <4> DEFINE j == k - 1
      <4>1. n \in Nat /\ Chain(first, next, Listed, n, NoBuf, q) /\ Listed \subseteq Bufs /\ d \in Nat
        BY <1>2, <1>3
      <4>2. j \in Nat /\ d <= j /\ j < n
        BY <3>1
      <4> HIDE DEF j
      <4>3. PartGrows(q, d, j)
        BY <4>1, <4>2, PartAppend
      <4> QED BY <4>3 DEF j, PartGrows
    <3> QED BY <2>1, <2>2, <2>3, <3>1, <3>2, <3>3
  <2>6. CASE k - 1 \in wcount..WaveRing - 1
    <3>1. upto(k) = wcount /\ upto(k - 1) = wcount
      BY <1>2, <1>3, <2>6
    <3>2. sent[Place(head, k - 1)]
      BY <1>2, <2>6
    <3> QED BY <2>2, <2>3, <3>1, <3>2
  <2>7. k - 1 \in 0..s - 1 \/ k - 1 \in s..wcount - 1 \/ k - 1 \in wcount..WaveRing - 1
    BY <1>2, <1>3, <2>1
  <2> QED BY <2>4, <2>5, <2>6, <2>7
<1>5. w[0] = Part(q, d, s) /\ w[WaveRing] = Part(q, d, wcount) /\ w = [k \in 0..WaveRing |-> w[k]]
  <2>1. upto(0) = s /\ upto(WaveRing) = wcount /\ 0 \in 0..WaveRing /\ WaveRing \in 0..WaveRing
    BY <1>2, <1>3
  <2> QED BY <2>1
<1> HIDE DEF w, upto
<1>6. \A k \in 0..WaveRing : k = 0 \/ (k # 0 /\ k \in 1..WaveRing)
  BY <1>2
<1> HIDE DEF Next0
<1>7. Goes(w)
  <2>1. \A k \in 0..WaveRing : w[k] = IF k = 0 THEN Part(q, d, s) ELSE Next0(w, k)
    BY <1>4, <1>5, <1>6
  <2>2. [k \in 0..WaveRing |-> w[k]] = [k \in 0..WaveRing |-> IF k = 0 THEN Part(q, d, s) ELSE Next0(w, k)]
    BY <2>1
  <2> QED BY <1>5, <2>2
<1>8. Goes(walk)
  BY <1>1, <1>7
<1>9. \A k \in 0..WaveRing : walk[k] = IF k = 0 THEN Part(q, d, s) ELSE Next0(walk, k)
  BY <1>8
<1>10. SameSteps(walk, w, WaveRing)
  <2>1. walk[0] = w[0]
    BY <1>2, <1>5, <1>9
  <2>2. ASSUME NEW k \in 1..WaveRing, walk[k - 1] = w[k - 1] PROVE walk[k] = w[k]
    <3>1. k \in 0..WaveRing /\ k # 0
      BY <1>2
    <3>2. Next0(walk, k) = Next0(w, k)
      BY <2>2 DEF Next0
    <3> QED BY <1>4, <1>9, <3>1, <3>2
  <2> QED BY <2>1, <2>2 DEF SameSteps
<1>11. walk[WaveRing] = w[WaveRing]
  <2>1. WaveRing \in Nat /\ WaveRing \in 0..WaveRing
    BY <1>2
  <2> QED BY <1>10, <2>1, SameWalk
<1> QED BY <1>5, <1>11 DEF walk

LEMMA WavesReceived ==
  ASSUME W!WaveBufsAssumption, BufsFit, NEW n, NEW q, NEW s, Queues(n, q, s)
  PROVE  W!Received = [queue |-> Part(q, Played, wcount), consumed |-> consumed + Played]
<1> DEFINE r == IF isNew THEN [queue |-> <<>>, consumed |-> 0] ELSE renderer
<1>1. W!Received = [r EXCEPT !.queue = Joins(r.queue)[WaveRing]]
  BY DEF W!Received, Joins
<1>2. Played \in 0..s /\ consumed \in Nat
  BY DEF Queues, BufsFit
<1>3. r = [queue |-> Part(q, Played, s), consumed |-> consumed + Played]
  <2>1. CASE isNew
    <3>1. Played = 0 /\ s = 0 /\ consumed = 0
      BY <2>1 DEF Queues, Played
    <3>2. Part(q, 0, 0) = <<>>
      BY DEF Part
    <3> QED BY <2>1, <3>1, <3>2
  <2>2. CASE ~isNew
    <3>1. renderer = [queue |-> renderer.queue, consumed |-> renderer.consumed] /\ renderer.consumed \in Nat
      BY DEF BufsFit
    <3>2. renderer.queue = Part(q, Played, s)
      BY <2>2 DEF Queues
    <3>3. renderer.consumed = consumed + Played
      BY <1>2, <2>2, <3>1 DEF Played
    <3> QED BY <2>2, <3>1, <3>2, <3>3
  <2> QED BY <2>1, <2>2
<1>4. Joins(Part(q, Played, s))[WaveRing] = Part(q, Played, wcount)
  BY <1>2, WavesJoin
<1> HIDE DEF r
<1>5. r.queue = Part(q, Played, s)
  BY <1>3
<1>6. W!Received = [r EXCEPT !.queue = Part(q, Played, wcount)]
  BY <1>1, <1>4, <1>5
<1> QED BY <1>3, <1>6

LEMMA StillListed ==
  ASSUME NEW head0, NEW nx, NEW ids, NEW n \in Nat, NEW q, Chain(head0, nx, ids, n, NoBuf, q),
         NEW h, NEW c, NEW s, NEW rg, NEW sn, NEW st, NEW wt, Holds(q, n, h, c, s, rg, sn, st), Full(q, n, c, st, wt)
  PROVE  \A x \in ids : st[x] \notin {"Free", "Done"} /\ st[x] \in {"Waiting", "Queued", "Playing"}
<1> SUFFICES ASSUME NEW x \in ids
             PROVE  st[x] \notin {"Free", "Done"} /\ st[x] \in {"Waiting", "Queued", "Playing"}
  OBVIOUS
<1>1. PICK k \in 0..n - 1 : q[k] = x
  BY DEF Chain
<1>2. c \in 0..WaveRing
  BY DEF Holds
<1>3. k \in 0..c - 1 \/ k \in c..n - 1
  BY <1>2
<1>4. k \in 0..c - 1 => st[q[k]] \in {"Queued", "Playing"}
  BY DEF Holds
<1>5. k \in c..n - 1 => st[q[k]] = "Waiting"
  BY DEF Full
<1> QED BY <1>1, <1>3, <1>4, <1>5

LEMMA WavesInit ==
  ASSUME W!WaveBufsAssumption, W!Init PROVE BufsFit
<1> DEFINE q == [k \in 0..0 |-> NoBuf]
<1>1. q \in [0..0 -> {} \cup {NoBuf}] /\ q[0] = NoBuf /\ 0..0 - 1 = {}
  OBVIOUS
<1> HIDE DEF q
<1>2. WaveRing \in Nat \ {0} /\ MaxConsumed \in Nat
  BY DEF W!WaveBufsAssumption
<1>3. /\ state = [b \in Bufs |-> "Free"] /\ next = [b \in Bufs |-> NoBuf]
      /\ first = NoBuf /\ waiting = NoBuf /\ last = NoBuf
      /\ ring = [i \in W!Ring |-> NoBuf] /\ sent = [i \in W!Ring |-> TRUE]
      /\ head = 0 /\ wcount = 0 /\ consumed = 0 /\ isNew = TRUE
      /\ renderer = [queue |-> <<>>, consumed |-> 0]
  BY DEF W!Init
<1>4. Listed = {}
  BY <1>3 DEF Listed
<1>5. Chain(first, next, Listed, 0, NoBuf, q)
  BY <1>1, <1>3, <1>4 DEF Chain
<1>6. Holds(q, 0, head, wcount, 0, ring, sent, state) /\ Full(q, 0, wcount, state, waiting)
  <2>1. \A i \in 0..WaveRing - 1 : sent[Place(0, i)]
    <3>1. \A i \in 0..WaveRing - 1 : Place(0, i) \in W!Ring
      BY Places
    <3> QED BY <1>3, <3>1
  <2>2. Holds(q, 0, 0, 0, 0, ring, sent, state)
    <3>1. 0 \in 0..WaveRing /\ 0 <= 0 /\ 0 \in 0..0 /\ 0..0 - 1 = {}
      BY <1>2
    <3> QED BY <2>1, <3>1 DEF Holds
  <2>3. Full(q, 0, 0, state, waiting)
    BY <1>1, <1>3 DEF Full
  <2> QED BY <1>3, <2>2, <2>3
<1>7. Queues(0, q, 0)
  BY <1>2, <1>3, <1>5, <1>6 DEF Queues, Played
<1>8. head \in W!Ring
  BY <1>2, <1>3 DEF W!Ring
<1>9. renderer.queue = <<>> /\ NoTwice(<<>>) /\ <<>> \in Seq(Bufs) /\ renderer.consumed = 0
  BY <1>3 DEF NoTwice
<1> QED BY <1>3, <1>7, <1>8, <1>9 DEF BufsFit

LEMMA WavesAdd ==
  ASSUME W!WaveBufsAssumption, BufsFit, NEW b \in Bufs, W!audrvVoiceAddWaveBuf(b) PROVE BufsFit'
<1> DEFINE nx == [next EXCEPT ![b] = NoBuf]
           linked == IF first = NoBuf THEN nx ELSE [nx EXCEPT ![last] = b]
           st == [state EXCEPT ![b] = "Waiting"]
           w == W!From(IF waiting = NoBuf THEN b ELSE waiting, linked)
<1>1. PICK n, q, s : Queues(n, q, s)
  BY DEF BufsFit
<1>2. /\ state[b] \in {"Free", "Done"} /\ consumed + Len(W!From(first, next)) < MaxConsumed
      /\ next' = linked /\ last' = b /\ first' = IF first = NoBuf THEN b ELSE first
      /\ W!_audrvVoiceQueueWaveBufs(w, head, wcount, st, sent)
      /\ UNCHANGED <<head, consumed, isNew, renderer>>
  BY DEF W!audrvVoiceAddWaveBuf
<1>3. /\ n \in Nat /\ Chain(first, next, Listed, n, NoBuf, q)
      /\ Holds(q, n, head, wcount, s, ring, sent, state) /\ Full(q, n, wcount, state, waiting)
      /\ (n # 0 => last = q[n - 1]) /\ Played \in 0..s
  BY <1>1 DEF Queues
<1>4. b \notin Listed /\ Listed \subseteq Bufs /\ NoBuf \notin Bufs
  BY <1>2 DEF Listed, W!WaveBufsAssumption
<1>5. /\ \A k \in 0..n - 1 : q[k] \in Listed /\ q[k] # b /\ q[k] \in Bufs
      /\ q[0] = first /\ q[n] = NoBuf
      /\ \A i, k \in 0..n - 1 : q[i] = q[k] => i = k
  BY <1>3, <1>4 DEF Chain
<1>6. first = NoBuf <=> n = 0
  <2>1. n # 0 => 0 \in 0..n - 1
    BY <1>3
  <2> QED BY <1>4, <1>5, <2>1
<1>7. next \in [Bufs -> Bufs \cup {NoBuf}] /\ nx \in [Bufs -> Bufs \cup {NoBuf}] /\ nx[b] = NoBuf
      /\ \A x \in Bufs : x # b => nx[x] = next[x]
  BY DEF BufsFit
<1> HIDE DEF nx
<1>8. /\ linked \in [Bufs -> Bufs \cup {NoBuf}] /\ linked[b] = NoBuf
      /\ \A k \in 0..n - 1 : linked[q[k]] = IF k = n - 1 THEN b ELSE next[q[k]]
  <2>1. CASE n = 0
    <3>1. linked = nx /\ 0..n - 1 = {}
      BY <1>6, <2>1
    <3> HIDE DEF linked
    <3> QED BY <1>7, <3>1
  <2>2. CASE n # 0
    <3>1. linked = [nx EXCEPT ![last] = b] /\ n - 1 \in 0..n - 1 /\ last = q[n - 1]
      BY <1>3, <1>6, <2>2
    <3> HIDE DEF linked
    <3>2. last \in Bufs /\ last # b
      BY <1>5, <3>1
    <3>3. \A x \in Bufs : linked[x] = IF x = last THEN b ELSE nx[x]
      BY <1>7, <3>1
    <3>4. \A k \in 0..n - 1 : q[k] = last <=> k = n - 1
      BY <1>5, <3>1
    <3>5. linked \in [Bufs -> Bufs \cup {NoBuf}]
      BY <1>7, <3>1
    <3> QED BY <1>5, <1>7, <3>2, <3>3, <3>4, <3>5
  <2> QED BY <2>1, <2>2
<1> HIDE DEF linked
<1>9. Appends(linked, next, q, n, b, NoBuf, first, first')
  BY <1>2, <1>6, <1>8 DEF Appends
<1>10. PICK p : Chain(first', linked, Listed \cup {b}, n + 1, NoBuf, p) /\ Appended(p, q, n, b, NoBuf)
  BY <1>3, <1>4, <1>9, ChainAppend
<1>11. p[n] = b /\ p[n + 1] = NoBuf /\ \A k \in 0..n - 1 : p[k] = q[k]
  BY <1>10 DEF Appended
<1>12. /\ wcount \in 0..WaveRing /\ wcount <= n /\ s \in 0..wcount
       /\ \A i \in 0..wcount - 1 : ring[Place(head, i)] = q[i] /\ state[q[i]] \in {"Queued", "Playing"}
       /\ \A i \in 0..s - 1 : sent[Place(head, i)]
       /\ \A i \in s..wcount - 1 : ~sent[Place(head, i)]
       /\ \A i \in wcount..WaveRing - 1 : sent[Place(head, i)]
       /\ \A i \in wcount..n - 1 : state[q[i]] = "Waiting"
       /\ waiting = q[wcount]
  BY <1>3 DEF Holds, Full
<1>13. st[b] = "Waiting" /\ \A x \in Bufs : x # b => st[x] = state[x]
  BY DEF BufsFit
<1> HIDE DEF st
<1>14. Holds(p, n + 1, head, wcount, s, ring, sent, st)
  <2>1. \A i \in 0..wcount - 1 : i \in 0..n - 1
    BY <1>3, <1>12
  <2>2. \A i \in 0..wcount - 1 : ring[Place(head, i)] = p[i] /\ st[p[i]] \in {"Queued", "Playing"}
    BY <1>5, <1>11, <1>12, <1>13, <2>1
  <2>3. wcount <= n + 1
    BY <1>3, <1>12
  <2> QED BY <1>12, <2>2, <2>3 DEF Holds
<1>15. Awaits(p, n + 1, wcount, st)
  <2> SUFFICES ASSUME NEW i \in wcount..(n + 1) - 1 PROVE st[p[i]] = "Waiting"
    BY DEF Awaits
  <2>1. i = n \/ (i \in wcount..n - 1 /\ i \in 0..n - 1)
    BY <1>3, <1>12
  <2> QED BY <1>5, <1>11, <1>12, <1>13, <2>1
<1>16. (IF waiting = NoBuf THEN b ELSE waiting) = p[wcount]
  <2>1. CASE wcount = n
    BY <1>5, <1>11, <1>12, <2>1
  <2>2. CASE wcount # n
    <3>1. wcount \in 0..n - 1
      BY <1>3, <1>12, <2>2
    <3>2. waiting = q[wcount] /\ q[wcount] # NoBuf
      BY <1>4, <1>5, <1>12, <3>1
    <3> QED BY <1>11, <3>1, <3>2
  <2> QED BY <2>1, <2>2
<1>17. n + 1 \in Nat /\ Listed \cup {b} \subseteq Bufs /\ wcount \in 0..n + 1 /\ head \in Nat
  BY <1>3, <1>4, <1>12 DEF BufsFit, W!Ring
<1>18. w = Part(p, wcount, n + 1)
  <2>1. W!From(p[wcount], linked) = Part(p, wcount, n + 1)
    BY <1>10, <1>17, FromPlace
  <2> QED BY <1>16, <2>1
<1> HIDE DEF w
<1>19. /\ Holds(p, n + 1, head, wcount', s, ring', sent', state') /\ Full(p, n + 1, wcount', state', waiting')
       /\ \A x \in Bufs : x \notin Listed \cup {b} => state'[x] = st[x]
       /\ \A x \in Bufs : state'[x] \in {"Queued", st[x]}
       /\ state' = [x \in Bufs |-> state'[x]]
  <2>1. /\ Holds(p, n + 1, head, wcount', s, ring', sent', state') /\ Full(p, n + 1, wcount', state', waiting')
        /\ Requeued(st, state', Listed \cup {b})
    BY <1>2, <1>10, <1>14, <1>15, <1>17, <1>18, WavesQueued
  <2> QED BY <2>1 DEF Requeued
<1>20. \A x \in Listed \cup {b} : state'[x] \notin {"Free", "Done"}
  BY <1>10, <1>17, <1>19, StillListed
<1>21. Listed' = Listed \cup {b}
  <2>1. \A x \in Bufs : x \notin Listed \cup {b} => state'[x] \in {"Free", "Done"}
    BY <1>13, <1>19 DEF Listed
  <2>2. Listed' = {x \in Bufs : state'[x] \notin {"Free", "Done"}}
    BY DEF Listed
  <2> QED BY <1>17, <1>20, <2>1, <2>2
<1>22. state' \in [Bufs -> {"Free", "Waiting", "Queued", "Playing", "Done"}]
  <2>1. \A x \in Bufs : state'[x] \in {"Free", "Waiting", "Queued", "Playing", "Done"}
    BY <1>13, <1>19 DEF BufsFit
  <2> QED BY <1>19, <2>1
<1>23. Played' = Played /\ ~isNew => renderer.queue = Part(p, Played, s)
  <2>1. Played' = Played
    BY <1>2 DEF Played
  <2>2. Part(p, Played, s) = Part(q, Played, s)
    <3>1. \A i \in 1..s - Played : p[i - 1 + Played] = q[i - 1 + Played]
      <4> SUFFICES ASSUME NEW i \in 1..s - Played PROVE i - 1 + Played \in 0..n - 1
        BY <1>11
      <4> QED BY <1>3, <1>12
    <3> QED BY <3>1 DEF Part
  <2>3. ~isNew => renderer.queue = Part(q, Played, s)
    BY <1>1 DEF Queues
  <2> QED BY <2>1, <2>2, <2>3
<1>24. consumed + (n + 1) <= MaxConsumed
  <2>1. IsFrom(first, next, q, n)
    BY <1>3, <1>4, FromIs
  <2>2. Len(W!From(first, next)) = n
    BY <1>3, <2>1 DEF IsFrom
  <2>3. consumed \in Nat /\ MaxConsumed \in Nat
    BY DEF BufsFit, W!WaveBufsAssumption
  <2> QED BY <1>2, <1>3, <2>2, <2>3
<1>25. Played' = Played /\ (n + 1) - 1 = n
  BY <1>2, <1>3 DEF Played
<1>26. Queues(n + 1, p, s)'
  <2>1. /\ n + 1 \in Nat /\ Chain(first', next', Listed', n + 1, NoBuf, p)
        /\ Holds(p, n + 1, head', wcount', s, ring', sent', state') /\ Full(p, n + 1, wcount', state', waiting')
        /\ last' = p[(n + 1) - 1] /\ Played' \in 0..s
    BY <1>2, <1>3, <1>10, <1>11, <1>17, <1>19, <1>21, <1>25
  <2>2. /\ isNew' => s = 0 /\ consumed' = 0
        /\ ~isNew' => renderer'.queue = Part(p, Played', s)
        /\ consumed' + (n + 1) <= MaxConsumed
    BY <1>1, <1>2, <1>23, <1>24, <1>25 DEF Queues
  <2> QED BY <2>1, <2>2 DEF Queues, Chain, Holds, Full, Part, Place
<1> QED BY <1>2, <1>8, <1>22, <1>26 DEF BufsFit, NoTwice, W!Ring

LEMMA WavesStop ==
  ASSUME W!WaveBufsAssumption, BufsFit, W!audrvVoiceStop PROVE BufsFit'
<1> DEFINE listed == W!From(first, next)
           none == [k \in 0..0 |-> NoBuf]
<1>1. PICK n, q, s : Queues(n, q, s)
  BY DEF BufsFit
<1>2. /\ isNew' = TRUE /\ wcount' = 0 /\ head' = 0 /\ consumed' = 0
      /\ ring' = [i \in W!Ring |-> NoBuf] /\ sent' = [i \in W!Ring |-> TRUE]
      /\ state' = [b \in Bufs |-> IF \E i \in 1..Len(listed) : listed[i] = b THEN "Done" ELSE state[b]]
      /\ first' = NoBuf /\ waiting' = NoBuf /\ last' = NoBuf
      /\ UNCHANGED <<next, renderer>>
  BY DEF W!audrvVoiceStop
<1>3. n \in Nat /\ Chain(first, next, Listed, n, NoBuf, q) /\ Listed \subseteq Bufs
  BY <1>1 DEF Queues, Listed
<1>4. IsFrom(first, next, q, n)
  BY <1>3, FromIs
<1>5. Len(listed) = n /\ \A i \in 1..n : listed[i] = q[i - 1]
  <2>1. listed = [k \in 1..n |-> q[k - 1]]
    BY <1>4 DEF IsFrom
  <2> HIDE DEF listed
  <2> QED BY <1>3, <2>1
<1> HIDE DEF listed
<1>6. \A b \in Bufs : state'[b] \in {"Free", "Done"}
  <2> SUFFICES ASSUME NEW b \in Bufs PROVE state'[b] \in {"Free", "Done"}
    OBVIOUS
  <2>1. CASE b \in Listed
    <3>1. PICK k \in 0..n - 1 : q[k] = b
      BY <1>3, <2>1 DEF Chain
    <3>2. k + 1 \in 1..n /\ (k + 1) - 1 = k
      BY <1>3
    <3>3. listed[k + 1] = b /\ k + 1 \in 1..Len(listed)
      BY <1>5, <3>1, <3>2
    <3> QED BY <1>2, <3>3
  <2>2. CASE b \notin Listed
    <3>1. state[b] \in {"Free", "Done"}
      BY <2>2 DEF Listed
    <3> QED BY <1>2, <3>1
  <2> QED BY <2>1, <2>2
<1>7. Listed' = {} /\ state' \in [Bufs -> {"Free", "Waiting", "Queued", "Playing", "Done"}]
  <2>1. state' = [b \in Bufs |-> state'[b]]
    BY <1>2
  <2>2. state' \in [Bufs -> {"Free", "Waiting", "Queued", "Playing", "Done"}]
    BY <1>6, <2>1
  <2>3. Listed' = {b \in Bufs : state'[b] \notin {"Free", "Done"}}
    BY DEF Listed
  <2> QED BY <1>6, <2>2, <2>3
<1>8. none \in [0..0 -> {} \cup {NoBuf}] /\ none[0] = NoBuf /\ 0..0 - 1 = {}
  OBVIOUS
<1> HIDE DEF none
<1>9. WaveRing \in Nat \ {0} /\ MaxConsumed \in Nat
  BY DEF W!WaveBufsAssumption
<1>10. Chain(first', next', Listed', 0, NoBuf, none)
  BY <1>2, <1>7, <1>8 DEF Chain
<1>11. Holds(none, 0, head', wcount', 0, ring', sent', state') /\ Full(none, 0, wcount', state', waiting')
  <2>1. \A i \in 0..WaveRing - 1 : sent'[Place(0, i)]
    <3>1. \A i \in 0..WaveRing - 1 : Place(0, i) \in W!Ring
      BY Places
    <3> QED BY <1>2, <3>1
  <2>2. Holds(none, 0, 0, 0, 0, ring', sent', state')
    <3>1. 0 \in 0..WaveRing /\ 0 <= 0 /\ 0 \in 0..0 /\ 0..0 - 1 = {}
      BY <1>9
    <3> QED BY <2>1, <3>1 DEF Holds
  <2>3. Full(none, 0, 0, state', waiting')
    BY <1>2, <1>8 DEF Full
  <2> QED BY <1>2, <2>2, <2>3
<1>12. Queues(0, none, 0)'
  <2>1. Played' = 0
    BY <1>2 DEF Played
  <2>2. /\ 0 # 0 => last' = none[0 - 1]
        /\ Played' \in 0..0
        /\ isNew' => 0 = 0 /\ consumed' = 0
        /\ ~isNew' => renderer'.queue = Part(none, Played', 0)
        /\ consumed' + 0 <= MaxConsumed
    BY <1>2, <1>9, <2>1
  <2> QED BY <1>10, <1>11, <2>2 DEF Queues, Chain, Holds, Full, Part, Place
<1>13. head' \in W!Ring /\ consumed' \in Nat /\ isNew' \in BOOLEAN
  BY <1>2, <1>9 DEF W!Ring
<1>14. next' \in [Bufs -> Bufs \cup {NoBuf}]
  BY <1>2 DEF BufsFit
<1>15. /\ renderer' = [queue |-> renderer'.queue, consumed |-> renderer'.consumed]
       /\ renderer'.queue \in Seq(Bufs) /\ renderer'.consumed \in Nat /\ NoTwice(renderer'.queue)
  BY <1>2 DEF BufsFit
<1> QED BY <1>7, <1>12, <1>13, <1>14, <1>15 DEF BufsFit, NoTwice, W!Ring

LEMMA WavesConsume ==
  ASSUME W!WaveBufsAssumption, BufsFit, W!Consume PROVE BufsFit'
<1>1. PICK n, q, s : Queues(n, q, s)
  BY DEF BufsFit
<1>2. /\ renderer.queue # <<>>
      /\ renderer' = [queue |-> Tail(renderer.queue), consumed |-> renderer.consumed + 1]
      /\ UNCHANGED <<state, next, first, waiting, last, ring, sent, head, wcount, consumed, isNew>>
  BY DEF W!Consume
<1>3. /\ renderer.queue \in Seq(Bufs) /\ renderer.consumed \in Nat /\ consumed \in Nat
      /\ NoTwice(renderer.queue)
  BY DEF BufsFit
<1> DEFINE l == renderer.queue
           t == Tail(l)
<1>4. t \in Seq(Bufs) /\ Len(t) = Len(l) - 1 /\ Len(l) \in Nat \ {0} /\ \A i \in 1..Len(l) - 1 : t[i] = l[i + 1]
  BY <1>2, <1>3
<1>5. renderer'.queue = t /\ renderer'.consumed = renderer.consumed + 1
      /\ renderer' = [queue |-> renderer'.queue, consumed |-> renderer'.consumed]
  BY <1>2
<1> HIDE DEF l, t
<1>6. NoTwice(t)
  <2> SUFFICES ASSUME NEW i \in 1..Len(l) - 1, NEW j \in 1..Len(l) - 1, t[i] = t[j] PROVE i = j
    BY <1>4 DEF NoTwice
  <2>1. i + 1 \in 1..Len(l) /\ j + 1 \in 1..Len(l) /\ l[i + 1] = l[j + 1]
    BY <1>4
  <2>2. i + 1 = j + 1
    BY <1>3, <2>1 DEF NoTwice, l
  <2> QED BY <2>2
<1>7. /\ n \in Nat /\ Chain(first, next, Listed, n, NoBuf, q) /\ Listed \subseteq Bufs
      /\ Played \in 0..s /\ s \in 0..wcount /\ wcount \in 0..WaveRing /\ wcount <= n
      /\ (~isNew => l = Part(q, Played, s))
  BY <1>1 DEF Queues, Listed, Holds, l
<1>8. /\ isNew => Played' = 0 /\ Played = 0
      /\ ~isNew => Played' = Played + 1
  BY <1>2, <1>3, <1>5 DEF Played
<1>9. ~isNew => Played < s /\ t = Part(q, Played + 1, s)
  <2> SUFFICES ASSUME ~isNew PROVE Played < s /\ t = Part(q, Played + 1, s)
    OBVIOUS
  <2> DEFINE d == Played
  <2>1. d \in Nat /\ d <= s /\ s \in Nat /\ s <= n
    BY <1>7
  <2> HIDE DEF d
  <2>2. Len(Part(q, d, s)) = s - d
    <3>1. s - d \in Nat
      BY <2>1
    <3> QED BY <3>1 DEF Part
  <2>3. l = Part(q, d, s)
    BY <1>7 DEF d
  <2>4. d < s
    BY <1>4, <2>1, <2>2, <2>3
  <2>5. PartShrinks(q, d, s)
    <3>1. n \in Nat /\ Chain(first, next, Listed, n, NoBuf, q) /\ Listed \subseteq Bufs
      BY <1>7
    <3> QED BY <2>1, <2>4, <3>1, PartTail
  <2> QED BY <2>3, <2>4, <2>5 DEF d, t, PartShrinks
<1>10. Listed' = Listed
  BY <1>2 DEF Listed
<1>11. Queues(n, q, s)'
  <2>1. Played' \in 0..s
    BY <1>7, <1>8, <1>9
  <2>2. ~isNew => renderer'.queue = Part(q, Played', s)
    BY <1>5, <1>8, <1>9
  <2>3. Holds(q, n, head', wcount', s, ring', sent', state') /\ Full(q, n, wcount', state', waiting')
        /\ (n # 0 => last' = q[n - 1]) /\ (isNew' => s = 0 /\ consumed' = 0) /\ consumed' + n <= MaxConsumed
    BY <1>1, <1>2 DEF Queues
  <2>4. Chain(first', next', Listed', n, NoBuf, q)
    BY <1>2, <1>7, <1>10
  <2> QED BY <1>2, <1>7, <2>1, <2>2, <2>3, <2>4 DEF Queues, Chain, Holds, Full, Part, Place
<1>12. renderer'.queue \in Seq(Bufs) /\ renderer'.consumed \in Nat /\ NoTwice(renderer'.queue)
  BY <1>3, <1>4, <1>5, <1>6
<1> QED BY <1>2, <1>5, <1>11, <1>12 DEF BufsFit, NoTwice, W!Ring

LEMMA WavesRest ==
  ASSUME BufsFit, UNCHANGED W!vars PROVE BufsFit'
<1>1. PICK n, q, s : Queues(n, q, s)
  BY DEF BufsFit
<1>2. UNCHANGED <<state, next, first, waiting, last, ring, sent, head, wcount, consumed, isNew, renderer>>
  BY DEF W!vars
<1>3. Listed' = Listed /\ Played' = Played
  BY <1>2 DEF Listed, Played
<1>4. Queues(n, q, s)'
  BY <1>1, <1>2, <1>3 DEF Queues, Chain, Holds, Full, Part, Place
<1> QED BY <1>2, <1>4 DEF BufsFit, NoTwice, W!Ring

LEMMA WavesUpdate ==
  ASSUME W!WaveBufsAssumption, BufsFit, W!audrvUpdate PROVE BufsFit'
<1>1. PICK n, q, s : Queues(n, q, s)
  BY DEF BufsFit
<1>0. PICK d : d = Played
  OBVIOUS
<1> DEFINE R == W!Received
           m == R.consumed - consumed
           list == W!From(first, next)
           done == {list[i] : i \in 1..(IF m < Len(list) THEN m ELSE Len(list))}
           now == [b \in Bufs |-> IF b \in done THEN "Done"
                                  ELSE IF Len(list) > m /\ b = list[m + 1] THEN "Playing" ELSE state[b]]
           newHead == (head + m) % WaveRing
           all == [i \in W!Ring |-> TRUE]
<1>2. /\ renderer' = R /\ isNew' = FALSE /\ consumed' = R.consumed /\ head' = newHead
      /\ IF Len(list) > m
         THEN /\ first' = list[m + 1] /\ UNCHANGED last
              /\ W!_audrvVoiceQueueWaveBufs(W!From(waiting, next), newHead, wcount - m, now, all)
         ELSE /\ first' = NoBuf /\ last' = NoBuf
              /\ state' = now /\ wcount' = wcount - m
              /\ sent' = all
              /\ UNCHANGED <<waiting, ring>>
      /\ UNCHANGED next
  BY DEF W!audrvUpdate
<1>3. /\ n \in Nat /\ Chain(first, next, Listed, n, NoBuf, q) /\ Listed \subseteq Bufs
      /\ Holds(q, n, head, wcount, s, ring, sent, state) /\ Full(q, n, wcount, state, waiting)
      /\ (n # 0 => last = q[n - 1]) /\ d \in 0..s /\ consumed + n <= MaxConsumed
  BY <1>0, <1>1 DEF Queues, Listed
<1>4. /\ wcount \in 0..WaveRing /\ wcount <= n /\ s \in 0..wcount /\ WaveRing \in Nat \ {0} /\ head \in Nat
      /\ consumed \in Nat /\ MaxConsumed \in Nat
      /\ \A i \in 0..wcount - 1 : ring[Place(head, i)] = q[i] /\ state[q[i]] \in {"Queued", "Playing"}
      /\ (wcount < WaveRing => wcount = n)
      /\ \A i \in wcount..n - 1 : state[q[i]] = "Waiting"
      /\ waiting = q[wcount]
  BY <1>3 DEF Holds, Full, W!WaveBufsAssumption, BufsFit, W!Ring
<1>5. R = [queue |-> Part(q, d, wcount), consumed |-> consumed + d]
  BY <1>0, <1>1, WavesReceived
<1>6. d \in Nat /\ d <= wcount /\ d <= n /\ wcount \in Nat
  BY <1>3, <1>4
<1> HIDE DEF R
<1>7. m = d /\ R.consumed = consumed + d /\ R.queue = Part(q, d, wcount)
  BY <1>4, <1>5, <1>6
<1>8. Len(list) = n /\ \A i \in 1..n : list[i] = q[i - 1]
  <2>1. IsFrom(first, next, q, n)
    BY <1>3, FromIs
  <2>2. list = [k \in 1..n |-> q[k - 1]]
    BY <2>1 DEF IsFrom
  <2> HIDE DEF list
  <2> QED BY <1>3, <2>2
<1> HIDE DEF m, list
<1>9. /\ \A k \in 0..n - 1 : q[k] \in Listed /\ q[k] \in Bufs
      /\ \A i, k \in 0..n - 1 : q[i] = q[k] => i = k
      /\ \A x \in Listed : \E k \in 0..n - 1 : q[k] = x
      /\ q[n] = NoBuf
  BY <1>3 DEF Chain
<1>10. \A k \in 0..n - 1 : q[k] \in done <=> k < d
  <2> SUFFICES ASSUME NEW k \in 0..n - 1 PROVE q[k] \in done <=> k < d
    OBVIOUS
  <2>1. done = {list[i] : i \in 1..(IF d < n THEN d ELSE n)}
    BY <1>7, <1>8
  <2> HIDE DEF done
  <2>2. ASSUME q[k] \in done PROVE k < d
    <3>1. PICK i \in 1..(IF d < n THEN d ELSE n) : list[i] = q[k]
      BY <2>1, <2>2
    <3>2. i \in 1..n /\ i - 1 \in 0..n - 1 /\ i <= d
      BY <1>3, <1>6
    <3>3. i - 1 = k
      BY <1>8, <1>9, <3>1, <3>2
    <3> QED BY <1>6, <3>2, <3>3
  <2>3. ASSUME k < d PROVE q[k] \in done
    <3>1. k + 1 \in 1..(IF d < n THEN d ELSE n) /\ k + 1 \in 1..n /\ (k + 1) - 1 = k
      BY <1>3, <1>6, <2>3
    <3> QED BY <1>8, <2>1, <3>1
  <2> QED BY <2>2, <2>3
<1>11. \A x \in done : x \in Listed
  <2> SUFFICES ASSUME NEW i \in 1..(IF m < Len(list) THEN m ELSE Len(list)) PROVE list[i] \in Listed
    OBVIOUS
  <2>1. i \in 1..n /\ i - 1 \in 0..n - 1
    BY <1>3, <1>6, <1>7, <1>8
  <2> QED BY <1>8, <1>9, <2>1
<1>12. n > d => list[d + 1] = q[d] /\ d \in 0..n - 1
  <2> SUFFICES ASSUME n > d PROVE list[d + 1] = q[d] /\ d \in 0..n - 1
    OBVIOUS
  <2>1. d + 1 \in 1..n /\ (d + 1) - 1 = d /\ d \in 0..n - 1
    BY <1>3, <1>6
  <2> QED BY <1>8, <2>1
<1> HIDE DEF done
<1>13. \A b \in Bufs : now[b] = IF b \in done THEN "Done"
                                ELSE IF n > d /\ b = list[d + 1] THEN "Playing" ELSE state[b]
  BY <1>7, <1>8
<1>14. \A k \in 0..n - 1 : now[q[k]] = IF k < d THEN "Done" ELSE IF k = d THEN "Playing" ELSE state[q[k]]
  <2> SUFFICES ASSUME NEW k \in 0..n - 1
               PROVE  now[q[k]] = IF k < d THEN "Done" ELSE IF k = d THEN "Playing" ELSE state[q[k]]
    OBVIOUS
  <2>1. n > d => (q[k] = q[d] <=> k = d)
    BY <1>9, <1>12
  <2>2. k = d => n > d
    BY <1>3, <1>6
  <2> HIDE DEF now
  <2> QED BY <1>9, <1>10, <1>12, <1>13, <2>1, <2>2
<1>15. \A b \in Bufs : b \notin Listed => now[b] = state[b] /\ state[b] \in {"Free", "Done"}
  <2> SUFFICES ASSUME NEW b \in Bufs, b \notin Listed PROVE now[b] = state[b] /\ state[b] \in {"Free", "Done"}
    OBVIOUS
  <2>1. b \notin done /\ (n > d => b # list[d + 1])
    BY <1>9, <1>11, <1>12
  <2>2. state[b] \in {"Free", "Done"}
    BY DEF Listed
  <2> HIDE DEF now
  <2> QED BY <1>13, <2>1, <2>2
<1>16. now = [b \in Bufs |-> now[b]]
       /\ \A b \in Bufs : now[b] \in {"Free", "Waiting", "Queued", "Playing", "Done"}
  BY <1>13 DEF BufsFit
<1> HIDE DEF now
<1>17. newHead = Place(head, d) /\ newHead \in W!Ring /\ newHead \in Nat
  <2>1. newHead = Place(head, d)
    BY <1>7 DEF Place
  <2>2. Place(head, d) \in W!Ring
    BY <1>4, <1>6, Places
  <2> QED BY <2>1, <2>2 DEF W!Ring
<1>18. \A i \in Nat : Place(newHead, i) = Place(head, d + i) /\ Place(newHead, i) \in W!Ring
  <2>1. \A i \in Nat : Place(Place(head, d), i) = Place(head, d + i)
    BY <1>4, <1>6, PlaceOn
  <2>2. \A i \in Nat : Place(newHead, i) \in W!Ring
    BY <1>17, Places
  <2> QED BY <1>17, <2>1, <2>2
<1> HIDE DEF newHead
<1>19. \A i \in Nat : all[Place(newHead, i)]
  BY <1>18
<1> HIDE DEF all
<1>20. /\ renderer' = [queue |-> renderer'.queue, consumed |-> renderer'.consumed]
       /\ renderer'.queue = Part(q, d, wcount) /\ renderer'.consumed = consumed + d
       /\ consumed' = consumed + d /\ isNew' = FALSE /\ head' = newHead /\ next' = next
  BY <1>2, <1>5, <1>7
<1>21. renderer'.queue \in Seq(Bufs) /\ NoTwice(renderer'.queue) /\ renderer'.consumed \in Nat
  <2>1. Part(q, d, wcount) \in Seq(Bufs) /\ NoTwice(Part(q, d, wcount))
    <3>1. IsPart(q, d, wcount)
      BY <1>3, <1>4, <1>6, PartIs
    <3> QED BY <3>1 DEF IsPart
  <2> QED BY <1>4, <1>6, <1>20, <2>1
<1>22. Played' = 0
  BY <1>4, <1>6, <1>20 DEF Played
<1>23. ASSUME NEW nn, NEW p, NEW ss, Queues(nn, p, ss)',
              state' \in [Bufs -> {"Free", "Waiting", "Queued", "Playing", "Done"}]
       PROVE  BufsFit'
  <2>1. head' \in W!Ring /\ consumed' \in Nat
    BY <1>4, <1>6, <1>17, <1>20
  <2>3. isNew' \in BOOLEAN
    BY <1>20
  <2>2. next' \in [Bufs -> Bufs \cup {NoBuf}]
    BY <1>20 DEF BufsFit
  <2> QED BY <1>20, <1>21, <1>23, <2>1, <2>2, <2>3 DEF BufsFit, NoTwice, W!Ring
<1>24. CASE n > d
  <2> DEFINE rest == {x \in Listed : \A k \in 0..d - 1 : q[k] # x}
  <2>0. PICK c, l : c = wcount - d /\ l = n - d
    OBVIOUS
  <2>1. Without(rest, Listed, q, d) /\ rest \subseteq Bufs
    BY <1>3 DEF Without
  <2>2. \A k \in 0..n - 1 : q[k] \in rest <=> ~(k < d)
    <3> SUFFICES ASSUME NEW k \in 0..n - 1 PROVE q[k] \in rest <=> ~(k < d)
      OBVIOUS
    <3>1. \A j \in 0..d - 1 : q[j] = q[k] <=> j = k
      <4>1. \A j \in 0..d - 1 : j \in 0..n - 1
        BY <1>3, <1>6
      <4> QED BY <1>9, <4>1
    <3> QED BY <1>6, <1>9, <3>1
  <2>3. \A x \in rest : x \in Listed
    OBVIOUS
  <2> HIDE DEF rest
  <2>4. NoBuf \notin Listed /\ d \in 0..n
    BY <1>3, <1>6 DEF W!WaveBufsAssumption
  <2>5. PICK p : Chain(q[d], next, rest, l, NoBuf, p) /\ Later(p, q, d, n)
    BY <1>3, <2>0, <2>1, <2>4, ChainTake
  <2>6. l \in Nat \ {0} /\ c \in 0..WaveRing /\ c <= l /\ c + d = wcount /\ c \in Nat /\ l + d = n
    BY <1>3, <1>4, <1>6, <1>24, <2>0
  <2>7. \A k \in 0..l : p[k] = q[k + d]
    BY <2>0, <2>5 DEF Later
  <2>8. first' = q[d] /\ last' = last /\ W!_audrvVoiceQueueWaveBufs(W!From(waiting, next), newHead, c, now, all)
    BY <1>2, <1>7, <1>8, <1>12, <1>24, <2>0
  <2>9. \A i \in 0..l - 1 : i + d \in 0..n - 1 /\ d + i = i + d /\ i \in 0..l
    BY <1>3, <1>6, <2>6
  <2>10. Holds(p, l, newHead, c, c, ring, all, now)
    <3>1. ASSUME NEW i \in 0..c - 1 PROVE ring[Place(newHead, i)] = p[i] /\ now[p[i]] \in {"Queued", "Playing"}
      <4>1. i \in Nat /\ i + d \in 0..wcount - 1 /\ i \in 0..l - 1
        BY <1>6, <2>6
      <4>2. ring[Place(newHead, i)] = q[i + d]
        BY <1>4, <1>18, <2>9, <4>1
      <4>3. now[q[i + d]] = IF i + d = d THEN "Playing" ELSE state[q[i + d]]
        <5>1. ~(i + d < d)
          BY <1>6, <4>1
        <5> QED BY <1>14, <2>9, <4>1, <5>1
      <4> QED BY <1>4, <2>7, <2>9, <4>1, <4>2, <4>3
    <3>2. \A i \in 0..c - 1 : all[Place(newHead, i)]
      BY <1>19, <2>6
    <3>3. \A i \in c..c - 1 : ~all[Place(newHead, i)]
      BY <2>6
    <3>4. \A i \in c..WaveRing - 1 : all[Place(newHead, i)]
      BY <1>19, <2>6
    <3>5. c \in 0..c
      BY <2>6
    <3> QED BY <2>6, <3>1, <3>2, <3>3, <3>4, <3>5 DEF Holds
  <2>11. Awaits(p, l, c, now)
    <3> SUFFICES ASSUME NEW i \in c..l - 1, i # 0 PROVE now[p[i]] = "Waiting"
      BY DEF Awaits
    <3>1. i \in 0..l - 1 /\ i + d \in wcount..n - 1 /\ ~(i + d < d) /\ i + d # d
      BY <1>3, <1>6, <2>6
    <3> QED BY <1>4, <1>14, <2>7, <2>9, <3>1
  <2>12. W!From(waiting, next) = Part(p, c, l)
    <3>1. waiting = p[c]
      BY <1>4, <2>6, <2>7
    <3>2. c \in 0..l /\ l \in Nat
      BY <2>6
    <3> QED BY <2>1, <2>5, <3>1, <3>2, FromPlace
  <2>13. /\ Holds(p, l, newHead, wcount', c, ring', sent', state') /\ Full(p, l, wcount', state', waiting')
         /\ Requeued(now, state', rest)
    <3>1. l \in Nat
      BY <2>6
    <3> QED BY <1>17, <2>1, <2>5, <2>8, <2>10, <2>11, <2>12, <3>1, WavesQueued
  <2>14. \A x \in rest : state'[x] \notin {"Free", "Done"}
    <3>1. l \in Nat
      BY <2>6
    <3> QED BY <2>5, <2>13, <3>1, StillListed
  <2>15. \A x \in Bufs : x \notin rest => state'[x] \in {"Free", "Done"}
    <3> SUFFICES ASSUME NEW x \in Bufs, x \notin rest PROVE now[x] \in {"Free", "Done"}
      BY <2>13 DEF Requeued
    <3>1. CASE x \in Listed
      <4>1. PICK k \in 0..n - 1 : q[k] = x
        BY <1>9, <3>1
      <4>2. k < d
        BY <2>2, <4>1
      <4> QED BY <1>14, <4>1, <4>2
    <3>2. CASE x \notin Listed
      BY <1>15, <3>2
    <3> QED BY <3>1, <3>2
  <2>16. Listed' = rest
    <3>1. Listed' = {x \in Bufs : state'[x] \notin {"Free", "Done"}}
      BY DEF Listed
    <3> QED BY <2>1, <2>14, <2>15, <3>1
  <2>17. state' \in [Bufs -> {"Free", "Waiting", "Queued", "Playing", "Done"}]
    <3>1. \A x \in Bufs : state'[x] \in {"Free", "Waiting", "Queued", "Playing", "Done"}
      BY <1>16, <2>13 DEF Requeued
    <3> QED BY <2>13, <3>1 DEF Requeued
  <2>18. Part(q, d, wcount) = Part(p, 0, c)
    <3>1. wcount - d = c - 0
      BY <1>4, <1>6, <2>6
    <3>2. \A i \in 1..wcount - d : q[i - 1 + d] = p[i - 1 + 0]
      <4> SUFFICES ASSUME NEW i \in 1..wcount - d PROVE q[i - 1 + d] = p[i - 1 + 0]
        OBVIOUS
      <4>1. i - 1 \in 0..l /\ i - 1 + 0 = i - 1
        BY <1>4, <1>6, <2>6
      <4> QED BY <2>7, <4>1
    <3> QED BY <3>1, <3>2 DEF Part
  <2>19. Queues(l, p, c)'
    <3>1. l \in Nat /\ Chain(first', next', Listed', l, NoBuf, p)
      BY <1>20, <2>5, <2>6, <2>8, <2>16
    <3>2. Holds(p, l, head', wcount', c, ring', sent', state') /\ Full(p, l, wcount', state', waiting')
      BY <1>20, <2>13
    <3>3. l # 0 => last' = p[l - 1]
      <4>1. (l - 1) + d = n - 1 /\ l - 1 \in 0..l /\ n # 0
        BY <1>3, <1>6, <2>6
      <4> QED BY <1>3, <2>7, <2>8, <4>1
    <3>4. Played' \in 0..c /\ (isNew' => c = 0 /\ consumed' = 0)
      BY <1>20, <1>22, <2>6
    <3>5. ~isNew' => renderer'.queue = Part(p, Played', c)
      BY <1>20, <1>22, <2>18
    <3>6. consumed' + l <= MaxConsumed
      BY <1>3, <1>4, <1>6, <1>20, <2>6
    <3> QED BY <3>1, <3>2, <3>3, <3>4, <3>5, <3>6 DEF Queues, Chain, Holds, Full, Part, Place
  <2> QED BY <1>23, <2>17, <2>19
<1>25. CASE ~(n > d)
  <2> DEFINE none == [k \in 0..0 |-> NoBuf]
  <2>1. none \in [0..0 -> {} \cup {NoBuf}] /\ none[0] = NoBuf /\ 0..0 - 1 = {}
    OBVIOUS
  <2> HIDE DEF none
  <2>2. n = d /\ wcount = n
    BY <1>3, <1>4, <1>6, <1>25
  <2>3. /\ first' = NoBuf /\ last' = NoBuf /\ state' = now /\ wcount' = 0 /\ sent' = all
        /\ waiting' = waiting
    <3>1. wcount - d = 0
      BY <1>6, <2>2
    <3> QED BY <1>2, <1>7, <1>8, <1>25, <3>1
  <2>4. \A b \in Bufs : state'[b] \in {"Free", "Done"}
    <3> SUFFICES ASSUME NEW b \in Bufs PROVE now[b] \in {"Free", "Done"}
      BY <2>3
    <3>1. CASE b \in Listed
      <4>1. PICK k \in 0..n - 1 : q[k] = b
        BY <1>9, <3>1
      <4>2. k < d
        BY <1>3, <2>2
      <4> QED BY <1>14, <4>1, <4>2
    <3>2. CASE b \notin Listed
      BY <1>15, <3>2
    <3> QED BY <3>1, <3>2
  <2>5. Listed' = {}
    <3>1. Listed' = {x \in Bufs : state'[x] \notin {"Free", "Done"}}
      BY DEF Listed
    <3> QED BY <2>4, <3>1
  <2>6. state' \in [Bufs -> {"Free", "Waiting", "Queued", "Playing", "Done"}]
    BY <1>16, <2>3
  <2>7. Chain(first', next', Listed', 0, NoBuf, none)
    BY <2>1, <2>3, <2>5 DEF Chain
  <2>8. Holds(none, 0, head', wcount', 0, ring', sent', state')
    <3>1. 0 \in 0..WaveRing /\ 0 <= 0 /\ 0 \in 0..0 /\ 0..0 - 1 = {}
      BY <1>4
    <3>2. \A i \in 0..WaveRing - 1 : all[Place(newHead, i)]
      BY <1>4, <1>19
    <3>3. Holds(none, 0, newHead, 0, 0, ring', all, state')
      BY <3>1, <3>2 DEF Holds
    <3> QED BY <1>20, <2>3, <3>3
  <2>9. Full(none, 0, wcount', state', waiting')
    <3>1. waiting' = NoBuf
      BY <1>4, <1>9, <2>2, <2>3
    <3>2. Full(none, 0, 0, state', waiting')
      BY <2>1, <3>1 DEF Full
    <3> QED BY <2>3, <3>2
  <2>10. Part(q, d, wcount) = Part(none, 0, 0)
    <3>1. wcount - d = 0 /\ 0 - 0 = 0 /\ 1..0 = {}
      BY <1>6, <2>2
    <3> QED BY <3>1 DEF Part
  <2>11. Queues(0, none, 0)'
    <3>1. /\ Played' \in 0..0 /\ (isNew' => consumed' = 0)
          /\ ~isNew' => renderer'.queue = Part(none, Played', 0)
          /\ consumed' + 0 <= MaxConsumed
      BY <1>3, <1>4, <1>6, <1>20, <1>22, <2>2, <2>10
    <3> QED BY <2>7, <2>8, <2>9, <3>1 DEF Queues, Chain, Holds, Full, Part, Place
  <2> QED BY <1>23, <2>6, <2>11
<1> QED BY <1>24, <1>25

LEMMA WavesStep ==
  ASSUME W!WaveBufsAssumption, BufsFit, [W!Next]_(W!vars) PROVE BufsFit'
<1>1. CASE W!Next
  BY <1>1, WavesAdd, WavesStop, WavesUpdate, WavesConsume DEF W!Next
<1>2. CASE UNCHANGED W!vars
  BY <1>2, WavesRest
<1> QED BY <1>1, <1>2

LEMMA WavesSound ==
  ASSUME W!WaveBufsAssumption, BufsFit PROVE W!RingIsListHead /\ W!PlayedOnce
<1>1. PICK n, q, s : Queues(n, q, s)
  BY DEF BufsFit
<1> DEFINE list == W!From(first, next)
<1>2. /\ n \in Nat /\ Chain(first, next, Listed, n, NoBuf, q) /\ Listed \subseteq Bufs
      /\ Holds(q, n, head, wcount, s, ring, sent, state) /\ Full(q, n, wcount, state, waiting)
      /\ (n # 0 => last = q[n - 1]) /\ Played \in 0..s /\ head \in Nat
  BY <1>1 DEF Queues, Listed, BufsFit, W!Ring
<1>3. /\ wcount \in 0..WaveRing /\ wcount <= n /\ s \in 0..wcount
      /\ \A i \in 0..wcount - 1 : ring[Place(head, i)] = q[i] /\ state[q[i]] \in {"Queued", "Playing"}
      /\ (wcount < WaveRing => wcount = n)
      /\ \A i \in wcount..n - 1 : state[q[i]] = "Waiting"
      /\ waiting = q[wcount]
  BY <1>2 DEF Holds, Full
<1>4. Len(list) = n /\ \A i \in 1..n : list[i] = q[i - 1]
  <2>1. IsFrom(first, next, q, n)
    BY <1>2, FromIs
  <2>2. list = [k \in 1..n |-> q[k - 1]]
    BY <2>1 DEF IsFrom
  <2> HIDE DEF list
  <2> QED BY <1>2, <2>2
<1> HIDE DEF list
<1>5. /\ \A k \in 0..n - 1 : q[k] \in Listed
      /\ \A x \in Listed : \E k \in 0..n - 1 : q[k] = x
      /\ q[n] = NoBuf /\ q[0] = first /\ NoBuf \notin Bufs
  BY <1>2 DEF Chain, W!WaveBufsAssumption
<1>6. Listed = {list[i] : i \in 1..Len(list)}
  <2>1. ASSUME NEW i \in 1..n PROVE list[i] \in Listed
    <3>1. i - 1 \in 0..n - 1
      BY <1>2
    <3> QED BY <1>4, <1>5, <3>1
  <2>2. ASSUME NEW x \in Listed PROVE \E i \in 1..n : list[i] = x
    <3>1. PICK k \in 0..n - 1 : q[k] = x
      BY <1>5
    <3>2. k + 1 \in 1..n /\ (k + 1) - 1 = k
      BY <1>2
    <3> QED BY <1>4, <3>1, <3>2
  <2> QED BY <1>4, <2>1, <2>2
<1>7. \A i \in 1..wcount : ring[(head + i - 1) % WaveRing] = list[i] /\ state[list[i]] \in {"Queued", "Playing"}
  <2> SUFFICES ASSUME NEW i \in 1..wcount
               PROVE  ring[(head + i - 1) % WaveRing] = list[i] /\ state[list[i]] \in {"Queued", "Playing"}
    OBVIOUS
  <2>1. i \in 1..n /\ i - 1 \in 0..wcount - 1 /\ head + i - 1 = head + (i - 1)
    BY <1>2, <1>3
  <2>2. (head + i - 1) % WaveRing = Place(head, i - 1)
    BY <2>1 DEF Place
  <2> QED BY <1>3, <1>4, <2>1, <2>2
<1>8. \A i \in wcount + 1..n : state[list[i]] = "Waiting"
  <2> SUFFICES ASSUME NEW i \in wcount + 1..n PROVE state[list[i]] = "Waiting"
    OBVIOUS
  <2>1. i \in 1..n /\ i - 1 \in wcount..n - 1
    BY <1>2, <1>3
  <2> QED BY <1>3, <1>4, <2>1
<1>9. waiting = (IF wcount < n THEN list[wcount + 1] ELSE NoBuf) /\ (wcount < WaveRing => waiting = NoBuf)
  <2>1. CASE wcount < n
    <3>1. wcount + 1 \in 1..n /\ (wcount + 1) - 1 = wcount
      BY <1>2, <1>3, <2>1
    <3> QED BY <1>2, <1>3, <1>4, <2>1, <3>1
  <2>2. CASE ~(wcount < n)
    <3>1. wcount = n
      BY <1>2, <1>3, <2>2
    <3> QED BY <1>3, <1>5, <2>2, <3>1
  <2> QED BY <2>1, <2>2
<1>10. first # NoBuf => last = list[n]
  <2> SUFFICES ASSUME first # NoBuf PROVE last = list[n]
    OBVIOUS
  <2>1. n # 0
    BY <1>5
  <2>2. n \in 1..n
    BY <1>2, <2>1
  <2> QED BY <1>2, <1>4, <2>1, <2>2
<1>11. W!RingIsListHead
  <2>1. {b \in Bufs : state[b] \notin {"Free", "Done"}} = {list[i] : i \in 1..Len(list)}
    BY <1>6 DEF Listed
  <2> QED BY <1>3, <1>4, <1>7, <1>8, <1>9, <1>10, <2>1 DEF W!RingIsListHead, list
<1>12. ASSUME ~isNew, NEW i \in 1..Len(renderer.queue) PROVE state[renderer.queue[i]] \in {"Queued", "Playing"}
  <2> DEFINE d == Played
  <2>1. d \in Nat /\ d <= s /\ s \in Nat /\ s <= n /\ s <= wcount /\ s - d \in Nat /\ wcount \in Nat
    BY <1>2, <1>3
  <2> HIDE DEF d
  <2>2. renderer.queue = [j \in 1..s - d |-> q[j - 1 + d]]
    BY <1>1, <1>12 DEF Queues, Part, d
  <2>3. Len(renderer.queue) = s - d
    BY <2>1, <2>2
  <2>4. i \in 1..s - d /\ renderer.queue[i] = q[i - 1 + d] /\ i - 1 + d \in 0..wcount - 1
    BY <2>1, <2>2, <2>3
  <2> QED BY <1>3, <2>4
<1>13. W!PlayedOnce
  BY <1>12 DEF W!PlayedOnce, BufsFit, NoTwice
<1> QED BY <1>11, <1>13

-----------------------------------------------------------------------------
(* All together.  Each step belongs to one of them, or to an object of     *)
(* another kind, and leaves the variables of the others alone.             *)
AudioInv == PoolsFit /\ VoicesFit(V!State) /\ BufsFit

IInv == FD!IInv /\ FF!IInv /\ FR!IInv /\ AudioInv

LEMMA OthersRest ==
  ASSUME [Next]_vars
  PROVE  /\ FD!Next \/ UNCHANGED fdVars
         /\ FF!Next \/ UNCHANGED ffVars
         /\ FR!Next \/ UNCHANGED frVars
         /\ P!Next \/ UNCHANGED pVars
         /\ V!Next \/ UNCHANGED vVars
         /\ W!Next \/ UNCHANGED wVars
<1>1. CASE UNCHANGED vars
  BY <1>1 DEF vars
<1>2. CASE Next
  BY <1>2 DEF Next, Step
<1> QED BY <1>1, <1>2

LEMMA IInvInit == Init => IInv
<1> SUFFICES ASSUME Init PROVE IInv
  OBVIOUS
<1>1. FD!Init /\ FF!Init /\ FR!Init /\ P!Init /\ V!Init /\ W!Init
  BY DEF Init
<1>2. FD!IInv /\ FF!IInv /\ FR!IInv
  BY <1>1, DevicesAssumption, FsDevInit, FileInit, DirInit DEF DevicesAssumption
<1>3. PoolsFit
  BY <1>1, DevicesAssumption, PoolsInit DEF DevicesAssumption
<1>4. VoicesFit(V!State)
  BY <1>1, DevicesAssumption, VoicesInit DEF DevicesAssumption
<1>5. BufsFit
  BY <1>1, DevicesAssumption, WavesInit DEF DevicesAssumption
<1> QED BY <1>2, <1>3, <1>4, <1>5 DEF IInv, AudioInv

LEMMA AudioInvStep ==
  ASSUME AudioInv, P!Next \/ UNCHANGED pVars, V!Next \/ UNCHANGED vVars, W!Next \/ UNCHANGED wVars
  PROVE  AudioInv'
<1>1. PoolsFit'
  <2>1. [P!Next]_(P!vars)
    BY DEF pVars, P!vars
  <2> QED BY <2>1, DevicesAssumption, PoolsStep DEF AudioInv, DevicesAssumption
<1>2. VoicesFit(V!State)'
  <2>1. [V!Next]_(V!vars)
    BY DEF vVars, V!vars
  <2> QED BY <2>1, DevicesAssumption, VoicesStep DEF AudioInv, DevicesAssumption
<1>3. BufsFit'
  <2>1. [W!Next]_(W!vars)
    BY DEF wVars, W!vars
  <2> QED BY <2>1, DevicesAssumption, WavesStep DEF AudioInv, DevicesAssumption
<1> QED BY <1>1, <1>2, <1>3 DEF AudioInv

LEMMA IInvStep ==
  ASSUME IInv, [Next]_vars PROVE IInv'
<1>1. FD!IInv'
  BY OthersRest, DevicesAssumption, FsDevStep, FsDevRests DEF IInv, DevicesAssumption
<1>2. FF!IInv'
  BY OthersRest, DevicesAssumption, FileStep, FileRests DEF IInv, DevicesAssumption
<1>3. FR!IInv'
  BY OthersRest, DevicesAssumption, DirStep, DirRests DEF IInv, DevicesAssumption
<1>4. AudioInv'
  BY OthersRest, AudioInvStep DEF IInv
<1> QED BY <1>1, <1>2, <1>3, <1>4 DEF IInv

(* The inductive invariants hold of every behaviour. *)
THEOREM Invariant == Spec => []IInv
BY IInvInit, IInvStep, PTL DEF Spec

(* Whatever is mounted and unmounted under whatever names, a path leads to *)
(* a device that is mounted and to its open session, which no other device *)
(* has, for tables of every size.                                          *)
THEOREM MountsAreConsistent == Spec => []MountsConsistent
<1>1. IInv => MountsConsistent
  BY DevicesAssumption, FsDevConsistent DEF IInv, MountsConsistent, DevicesAssumption
<1> QED BY <1>1, Invariant, PTL

(* A read or write of a file returns the number of bytes it moved, in      *)
(* their places and followed by the position, in pieces of every size; a   *)
(* directory gives its entries in their order, in batches of every size.   *)
THEOREM FilesAreExact == Spec => []FilesExact
<1>1. IInv => FilesExact
  BY DevicesAssumption, FileExact, DirInOrder DEF IInv, FilesExact, DevicesAssumption
<1> QED BY <1>1, Invariant, PTL

(* Whatever is allocated, dropped and requested in whatever order, and     *)
(* whenever the renderer answers: no pool or sink is handed out twice, and *)
(* none is free that is mapped; each voice is in the list or free and no   *)
(* channel belongs to two; the buffers that play are the first of their    *)
(* voice's list and each is played once, for lists of every length.        *)
THEOREM AudioListsAreSound == Spec => []AudioListsSound
<1>1. ASSUME IInv PROVE AudioListsSound
  <2>1. P!HandedOutOnce /\ P!MappedIsGiven
    BY <1>1, DevicesAssumption, PoolsSound DEF IInv, AudioInv, DevicesAssumption
  <2>2. V!VoicesAndChannels
    BY <1>1, DevicesAssumption, VoicesSound DEF IInv, AudioInv, DevicesAssumption
  <2>3. W!RingIsListHead /\ W!PlayedOnce
    BY <1>1, DevicesAssumption, WavesSound DEF IInv, AudioInv, DevicesAssumption
  <2> QED BY <2>1, <2>2, <2>3 DEF AudioListsSound
<1> QED BY <1>1, Invariant, PTL
=============================================================================
