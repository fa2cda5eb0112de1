------------------------------- MODULE FsDev -------------------------------
(***************************************************************************)
(* The devices of runtime/devices/fs_dev.c: file systems mounted under a   *)
(* name in a table of slots, with a default device for paths without one   *)
(* and a current device for relative paths.  newlib calls the device that  *)
(* it finds for a path; fsdev_fixpath then looks for the slot on its own.  *)
(* A name is the sequence of its letters, for names are compared by what   *)
(* they begin with.                                                        *)
(***************************************************************************)
EXTENDS Integers, Sequences

CONSTANTS
  Names,      \* names that the program mounts file systems under
  Sdmc,       \* "sdmc"
  Sessions,   \* sessions of file systems
  NumDevices  \* 32

Begins(name, with) == Len(with) <= Len(name) /\ SubSeq(name, 1, Len(with)) = with

(* A name does not begin with a slash, as only a path without one does. *)
Root == <<"/">>
FsDevAssumption ==
  /\ Names \cup {Sdmc} \subseteq Seq(STRING) /\ Sdmc \notin Names
  /\ \A name \in Names \cup {Sdmc} : ~Begins(name, Root)
  /\ NumDevices \in Nat \ {0}

VARIABLES
  initialised,  \* fsdev_initialised
  devices,      \* fsdev_fsdevices: the session and the name of those set up
  default,      \* fsdev_fsdevice_default
  cwd,          \* fsdev_fsdevice_cwd
  devoptab,     \* newlib's devices: the slots it calls, by name
  open          \* the sessions that are open

vars == <<initialised, devices, default, cwd, devoptab, open>>

Slots == 0..NumDevices - 1
Nowhere == -1
Free == [setup |-> FALSE, fs |-> {}, name |-> <<>>]

Init ==
  /\ initialised = FALSE
  /\ devices = [i \in Slots |-> Free]
  /\ default = Nowhere /\ cwd = Nowhere
  /\ devoptab = {} /\ open = {}

-----------------------------------------------------------------------------
SetUp == {i \in Slots : devices[i].setup}

Lowest(S) == IF S = {} THEN Nowhere ELSE CHOOSE i \in S : \A j \in S : i <= j

(* fsdevFindDevice: the default device for "/", and for a name the first   *)
(* device whose own name it begins with.                                   *)
fsdevFindDevice(name) ==
  IF ~initialised THEN Nowhere
  ELSE IF name = Root THEN IF default \in SetUp THEN default ELSE Nowhere
  ELSE Lowest({i \in SetUp : Begins(name, devices[i].name)})

FindUnused == Lowest(Slots \ SetUp)

(* fsdev_fixpath: the device of a path, given the name before its colon.   *)
PathDevice(name, absolute) == IF absolute THEN fsdevFindDevice(name) ELSE cwd

-----------------------------------------------------------------------------
(* _fsdevMountDevice: the session becomes the device's or is closed; newlib*)
(* may have no room.  The names of a table that was torn down are cleared. *)
Mount(name, s, asDefault) ==
  LET unused == FindUnused
      refused == fsdevFindDevice(name) # Nowhere \/ unused = Nowhere
  IN  /\ initialised' = TRUE
      /\ \/ /\ refused
            /\ open' = open \ {s}
            /\ UNCHANGED <<devices, default, cwd, devoptab>>
         \/ /\ ~refused   \* AddDevice fails
            /\ open' = open \ {s}
            /\ devices' = [devices EXCEPT ![unused] = [Free EXCEPT !.name = name]]
            /\ UNCHANGED <<default, cwd, devoptab>>
         \/ /\ ~refused
            /\ open' = open \cup {s}
            /\ devices' = [devices EXCEPT ![unused] = [setup |-> TRUE, fs |-> {s}, name |-> name]]
            /\ devoptab' = devoptab \cup {[name |-> name, slot |-> unused]}
            /\ default' = IF asDefault THEN unused ELSE default
            /\ cwd' = IF asDefault THEN unused ELSE cwd

(* The program has opened a session and hands it over. *)
fsdevMountDevice(name, s) == s \notin open /\ Mount(name, s, FALSE)

(* Nothing is done if "sdmc" is found; the program's own directory, which  *)
(* becomes the current one, is on the same device.                         *)
fsdevMountSdmc(s) ==
  /\ s \notin open
  /\ fsdevFindDevice(Sdmc) = Nowhere
  /\ Mount(Sdmc, s, TRUE)

BadWithout(st, i) ==
  IF ~st.devices[i].setup THEN st
  ELSE [st EXCEPT !.devices[i] = Free,
                  !.default = IF @ = i THEN Nowhere ELSE @,
                  !.cwd = IF @ = i THEN st.default ELSE @,
                  !.devoptab = {d \in @ : d.name # st.devices[i].name},
                  !.open = @ \ st.devices[i].fs]

(* The state without the device in a slot. *)
Without(st, i) ==
  LET default1 == IF st.default = i THEN Nowhere ELSE st.default
  IN  IF ~st.devices[i].setup THEN st
      ELSE [st EXCEPT !.devices[i] = Free,
                      !.default = default1,
                      !.cwd = IF @ = i THEN default1 ELSE @,
                      !.devoptab = {d \in @ : d.name # st.devices[i].name},
                      !.open = @ \ st.devices[i].fs]

Table ==
  [devices |-> devices, default |-> default, cwd |-> cwd, devoptab |-> devoptab, open |-> open]

Becomes(st) ==
  /\ devices' = st.devices /\ default' = st.default /\ cwd' = st.cwd
  /\ devoptab' = st.devoptab /\ open' = st.open

fsdevUnmountDevice(name) ==
  /\ fsdevFindDevice(name) # Nowhere
  /\ Becomes(Without(Table, fsdevFindDevice(name)))
  /\ UNCHANGED initialised

(* The table without the devices of the first k slots. *)
Unmounted[k \in 0..NumDevices] ==
  IF k = 0 THEN Table ELSE Without(Unmounted[k - 1], k - 1)

fsdevUnmountAll ==
  /\ initialised
  /\ Becomes(Unmounted[NumDevices])
  /\ initialised' = FALSE

(* The directory may not be there. *)
fsdev_chdir(name, absolute) ==
  /\ PathDevice(name, absolute) # Nowhere
  /\ cwd' = PathDevice(name, absolute)
  /\ UNCHANGED <<initialised, devices, default, devoptab, open>>

Lookups == Names \cup {Sdmc, Root}

Next ==
  \/ \E name \in Names, s \in Sessions : fsdevMountDevice(name, s)
  \/ \E s \in Sessions : fsdevMountSdmc(s)
  \/ \E name \in Lookups : fsdevUnmountDevice(name)
  \/ fsdevUnmountAll
  \/ \E name \in Lookups, absolute \in BOOLEAN : fsdev_chdir(name, absolute)

Spec == Init /\ [][Next]_vars

-----------------------------------------------------------------------------
AllNames == Names \cup {Sdmc}
DeviceStructs == [setup : BOOLEAN, fs : SUBSET Sessions, name : AllNames \cup {<<>>}]
Tables ==
  [devices : [Slots -> DeviceStructs], default : Slots \cup {Nowhere}, cwd : Slots \cup {Nowhere},
   devoptab : SUBSET [name : AllNames, slot : Slots], open : SUBSET Sessions]

TypeOK == initialised \in BOOLEAN /\ Table \in Tables

(* Whatever path the program gives, an operation uses the session of a     *)
(* device that is mounted, also after the default or the current device    *)
(* has been unmounted.                                                     *)
OnlyOpenSessions ==
  \A name \in Lookups, absolute \in BOOLEAN :
    LET i == PathDevice(name, absolute)
    IN  i # Nowhere => devices[i].setup /\ devices[i].fs \subseteq open

(* A session that was handed over is open as long as one device has it,    *)
(* and newlib knows just the devices that are mounted.                     *)
SessionsHeld ==
  /\ \A s \in open : \E i \in SetUp : devices[i].fs = {s} /\ \A j \in SetUp \ {i} : devices[j].fs # {s}
  /\ devoptab = {[name |-> devices[i].name, slot |-> i] : i \in SetUp}

MountsConsistent == OnlyOpenSessions /\ SessionsHeld

(* "Find the device with the input name": an absolute path reaches the     *)
(* device that is mounted under the name it begins with.                   *)
FoundByName == \A i \in SetUp : fsdevFindDevice(devices[i].name) = i

-----------------------------------------------------------------------------
(* A table on its way to being torn down: no two devices have one name or  *)
(* one session, so that to take one away leaves the others as they are.    *)
SetUpIn(st) == {i \in Slots : st.devices[i].setup}

Consistent(st) ==
  /\ {st.default, st.cwd} \subseteq SetUpIn(st) \cup {Nowhere}
  /\ \A i, j \in SetUpIn(st) : i # j =>
       st.devices[i].name # st.devices[j].name /\ st.devices[i].fs # st.devices[j].fs
  /\ \A i \in SetUpIn(st) : \E s \in st.open : st.devices[i].fs = {s}
  /\ \A s \in st.open : \E i \in SetUpIn(st) : st.devices[i].fs = {s}
  /\ st.devoptab = {[name |-> st.devices[i].name, slot |-> i] : i \in SetUpIn(st)}

IInv == TypeOK /\ Consistent(Table) /\ (~initialised => SetUp = {})
=============================================================================
