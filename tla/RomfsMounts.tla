---------------------------- MODULE RomfsMounts ----------------------------
(***************************************************************************)
(* The table of mounts of runtime/devices/romfs_dev.c.  A mount is taken   *)
(* from the slots that are not set up; nothing ever marks one as set up.   *)
(***************************************************************************)
EXTENDS Integers

CONSTANTS
  Names,     \* names of mounts, none of which begins with another
  Sources,   \* the files and storages with images
  NumMounts  \* 32

RomfsMountsAssumption == NumMounts \in Nat \ {0}

VARIABLES
  mounts,    \* romfs_mounts
  devoptab,  \* the slots that newlib calls
  open,      \* the sources that are open
  mounted,   \* the names under which the program has mounted something
  returned   \* what the last call returned

vars == <<mounts, devoptab, open, mounted, returned>>

Slots == 0..NumMounts - 1
Free == [setup |-> FALSE, name |-> "", source |-> {}]

Init ==
  /\ mounts = [i \in Slots |-> Free]
  /\ devoptab = {} /\ open = {} /\ mounted = {} /\ returned = [call |-> "none", rc |-> 0]

Lowest(S) == CHOOSE i \in S : \A j \in S : i <= j

Unused == {i \in Slots : ~mounts[i].setup}
Matching(name) == {i \in Slots : mounts[i].setup /\ mounts[i].name = name}

(* romfsMount, romfsMountFromFile, romfsMountFromStorage and               *)
(* romfsMountFromDataArchive: all slots taken, the source cannot be opened,*)
(* or romfsMountCommon; a failure there closes it and clears the slot.     *)
Mount(name, source) ==
  /\ source \notin open /\ name \notin mounted
  /\ \/ /\ Unused = {}
        /\ returned' = [call |-> "mount", rc |-> 99]
        /\ UNCHANGED <<mounts, devoptab, open, mounted>>
     \/ /\ Unused # {}
        /\ \E i \in {Lowest(Unused)} :
             \/ /\ mounts' = [mounts EXCEPT ![i] = Free]
                /\ returned' = [call |-> "mount", rc |-> 10]
                /\ UNCHANGED <<devoptab, open, mounted>>
             \/ /\ mounts' = [mounts EXCEPT ![i].name = name, ![i].source = {source}]
                /\ devoptab' = devoptab \cup {i}
                /\ open' = open \cup {source}
                /\ mounted' = mounted \cup {name}
                /\ returned' = [call |-> "mount", rc |-> 0]

romfsUnmount(name) ==
  IF Matching(name) = {}
  THEN /\ returned' = [call |-> IF name \in mounted THEN "unmount" ELSE "none", rc |-> -1]
       /\ UNCHANGED <<mounts, devoptab, open, mounted>>
  ELSE LET i == Lowest(Matching(name))
       IN  /\ open' = open \ mounts[i].source
           /\ mounts' = [mounts EXCEPT ![i] = Free]
           /\ mounted' = mounted \ {name}
           /\ returned' = [call |-> "unmount", rc |-> 0]
           /\ UNCHANGED devoptab

Next ==
  \/ \E name \in Names, source \in Sources : Mount(name, source)
  \/ \E name \in Names : romfsUnmount(name)

Spec == Init /\ [][Next]_vars

-----------------------------------------------------------------------------
(* "Unmounts the RomFS device": the program can unmount what it mounted.   *)
Unmounts == returned.call = "unmount" => returned.rc = 0
=============================================================================
