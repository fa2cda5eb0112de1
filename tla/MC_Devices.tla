----------------------------- MODULE MC_Devices -----------------------------
(***************************************************************************)
(* An instance of Devices for TLC, and beside it what has no parties that  *)
(* interfere: the conversions, messages, images and patches of libnx and   *)
(* Sp2Patcher.  A behaviour exercises one of all of them: object says      *)
(* which of Devices, or that it is none, and item which of the others.     *)
(* The values are chosen so that the interesting cases happen:             *)
(*   Services  the number of users of a service wraps only after 2^64      *)
(*             calls, here after 16                                        *)
(*   Display   two frame buffers that contend for two slots                *)
(*   NvFence   one slot that ffs cannot find, and one thread more than it  *)
(*             can                                                         *)
(*   UsbComms  one controller and two interfaces, a user for either        *)
(*             direction                                                   *)
(*   Memory    little space between the regions, so that slices are looked *)
(*             for again                                                   *)
(*   Audio     the middle of a list of three voices is taken out, channels *)
(*             run out; one buffer more than the ring holds, whose head    *)
(*             goes round it twice                                         *)
(***************************************************************************)
EXTENDS Devices, TLC

CONSTANTS t1, t2, t3, fb1, fb2, wb1, wb2, wb3

(* A service that uses no other shares nothing with the rest, so it is     *)
(* exercised alone; the others run with the service they share a count of. *)
Together == {{"socket", "nifm"}, {"applet", "apm"}, {"spl", "splCrypto", "splEs"}, {"splSsl", "splFs"}}

Alone ==
  {"acc", "pmdmnt", "pminfo", "pmshell", "nsdev", "ldrShell", "ldrDmnt", "ldrPm", "bpc", "set",
   "setsys", "smManager", "ncm", "csrng", "lr", "hidsys", "splManu", "roDmnt", "nsvm", "fs",
   "fsldr", "ldrRo", "ns", "i2c", "auddev", "pl", "gpio", "nifm", "wlaninf", "lbl", "psc", "audin",
   "audout", "pcv", "capssu", "capssc", "psm", "spsm", "nv", "nfpu", "sm", "hid", "irs", "time",
   "fspr", "nvGpu", "nvMap", "nvFence", "usbDs", "usbHs", "bsd", "audren", "vi", "hwopus",
   "applet", "__nx_win", "__app"}

MC_Programs == {{s} : s \in Alone} \cup Together

MC_Regions == <<[start |-> 7, end |-> 9], [start |-> 4, end |-> 5]>>
MC_Size == ("t" :> 2) @@ ("s" :> 1) @@ ("j" :> 2) @@ ("k" :> 1) @@ ("h" :> 1)

(* Samples of which two that follow each other differ; the rings of which   *)
(* one is read again while it is copied go round once.                     *)
HidMarks(dev, shape, time) ==
  IF time = 0 THEN {}
  ELSE IF dev = "touch" THEN {m \in {"touch"} : time = 1}
  ELSE {m \in {"connected"} : time \in {1, 2}}
       \cup {m \in {"A"} : time = (IF shape = "default" THEN 2 ELSE 4)}
       \cup {m \in {"B"} : time >= 3}

HidRings == {"touch", "mouse", "keyboard", "player1", "motion", "handheld"}

MC_MaxTime == [d \in HidRings |-> IF d \in {"touch", "handheld"} THEN 2 ELSE 4]
MC_Feeds == {{"touch", "handheld"}, {"mouse"}, {"keyboard"}, {"player1"}, {"motion"}}
MC_Marks == [d \in HidRings, l \in {"default", "left"}, n \in 0..4 |-> HidMarks(d, l, n)]

(* Three names, two of which begin another or what another begins with. *)
MC_Names == {<<"s">>, <<"s", "2">>}
MC_Sdmc == <<"s", "d">>

(* Batches that are full, with an entry of no name, and one that is not.   *)
MC_Listing == <<TRUE, TRUE, FALSE, TRUE, TRUE>>

(* The code points around every boundary of an encoding, and the bytes     *)
(* around every boundary of a decoder; strings of one or two characters.   *)
MC_CodePoints == {1, 127, 128, 2047, 2048, 4095, 55295, 57344, 65535, 65536, 1114111, 1114112}
MC_Strings == {<<c>> : c \in MC_CodePoints} \cup {<<c, d>> : c, d \in MC_CodePoints}
MC_Fragments ==
  {<<a, b, c, d>> :
     a \in {0, 65, 127, 128, 191, 192, 193, 194, 223, 224, 225, 239, 240, 241, 244, 245, 255},
     b \in {0, 65, 127, 128, 143, 144, 159, 160, 191, 192},
     c \in {0, 127, 128, 191, 192}, d \in {0, 128, 191, 192}}

-----------------------------------------------------------------------------
VARIABLES
  item,   \* the one that is exercised, or "none"
  domain, phase, cmd, added, message, raw, parsed, answer,      (* Ipc         *)
  part, nsos, custom, config, done, outdir,                     (* Patcher     *)
  rcwd, looked, rfile, iter, listed,                            (* Romfs       *)
  version, session, stage, request, area, read, taken           (* Requests    *)

(* Raw data with and without padding before and after it; of two sizes of  *)
(* a smart buffer, one that the server has room for.                       *)
I == INSTANCE Ipc
       WITH MaxAdds <- 3, RawSizes <- {4, 6}, AnyOrder <- {}, PointerSize <- 1

(* What Sp2Patcher is run on: modules of a few pages of 16 bytes, all      *)
(* sequences of up to two patches.  Of the game's modules at most one ends *)
(* inside a page: the patcher rounds only the sum of the sizes, the loader *)
(* every size.                                                             *)
rtld == 0
main == 1
sdk == 12

Nso(name, text, rodata, rwdata, bss) ==
  LET ro == IF text <= 16 THEN 16 ELSE 32
      rw == ro + 16
  IN [name |-> name,
      text |-> [addr |-> 0, size |-> text],
      rodata |-> [addr |-> ro, size |-> rodata],
      rwdata |-> [addr |-> rw, size |-> rwdata],
      bss |-> bss,
      data |-> [a \in (0 .. text - 1) \cup (ro .. ro + rodata - 1) \cup (rw .. rw + rwdata - 1)
                  |-> [patch |-> 0, at |-> a, imm |-> 0]],
      bssEnd |-> rw + rwdata + bss,
      modObj |-> 0]

Game(r, m, s) ==
  [i \in rtld..sdk |-> CASE i = rtld -> r [] i = main -> m [] i = sdk -> s [] OTHER -> NoBuf]

(* All modules end on a page; rtld does not; main does not.                *)
Dirs ==
  {Game(Nso("rtld", 8, 4, 4, r), Nso("main", 20, 4, 8, m), Nso("sdk", 12, 8, 4, 12))
     : <<r, m>> \in {<<12, 8>>, <<4, 8>>, <<12, 3>>}}

Custom == Nso("custom", 16, 8, 8, 4)

Symbols == ("hook1" :> 0) @@ ("hook2" :> 12)

Hook(s) == [symbol |-> s]
At(name, offset) == [nso |-> name, offset |-> offset]
Branch(type, address, to) == [type |-> type, address |-> address, target |-> to]

(* Branches from every module, forward, backward and too far; a symbol the *)
(* listing does not have; data and pointers in a segment, over its end, in *)
(* bss, between two modules and outside of all.                            *)
Patches ==
  {Branch("b", At(sdk, 4), Hook("hook2")), Branch("b", At(main, 16), Hook("hook2")),
   Branch("bl", At(main, 8), Hook("hook1")), Branch("bl", At(rtld, 0), Hook("hook2")),
   Branch("b", At(main, 18), Hook("hook1")), Branch("bl", Hook("hook2"), At(main, 0)),
   Branch("b", At(main, 4), Hook("missing")), Branch("ptr", At(main, 48), Hook("hook1")),
   Branch("b", At(rtld, 44), Hook("hook1"))}
  \cup {[type |-> "data", address |-> At(main, o), len |-> 4] : o \in {16, 18, 44, 60, 400}}

Configs == UNION {[1 .. n -> Patches] : n \in 0 .. 2}
X == INSTANCE Patcher
       WITH PageSize <- 16, Null <- NoBuf, ModObjSize <- 8, MaxLabel <- 172, UIntRange <- 4096,
            phase <- part

(* /a, /b, /a/a, /a/f, /f and /a/b, the last three of them files; the names*)
(* a and b fall into one bucket in all directories.                        *)
RF == INSTANCE Romfs
        WITH DirEntries <- 0..3, Entries <- 0..6,
             Parent <- (0 :> 0) @@ <<0, 1, 0, 0, 1, 1>>,
             Name <- (0 :> "") @@ <<"a", "a", "b", "f", "f", "b">>,
             FileSize <- (4 :> 2) @@ (5 :> 0) @@ (6 :> 1),
             Hash <- [d \in (0..3) \X {"a", "b", "f", "", ".", ".."} |->
                        IF d[2] \in {"a", "b"} THEN 0 ELSE d[1] % 2],
             Components <- {"a", "b", "f", "", ".", ".."}, MaxPath <- 3, ReadLengths <- {1, 2},
             cwd <- rcwd, last <- looked, file <- rfile

Storage == INSTANCE StorageCommands
System == INSTANCE SystemCommands
Applet == INSTANCE AppletCommands
Media == INSTANCE MediaCommands

ServiceCommands == Storage!All \cup System!All \cup Applet!All \cup Media!All
Given == {r.gives : r \in ServiceCommands} \ {""}
Interfaces == {r.on : r \in ServiceCommands} \cup Given
CommandsOf == [on \in Interfaces |-> {r \in ServiceCommands : r.on = on}]

(* nsAppManSrv is a service of its own before 3.0.0. *)
RQ == INSTANCE Requests
        WITH Commands <- CommandsOf,
             Roots <- (Interfaces \ Given) \cup {"nsAppManSrv"},
             Domains <- {"appletSrv", "fsSrv", "fsldrSrv", "nfpuSrv", "nfcuSrv", "nifmSrv", "pscSrv",
                         "usbDsSrv", "usbHsSrv"},
             Withdrawn <- [v \in 1..System!LastVersion |-> System!Absent(v)]

ASSUME
  /\ RQ!RequestsAssumption /\ I!IpcAssumption /\ RF!RomfsAssumption

(* The constants of the decoders, 0x3080, 0xe2080, 0x3c82080, 0x35fdc00.   *)
ASSUME
  /\ 12416 = 3 * 16^3 + 8 * 16
  /\ 925824 = 14 * 16^4 + 2 * 16^3 + 8 * 16
  /\ 63447168 = 3 * 16^6 + 12 * 16^5 + 8 * 16^4 + 2 * 16^3 + 8 * 16
  /\ 56613888 = 3 * 16^6 + 5 * 16^5 + 15 * 16^4 + 13 * 16^3 + 12 * 16^2

-----------------------------------------------------------------------------
Items ==
  {"ipc", "patcher", "romfs", "requests"}

iVars == <<domain, phase, cmd, added, message, raw, parsed, answer>>
xVars == <<part, nsos, custom, config, done, outdir>>
rfVars == <<rcwd, looked, rfile, iter, listed>>
rqVars == <<version, session, stage, request, area, read, taken>>

itemVars == <<item, iVars, xVars, rfVars, rqVars>>

(* Where the initial state is a choice, one value for those not exercised. *)
ItemInit ==
  /\ I!Init /\ RF!Init
  /\ item # "ipc" => ~domain
  /\ IF item = "patcher" THEN X!Init
     ELSE /\ part = "alloc" /\ nsos = <<>> /\ custom = <<>> /\ config = <<>> /\ done = 0
          /\ outdir = {}
  /\ IF item = "requests" THEN RQ!Init
     ELSE /\ version = 1 /\ session = [on |-> "", domain |-> FALSE] /\ stage = "idle"
          /\ request = RQ!NoRequest /\ area = RQ!NoArea /\ read = RQ!None /\ taken = <<>>

ItemStep ==
  \/ item = "ipc" /\ I!Next
  \/ item = "patcher" /\ X!Next
  \/ item = "romfs" /\ RF!Next
  \/ item = "requests" /\ RQ!Next

ItemNext ==
  /\ ItemStep
  /\ UNCHANGED item
  /\ item # "ipc" => UNCHANGED iVars
  /\ item # "patcher" => UNCHANGED xVars
  /\ item # "romfs" => UNCHANGED rfVars
  /\ item # "requests" => UNCHANGED rqVars

AllInit ==
  /\ Init
  /\ item \in IF object = "none" THEN Items ELSE {"none"}
  /\ ItemInit

AllNext ==
  \/ Next /\ UNCHANGED itemVars
  \/ object = "none" /\ ItemNext /\ UNCHANGED vars

AllSpec == AllInit /\ [][AllNext]_<<vars, itemVars>>

-----------------------------------------------------------------------------
(* A message is found where it was put, and a request reaches its server   *)
(* as its function means it; what appletQueryApplicationPlayStatistics     *)
(* does to its buffers is a finding.                                       *)
RequestUnderstood ==
  /\ item = "ipc" => I!MessageFound
  /\ item = "requests" =>
       /\ RQ!OneMeaning /\ RQ!ObjectTaken
       /\ request \notin Applet!appletQueryApplicationPlayStatistics => RQ!ItemsFound

PatchesExact == item = "patcher" => X!BranchesLand /\ X!ModulesWhereExpected /\ X!OnlyPatchesChange
ImageRead == item = "romfs" => RF!ImageRead
FoundByName == FD!FoundByName
=============================================================================
