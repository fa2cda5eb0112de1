------------------------------- MODULE Devices -------------------------------
(***************************************************************************)
(* The services, devices and memory objects of libnx, and the game of      *)
(* sp2Module.  They share no state, so a behaviour exercises one of them:  *)
(* object says which, if any, and the state space is the union of theirs.  *)
(***************************************************************************)
EXTENDS Integers, Sequences, FiniteSets

CONSTANTS
  Programs, MaxUses, MaxCount, Wrap, HosVersions, AppletTypes,   (* Services *)
  Framebuffers, WindowSlots, Sizes, DefaultSize, Margins,        (* Display  *)
  Threads, NoThread, EventSlots, NumFindable,                    (* NvFence  *)
  Controllers, Users, NumInterfaces,                             (* UsbComms *)
  Start, End, Regions, Program, Tmems, Shmems, CodeJits,
    JitJits, Thrds, Size,                                        (* Memory   *)
  SCREEN_W, GAME_X, GAME_W, PLAYER_OFF, PLAYER_W, BALL_SPEED,
    BALL_SIZE, MaxScore,                                         (* Pong     *)
  RingSize, Layouts, Default, MaxTime, Feeds, Marks,             (* Hid      *)
  Names, Sdmc, Sessions, NumDevices,                             (* FsDev    *)
  Lengths, Piece, MaxSize, MaxWrites,                            (* FsFile   *)
  Listing, Batch,                                                (* FsDir    *)
  NumPools, NumMixes, NumSinks, MaxMixBuffers,                   (* AudioPools *)
  NumVoices, MaxChannels,                                        (* AudioVoices *)
  Bufs, NoBuf, WaveRing, MaxConsumed,                            (* WaveBufs *)
  CodePoints, Strings, Fragments, MaxLen                         (* Utf      *)

VARIABLES
  object,
  hosver, appletType, nso, program, scount, active, orphans, exitFlag,
    stack, users, ready, surplus, over,                         (* Services  *)
  nw, queue, live, dtorn, fatal,                                (* Display   *)
  mask, registered, signalled, armed, reached, fpc, cur, slot,
    rc, late,                                                   (* NvFence   *)
  ds, initialized, intf, gLock, lock, dirLock, upc, at, want,
    dir, attempt, configured, crashed,                          (* UsbComms  *)
  cursor, mapCursor, maps, slice, handle, src, heap, made,
    exec, mtorn,                                                (* Memory    *)
  ballX, direction, score, hit,                                 (* Pong      *)
  fed, entered, published, scan, stamp, kept, trail, keys,
    autoID, layout, enabled, stale, seen,                       (* Hid       *)
  fsReady, devices, default, cwd, devoptab, open,               (* FsDev     *)
  exists, content, file, call, writes,                          (* FsFile    *)
  directory, delivered,                                         (* FsDir     *)
  pools, mixes, sinks, poolState, mixBuffers, buffersOf,
    attached, given,                                            (* AudioPools *)
  link, prevNext, used, channels, firstFree, nextFree,
    freeCount, order,                                           (* AudioVoices *)
  state, next, first, waiting, last, ring, sent, head, wcount,
    consumed, isNew, renderer,                                  (* WaveBufs  *)
  source, target, input, room, chars, upos, urc, output, uresult (* Utf      *)

S == INSTANCE Services WITH count <- scount
D == INSTANCE Display WITH NumSlots <- WindowSlots, torn <- dtorn
F == INSTANCE NvFence WITH NumSlots <- EventSlots, pc <- fpc
U == INSTANCE UsbComms WITH pc <- upc
M == INSTANCE Memory WITH torn <- mtorn
PG == INSTANCE Pong WITH x <- ballX
H == INSTANCE Hid
FD == INSTANCE FsDev WITH initialised <- fsReady
FF == INSTANCE FsFile
FR == INSTANCE FsDir
P == INSTANCE AudioPools
V == INSTANCE AudioVoices
W == INSTANCE WaveBufs WITH RingSize <- WaveRing, Null <- NoBuf, count <- wcount
C == INSTANCE Utf WITH from <- source, to <- target, in <- input, len <- room, pos <- upos,
                       rc <- urc, out <- output, result <- uresult

ASSUME DevicesAssumption ==
  /\ S!ServicesAssumption /\ D!DisplayAssumption /\ F!NvFenceAssumption
  /\ U!UsbCommsAssumption /\ M!MemoryAssumption /\ PG!PongAssumption /\ H!HidAssumption
  /\ FD!FsDevAssumption /\ FF!FsFileAssumption /\ FR!FsDirAssumption
  /\ P!AudioPoolsAssumption /\ V!AudioVoicesAssumption /\ W!WaveBufsAssumption
  /\ C!UtfAssumption

-----------------------------------------------------------------------------
sVars == <<hosver, appletType, nso, program, scount, active, orphans, exitFlag,
           stack, users, ready, surplus, over>>
dVars == <<nw, queue, live, dtorn, fatal>>
fVars == <<mask, registered, signalled, armed, reached, fpc, cur, slot, rc, late>>
uVars == <<ds, initialized, intf, gLock, lock, dirLock, upc, at, want, dir, attempt, configured,
           crashed>>
mVars == <<cursor, mapCursor, maps, slice, handle, src, heap, made, exec, mtorn>>
pgVars == <<ballX, direction, score, hit>>
hVars == <<fed, entered, published, scan, stamp, kept, trail, keys, autoID, layout, enabled, stale,
           seen>>
fdVars == <<fsReady, devices, default, cwd, devoptab, open>>
ffVars == <<exists, content, file, call, writes>>
frVars == <<directory, delivered>>
pVars == <<pools, mixes, sinks, poolState, mixBuffers, buffersOf, attached, given>>
vVars == <<link, prevNext, used, channels, firstFree, nextFree, freeCount, order>>
wVars == <<state, next, first, waiting, last, ring, sent, head, wcount, consumed, isNew, renderer>>
cVars == <<source, target, input, room, chars, upos, urc, output, uresult>>

vars == <<object, sVars, dVars, fVars, uVars, mVars, pgVars, hVars, fdVars, ffVars, frVars,
          pVars, vVars, wVars, cVars>>

(* Where the initial state is a choice, one value for those not exercised. *)
(* applet and apm open the same sessions on all versions.                  *)
Init ==
  /\ object \in {"services", "display", "fence", "usb", "memory", "pong", "hid",
                "fsdev", "fsfile", "fsdir", "pools", "voices", "wavebufs", "utf", "none"}
  /\ D!Init /\ F!Init /\ U!Init /\ M!Init /\ PG!Init /\ H!Init /\ FD!Init /\ FF!Init /\ FR!Init
  /\ P!Init /\ V!Init /\ W!Init
  /\ object # "hid" => fed = {"mouse"}
  /\ object # "fsfile" => ~exists
  /\ object # "pools" => mixBuffers = 0
  /\ IF object = "utf" THEN C!Init
     ELSE /\ source = 8 /\ target = 32 /\ input = <<>> /\ room = 0 /\ chars = <<>>
          /\ upos = 1 /\ urc = 0 /\ output = <<>> /\ uresult = 0
  /\ IF object = "services" THEN S!Init /\ ("applet" \in program => hosver = 5)
     ELSE /\ hosver = 1 /\ program = {} /\ appletType = "None" /\ nso = FALSE
          /\ scount = <<>> /\ active = {} /\ orphans = {} /\ exitFlag = FALSE /\ stack = <<>>
          /\ users = <<>> /\ ready = {} /\ surplus = <<>> /\ over = FALSE

Step ==
  \/ object = "services" /\ S!Next
  \/ object = "display" /\ D!Next
  \/ object = "fence" /\ F!Next
  \/ object = "usb" /\ U!Next
  \/ object = "memory" /\ M!Next
  \/ object = "pong" /\ PG!Next
  \/ object = "hid" /\ H!Next
  \/ object = "fsdev" /\ FD!Next
  \/ object = "fsfile" /\ FF!Next
  \/ object = "fsdir" /\ FR!Next
  \/ object = "pools" /\ P!Next
  \/ object = "voices" /\ V!Next
  \/ object = "wavebufs" /\ W!Next
  \/ object = "utf" /\ C!Next

Next ==
  /\ Step
  /\ UNCHANGED object
  /\ object # "services" => UNCHANGED sVars
  /\ object # "display" => UNCHANGED dVars
  /\ object # "fence" => UNCHANGED fVars
  /\ object # "usb" => UNCHANGED uVars
  /\ object # "memory" => UNCHANGED mVars
  /\ object # "pong" => UNCHANGED pgVars
  /\ object # "hid" => UNCHANGED hVars
  /\ object # "fsdev" => UNCHANGED fdVars
  /\ object # "fsfile" => UNCHANGED ffVars
  /\ object # "fsdir" => UNCHANGED frVars
  /\ object # "pools" => UNCHANGED pVars
  /\ object # "voices" => UNCHANGED vVars
  /\ object # "wavebufs" => UNCHANGED wVars
  /\ object # "utf" => UNCHANGED cVars

Spec == Init /\ [][Next]_vars

-----------------------------------------------------------------------------
(* What the modules state of their objects. *)
TypeOK ==
  CASE object = "services" -> S!TypeOK
    [] object = "display" -> D!TypeOK
    [] object = "fence" -> F!TypeOK
    [] object = "usb" -> U!TypeOK
    [] object = "memory" -> M!TypeOK
    [] object = "pong" -> PG!TypeOK
    [] object = "hid" -> H!TypeOK
    [] object = "fsdev" -> FD!TypeOK
    [] object = "fsfile" -> FF!TypeOK
    [] object = "fsdir" -> FR!TypeOK
    [] object = "pools" -> P!TypeOK
    [] object = "voices" -> V!TypeOK
    [] object = "wavebufs" -> W!TypeOK
    [] object = "utf" -> C!TypeOK
    [] object = "none" -> TRUE

SessionsMatchUsers == object = "services" => S!SessionsMatchUsers
WindowMatchesQueue == D!WindowMatchesQueue
OwnFence == F!OwnFence
TransferKeepsBuffer == U!TransferKeepsBuffer
HalfDoneIsLocked == U!HalfDoneIsLocked
MappingsAgree == M!MappingsAgree
Returned == PG!Returned /\ PG!OutOfReach
InputFresh == object = "hid" => H!NewestKept /\ H!SamplesInOrder
MountsConsistent == FD!MountsConsistent
FilesExact == FF!TransferExact /\ FR!EntriesInOrder
AudioListsSound ==
  /\ object = "pools" => P!HandedOutOnce /\ P!MappedIsGiven
  /\ object = "voices" => V!VoicesAndChannels
  /\ object = "wavebufs" => W!RingIsListHead /\ W!PlayedOnce
ConversionsExact == object = "utf" => C!ConversionsExact
ReservedIsFree == M!ReservedIsFree
=============================================================================
