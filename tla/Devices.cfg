SPECIFICATION AllSpec
CONSTANTS
  t1 = t1
  t2 = t2
  t3 = t3
  fb1 = fb1
  fb2 = fb2
  wb1 = wb1
  wb2 = wb2
  wb3 = wb3
  NoBuf = NoBuf
  NoThread = NoThread
  Programs <- MC_Programs
  MaxUses = 2
  MaxCount = 4
  Wrap = 16
  HosVersions = {1, 3, 5}
  AppletTypes = {"None", "Application", "LibraryApplet", "SystemApplet"}
  Framebuffers = {fb1, fb2}
  WindowSlots = 2
  Sizes = {1, 2}
  DefaultSize = 2
  Margins = {0, 1}
  Threads = {t1, t2, t3}
  EventSlots = 3
  NumFindable = 2
  Controllers = {t1}
  Users = {t2, t3}
  NumInterfaces = 2
  Start = 2
  End = 13
  Regions <- MC_Regions
  Program = {2}
  Tmems = {"t"}
  Shmems = {"s"}
  CodeJits = {"j"}
  JitJits = {"k"}
  Thrds = {"h"}
  Size <- MC_Size
  SCREEN_W = 1280
  GAME_X = 200
  GAME_W = 880
  PLAYER_OFF = 50
  PLAYER_W = 8
  BALL_SPEED = 8
  BALL_SIZE = 6
  MaxScore = 2
  RingSize = 3
  Layouts = {"default", "left"}
  Default = "default"
  MaxTime <- MC_MaxTime
  Feeds <- MC_Feeds
  Marks <- MC_Marks
  Names <- MC_Names
  Sdmc <- MC_Sdmc
  Sessions = {t1, t2, t3}
  NumDevices = 3
  Lengths = {1, 3}
  Piece = 2
  MaxSize = 2
  MaxWrites = 2
  Listing <- MC_Listing
  Batch = 2
  NumPools = 2
  NumMixes = 3
  NumSinks = 2
  MaxMixBuffers = 3
  NumVoices = 3
  MaxChannels = 2
  Bufs = {wb1, wb2, wb3}
  WaveRing = 2
  MaxConsumed = 4
  CodePoints <- MC_CodePoints
  Strings <- MC_Strings
  Fragments <- MC_Fragments
  MaxLen = 5
INVARIANTS
  TypeOK
  SessionsMatchUsers
  WindowMatchesQueue
  OwnFence
  TransferKeepsBuffer
  HalfDoneIsLocked
  MappingsAgree
  Returned
  InputFresh
  AudioListsSound
  ConversionsExact
  RequestUnderstood
  PatchesExact
  MountsConsistent
  FilesExact
  ImageRead
\* A program ends by a fatal error or its last exit, a conversion and the
\* patcher come to an end.
CHECK_DEADLOCK FALSE
