------------------------------ MODULE Services ------------------------------
(***************************************************************************)
(* Sessions with system services (source/services, source/nvidia): how a   *)
(* pair xInitialize / xExit counts its users, opens its objects one after  *)
(* the other and undoes a failure.  Every pair is a recipe, a record that  *)
(* says which of the few patterns of the code it follows; the actions      *)
(* carry recipes out one call at a time, nested calls included.  Calls do  *)
(* not overlap here: the code takes no lock, and programs make these calls *)
(* from one thread.                                                        *)
(*                                                                         *)
(* A recipe R:                                                             *)
(*   guard  when Initialize has nothing left to do: "any" or "all" of the  *)
(*          variables in R.over are active, or the "count" was positive    *)
(*   busy   what it answers then                                           *)
(*   steps  what it does otherwise, each step able to fail                 *)
(*   from   the first step whose failure is undone,                        *)
(*   undo   and how: "none", "close" what was opened, call Exit ("exit"),  *)
(*          take back the count ("uncount"), end the process ("fatal")     *)
(*   temps  sessions needed only during Initialize                         *)
(*   exits  the Exit functions that Exit calls                             *)
(***************************************************************************)
EXTENDS Integers, Sequences, FiniteSets

CONSTANTS
  Programs,     \* sets of services: what a program calls on its own account
  MaxUses,      \* bound: users of a service at a time
  MaxCount,     \* bound: how far a count may rise, failures included
  Wrap,         \* the counts are u64; here numbers modulo Wrap
  HosVersions,  \* system versions, by their first number
  AppletTypes   \* values of __nx_applet_type

ServicesAssumption ==
  /\ MaxUses \in Nat /\ MaxCount \in Nat /\ Wrap \in Nat /\ Wrap > 2 * MaxCount + 1
  /\ HosVersions \subseteq Nat
  /\ AppletTypes \subseteq {"None", "Application", "LibraryApplet", "SystemApplet"}

VARIABLES
  hosver, appletType, nso,  \* the environment, fixed
  program,   \* the services this program calls
  count,     \* g_refCnt of every service
  active,    \* the variables that hold an open object
  orphans,   \* open objects whose variable was overwritten
  exitFlag,  \* g_appletExitProcessFlag
  stack,     \* the calls in progress, innermost first
  users,     \* history: successful calls of Initialize not yet undone
  ready,     \* history: services all of whose steps were done
  surplus,   \* history: by how much the count of a service is wrong: calls
             \* that raised it and did not succeed, less Exits nobody owed
  over       \* the process has ended

vars == <<hosver, appletType, nso, program, count, active, orphans, exitFlag,
          stack, users, ready, surplus, over>>
env == <<hosver, appletType, nso, program>>

-----------------------------------------------------------------------------
(* The patterns. *)
Open(x) == [do |-> "open", of |-> x]
Use(s) == [do |-> "init", of |-> s]
Probe(s) == [do |-> "probe", of |-> s]  \* initialise, ask, exit; may fail
Ask == [do |-> "ask", of |-> ""]        \* commands that open nothing
Refuse == [do |-> "refuse", of |-> ""]  \* the system version is too old
When(b, steps) == IF b THEN steps ELSE <<>>

Counted(x, steps, from, undo) ==
  [guard |-> "any", over |-> {x}, busy |-> "ok", counted |-> TRUE, steps |-> steps,
   from |-> from, undo |-> undo, temps |-> {}, exits |-> <<>>]
Uncounted(x, steps, from, undo) ==
  [Counted(x, steps, from, undo) EXCEPT !.counted = FALSE, !.busy = "error"]

OneSession(x) == Counted(x, <<Open(x)>>, 1, "none")   \* a failure is not undone
OneSessionUndone(x) == Counted(x, <<Open(x)>>, 1, "exit")

-----------------------------------------------------------------------------
(* One session, failure not undone: the count stays one too high. *)
acc == OneSession("acc:u1")   \* or acc:u0
pmdmnt == OneSession("pm:dmnt")
pminfo == OneSession("pm:info")
pmshell == OneSession("pm:shell")
nsdev == OneSession("ns:dev")
ldrShell == OneSession("ldr:shel")
ldrDmnt == OneSession("ldr:dmnt")
ldrPm == OneSession("ldr:pm")
bpc == OneSession("bpc")
set == OneSession("set")
setsys == [OneSession("set:sys") EXCEPT !.busy = "error"]
smManager == OneSession("sm:m")
ncm == OneSession("ncm")
csrng == OneSession("csrng")
lr == OneSession("lr")
hidsys == OneSession("hid:sys")
spl == OneSession("spl:")
splManu == OneSession("spl:manu")
splCrypto == OneSession("spl:mig")    \* before 4.0.0 these four are spl
splSsl == OneSession("spl:ssl")
splEs == OneSession("spl:es")
splFs == OneSession("spl:fs")
roDmnt == OneSession("ro:dmnt")
nsvm == OneSession("ns:vm")

(* Before 3.0.0 nsvm succeeds and roDmnt fails, both without counting, and *)
(* nsvmExit does nothing.                                                  *)
Early(s) ==
  CASE s = "nsvm" /\ hosver < 3 -> "ok"
    [] s = "roDmnt" /\ hosver < 3 -> "error"
    [] OTHER -> "no"

(* The service that stands in for s on this version. *)
Alias(s) == IF s \in {"splCrypto", "splSsl", "splEs", "splFs"} /\ hosver < 4
            THEN "spl" ELSE s

(* Several steps, failure not undone. *)
fs == Counted("fsp-srv", <<Open("fsp-srv"), Ask, Ask>>, 1, "none")
fsldr == Counted("fsp-ldr", <<Open("fsp-ldr"), Ask>> \o When(hosver >= 4, <<Ask>>), 1, "none")
ldrRo == Counted("ldr:ro", <<Open("ldr:ro"), Ask>>, 1, "none")
ns ==
  [Counted("ns:am2", IF hosver < 3 THEN <<Open("ns:am")>>
                     ELSE <<Open("ns:am2"), Open("ns:am")>>, 1, "close")
     EXCEPT !.over = {"ns:am2", "ns:am"}]

(* A failure calls Exit. *)
i2c == Counted("i2c", <<Open("i2c"), Ask>>, 1, "exit")
auddev ==
  [Counted("IAudioDevice", <<Open("audren:u"), Open("IAudioDevice"), Ask>>, 1, "exit")
     EXCEPT !.temps = {"audren:u"}]
pl == Counted("pl:u", <<Open("pl:u"), Open("plSharedmem"), Ask>>, 1, "exit")
gpio == OneSessionUndone("gpio")
BadNifm == Counted("nifm", <<Open("nifm"), Ask, Open("nifmIGS")>>, 1, "none")  \* mutant
nifm == Counted("nifm", <<Open("nifm"), Ask, Open("nifmIGS")>>, 1, "exit")
wlaninf == OneSessionUndone("wlan:inf")
lbl == OneSessionUndone("lbl")
psc == Counted("psc:m", <<Open("psc:m"), Ask>>, 1, "exit")
audin == Counted("audin:u", <<Open("audin:u"), Open("IAudioIn"), Open("audinEvent")>>, 1, "exit")
audout == Counted("audout:u", <<Open("audout:u"), Open("IAudioOut"), Open("audoutEvent")>>, 1, "exit")
pcv == OneSessionUndone("pcv")
capssu == Counted("caps:su", When(hosver < 4, <<Refuse>>) \o <<Open("caps:su")>>, 1, "exit")
capssc == Counted("caps:sc", When(hosver < 2, <<Refuse>>) \o <<Open("caps:sc")>>, 1, "exit")
psm == OneSessionUndone("psm")
spsm == OneSessionUndone("spsm")
apm == Counted("apm", <<Open("apm"), Open("apmISession")>>, 1, "exit")  \* apm:p, or apm
nv == Counted("nvdrv", <<Open("nvdrv"), Ask, Open("nvTransfermem"), Ask, Open("nvClone"), Ask>>, 1, "exit")
nfpu ==
  [Counted("nfp", <<Open("nfp:user"), Ask, Open("nfpInterface"), Ask,
                    Open("nfc:user"), Ask, Open("nfcInterface"), Ask>>, 1, "exit")
     EXCEPT !.guard = "all", !.over = {"nfpInterface", "nfcInterface"}]
sm == Counted("sm:", <<Open("sm:"), Ask>>, 1, "exit")

(* A failure calls Exit, but not that of the first step, whose count stays. *)
hid == Counted("hid", <<Open("hid"), Open("IAppletResource"), Open("hidSharedmem"), Ask, Ask>>, 2, "exit")
irs == Counted("irs", <<Open("irs"), Open("irsSharedmem"), Ask>>, 2, "exit")
time == Counted("time", <<Open("time"), Open("userClock"), Open("networkClock"),
                          Open("timeZone"), Open("localClock")>>, 2, "exit")
fspr == Counted("fsp-pr", <<Open("fsp-pr")>> \o When(hosver >= 4, <<Ask>>), 2, "exit")

(* The count itself says whether there is something to do. *)
nvGpu == [Counted("ctrlGpu", <<Open("ctrlGpu"), Ask, Ask>>, 1, "exit") EXCEPT !.guard = "count"]
nvMap == [Counted("nvmap", <<Open("nvmap")>>, 1, "uncount") EXCEPT !.guard = "count"]
nvFence == [Counted("nvCtrl", <<Open("nvCtrl")>>, 1, "none") EXCEPT !.guard = "count"]

(* Not counted: the second Initialize is an error, Exit closes. *)
usbDs == Uncounted("usb:ds", <<Open("usb:ds"), Ask, Ask, Ask, Open("dsStateEvent")>>, 1, "close")
usbHs == Uncounted("usb:hs", <<Open("usb:hs"), Ask>> \o When(hosver >= 2, <<Ask>>)
                                 \o <<Open("hsStateEvent")>>, 1, "close")
bsd ==
  [Uncounted("bsd", <<Open("bsd"), Ask, Open("bsdMonitor"), Open("bsdTmem"), Ask, Ask>>, 1, "exit")
     EXCEPT !.over = {"bsd", "bsdMonitor"}]
audren ==
  [Uncounted("IAudioRenderer", <<Open("audren:u"), Ask, Open("audrenWorkBuf"),
                                 Open("IAudioRenderer"), Open("audrenEvent")>>, 1, "close")
     EXCEPT !.temps = {"audren:u"}]
vi ==
  [Uncounted("IDisplay", <<Open("vi:m"), Open("IDisplay"), Open("IRelay"), Open("ISystemDisplay"),
                           Open("IManagerDisplay")>> \o When(hosver >= 2, <<Open("IIndirect")>>), 1, "exit")
     EXCEPT !.temps = {"vi:m"}]
hwopus ==
  [Uncounted("decoder", <<Open("hwopusMgr"), Ask, Open("hwopusTmem"), Open("decoder")>>, 1, "close")
     EXCEPT !.temps = {"hwopusMgr"}, !.busy = "ok"]

(* Services that use others. *)
socket ==
  [Uncounted("soc:", <<Use("nifm"), Use("bsd"), Open("soc:")>>, 2, "exit")
     EXCEPT !.exits = <<"bsd", "nifm">>]
applet ==
  [Counted("appletSrv",
     <<Use("apm"), Open("appletSrv"), Ask, Open("proxy")>>
       \o When(appletType # "LibraryApplet", <<Open("IFunctions")>>)
       \o When(appletType = "SystemApplet", <<Open("IGlobalState"), Open("IApplicationCreator")>>)
       \o When(appletType = "LibraryApplet", <<Open("ISelfAccessor"), Open("IWinding")>>)
       \o <<Open("ILibraryAppletCreator"), Open("ICommonState"), Open("ISelf"), Open("IWindow"), Ask,
            Open("IAudio"), Open("IDisplayController"), Open("IDebug"), Open("messageEvent"), Ask>>,
     2, "exit")
     EXCEPT !.exits = <<"apm">>]
__nx_win ==
  [Uncounted("none", <<Use("vi"), Open("display"), Open("layer"), Ask, Open("window")>>, 1, "fatal")
     EXCEPT !.exits = <<"vi">>]
__app ==
  [Uncounted("none", <<Use("sm"), Probe("setsys"), Use("applet")>> \o When(appletType # "None", <<Use("hid")>>)
                        \o <<Use("time"), Use("fs"), Use("__nx_win")>>, 1, "fatal")
     EXCEPT !.exits = <<"__nx_win", "fs", "time", "hid", "applet", "sm">>]

Recipe(s) ==
  CASE s = "acc" -> acc [] s = "pmdmnt" -> pmdmnt [] s = "pminfo" -> pminfo
    [] s = "pmshell" -> pmshell [] s = "nsdev" -> nsdev [] s = "ldrShell" -> ldrShell
    [] s = "ldrDmnt" -> ldrDmnt [] s = "ldrPm" -> ldrPm [] s = "bpc" -> bpc
    [] s = "set" -> set [] s = "setsys" -> setsys [] s = "smManager" -> smManager
    [] s = "ncm" -> ncm [] s = "csrng" -> csrng [] s = "lr" -> lr [] s = "hidsys" -> hidsys
    [] s = "spl" -> spl [] s = "splManu" -> splManu [] s = "splCrypto" -> splCrypto
    [] s = "splSsl" -> splSsl [] s = "splEs" -> splEs [] s = "splFs" -> splFs
    [] s = "roDmnt" -> roDmnt [] s = "nsvm" -> nsvm [] s = "fs" -> fs [] s = "fsldr" -> fsldr
    [] s = "ldrRo" -> ldrRo [] s = "ns" -> ns [] s = "i2c" -> i2c [] s = "auddev" -> auddev
    [] s = "pl" -> pl [] s = "gpio" -> gpio [] s = "nifm" -> nifm [] s = "wlaninf" -> wlaninf
    [] s = "lbl" -> lbl [] s = "psc" -> psc [] s = "audin" -> audin [] s = "audout" -> audout
    [] s = "pcv" -> pcv [] s = "capssu" -> capssu [] s = "capssc" -> capssc [] s = "psm" -> psm
    [] s = "spsm" -> spsm [] s = "apm" -> apm [] s = "nv" -> nv [] s = "nfpu" -> nfpu
    [] s = "sm" -> sm [] s = "hid" -> hid [] s = "irs" -> irs [] s = "time" -> time
    [] s = "fspr" -> fspr [] s = "nvGpu" -> nvGpu [] s = "nvMap" -> nvMap
    [] s = "nvFence" -> nvFence [] s = "usbDs" -> usbDs [] s = "usbHs" -> usbHs
    [] s = "bsd" -> bsd [] s = "audren" -> audren [] s = "vi" -> vi [] s = "hwopus" -> hwopus
    [] s = "socket" -> socket [] s = "applet" -> applet [] s = "__nx_win" -> __nx_win
    [] s = "__app" -> __app

-----------------------------------------------------------------------------
(* The variables a service keeps open, and the services it keeps in use. *)
Slots(s) ==
  LET R == Recipe(s)
  IN  {R.steps[i].of : i \in {j \in DOMAIN R.steps : R.steps[j].do = "open"}} \ R.temps

Uses(s) ==
  LET R == Recipe(s)
  IN  {R.steps[i].of : i \in {j \in DOMAIN R.steps : R.steps[j].do = "init"}}

Needs(s) == {s} \cup Uses(s) \cup UNION {Uses(u) : u \in Uses(s)}

Init ==
  /\ hosver \in HosVersions /\ program \in Programs
  /\ IF program \cap {"applet", "__app"} = {}
     THEN appletType = "Application" /\ nso = FALSE
     ELSE appletType \in AppletTypes /\ nso \in BOOLEAN
  /\ count = [s \in UNION {Needs(Alias(p)) : p \in program}
                 \cup (IF "__app" \in program THEN {"setsys", "hid"} ELSE {}) |-> 0]
  /\ active = {} /\ orphans = {} /\ exitFlag = FALSE /\ stack = <<>>
  /\ users = [p \in program |-> 0] /\ ready = {} /\ over = FALSE
  /\ surplus = [s \in DOMAIN count |-> 0]

(* A call in progress: pc is the next step, rc what it will answer, by the *)
(* service the program named, if this is its own call.                     *)
Frame(s, op, by) == [svc |-> s, op |-> op, pc |-> 0, rc |-> "ok", by |-> by]
Top == stack[1]
R == Recipe(Top.svc)
Step == R.steps[Top.pc]
Running(op) == stack # <<>> /\ Top.op = op
Goto(pc) == stack' = <<[Top EXCEPT !.pc = pc]>> \o Tail(stack)
Push(frame) == stack' = <<frame>> \o stack

(* Mutant: the counts do not wrap. *)
BadCount(s, d) == count' = [count EXCEPT ![s] = @ + d]

Count(s, d) == count' = [count EXCEPT ![s] = (@ + Wrap + d) % Wrap]

(* The innermost call answers rc.  Its caller is an Exit, which goes on, an *)
(* Initialize, which goes on or has failed, or the program.                 *)
Return(rc) ==
  LET rest == Tail(stack)
      caller == rest[1]
      probing == caller.op = "init" /\ Recipe(caller.svc).steps[caller.pc].do = "probe"
      next == IF caller.op = "exit" \/ probing \/ rc = "ok"
              THEN [caller EXCEPT !.pc = @ + 1] ELSE [caller EXCEPT !.rc = "error"]
  IN  IF rest = <<>>
      THEN /\ stack' = <<>>
           /\ users' = IF Top.op = "init" /\ rc = "ok"
                       THEN [users EXCEPT ![Top.by] = @ + 1] ELSE users
      ELSE /\ stack' = (IF probing /\ Top.op = "init" /\ rc = "ok"
                        THEN <<Frame(Top.svc, "exit", ""), caller>> ELSE <<next>>) \o Tail(rest)
           /\ UNCHANGED users

-----------------------------------------------------------------------------
(* The program calls Initialize, or Exit once for every success. *)
CallInitialize(p) ==
  /\ stack = <<>> /\ ~over /\ users[p] < MaxUses
  /\ \A s \in DOMAIN count : count[s] \notin MaxCount..2 * MaxCount
  /\ Push(Frame(Alias(p), "init", p))
  /\ UNCHANGED <<env, count, active, orphans, exitFlag, users, ready, surplus, over>>

CallExit(p) ==
  /\ stack = <<>> /\ ~over /\ users[p] > 0
  /\ users' = [users EXCEPT ![p] = IF Recipe(Alias(p)).counted THEN @ - 1 ELSE 0]
  /\ Push(Frame(Alias(p), "exit", p))
  /\ UNCHANGED <<env, count, active, orphans, exitFlag, ready, surplus, over>>

(* The service is there already, or there is none for this applet type. *)
Busy(s) ==
  LET r == Recipe(s)
  IN  \/ r.guard = "any" /\ r.over \cap active # {}
      \/ r.guard = "all" /\ r.over \subseteq active
      \/ r.guard = "count" /\ count[s] > 0
      \/ s = "applet" /\ appletType = "None"

(* Initialize up to its first step: the count is raised before anything is *)
(* looked at.                                                              *)
Enter ==
  /\ Running("init") /\ Top.pc = 0
  /\ LET s == Top.svc
         answer == IF s = "applet" THEN "ok" ELSE R.busy
     IN  \/ /\ Early(s) # "no"
            /\ Return(Early(s)) /\ UNCHANGED <<count, surplus>>
         \/ /\ Early(s) = "no"
            /\ IF R.counted THEN Count(s, 1) ELSE UNCHANGED count
            /\ IF Busy(s) THEN Return(answer) ELSE Goto(1) /\ UNCHANGED users
            /\ surplus' = IF Busy(s) /\ R.counted /\ answer = "error"
                          THEN [surplus EXCEPT ![s] = @ + 1] ELSE surplus
  /\ UNCHANGED <<env, active, orphans, exitFlag, ready, over>>

AtStep(kinds) ==
  Running("init") /\ Top.rc = "ok" /\ Top.pc \in DOMAIN R.steps /\ Step.do \in kinds

(* appletInitialize clears the flag between its first two steps. *)
FlagAtStep == exitFlag' = (exitFlag /\ ~(Top.svc = "applet" /\ Top.pc = 2))

StepSucceeds ==
  /\ AtStep({"open", "ask"})
  /\ active' = active \cup (IF Step.do = "open" THEN {Step.of} ELSE {})
  /\ orphans' = orphans \cup (IF Step.do = "open" THEN {Step.of} \cap active ELSE {})
  /\ Goto(Top.pc + 1) /\ FlagAtStep
  /\ UNCHANGED <<env, count, users, ready, surplus, over>>

StepFails ==
  /\ AtStep({"open", "ask", "refuse"})
  /\ stack' = <<[Top EXCEPT !.rc = "error"]>> \o Tail(stack) /\ FlagAtStep
  /\ UNCHANGED <<env, count, active, orphans, users, ready, surplus, over>>

StepCalls ==
  /\ AtStep({"init", "probe"})
  /\ Push(Frame(Step.of, "init", ""))
  /\ UNCHANGED <<env, count, active, orphans, exitFlag, users, ready, surplus, over>>

(* All steps are done. *)
Complete ==
  /\ Running("init") /\ Top.rc = "ok" /\ Top.pc = Len(R.steps) + 1
  /\ active' = active \ R.temps
  /\ ready' = ready \cup {Top.svc}
  /\ Return("ok")
  /\ UNCHANGED <<env, count, orphans, exitFlag, surplus, over>>

(* How the failure of the step that Initialize is at is undone. *)
Cure == IF Top.pc < R.from THEN "none" ELSE R.undo

(* A step failed.  The count stays one too high where nothing takes it back. *)
Undo ==
  /\ Running("init") /\ Top.rc = "error"
  /\ LET how == Cure
     IN  CASE how = "none" ->
                active' = active \ R.temps /\ Return("error") /\ UNCHANGED <<count, over>>
           [] how = "close" ->
                /\ active' = active \ (R.temps \cup Slots(Top.svc))
                /\ Return("error") /\ UNCHANGED <<count, over>>
           [] how = "uncount" ->
                /\ active' = active \ R.temps /\ Count(Top.svc, Wrap - 1)
                /\ Return("error") /\ UNCHANGED over
           [] how = "exit" ->
                /\ active' = active \ R.temps
                /\ stack' = <<[Top EXCEPT !.op = "exit", !.pc = 0]>> \o Tail(stack)
                /\ UNCHANGED <<count, users, over>>
           [] how = "fatal" ->
                /\ active' = {} /\ stack' = <<>> /\ over' = TRUE
                /\ UNCHANGED <<count, users>>
  /\ exitFlag' = (exitFlag /\ ~over')
  /\ surplus' = IF R.counted /\ Cure \in {"none", "close"}
                THEN [surplus EXCEPT ![Top.svc] = @ + 1] ELSE surplus
  /\ UNCHANGED <<env, orphans, ready>>

-----------------------------------------------------------------------------
(* Under a loader of NSOs the last appletExit of an application or library *)
(* applet only arranges for another one at the end of the process.         *)
Deferred == nso /\ appletType \in {"Application", "LibraryApplet"} /\ ~exitFlag

Leave ==
  /\ Running("exit") /\ Top.pc = 0
  /\ LET s == Top.svc
         last == ~R.counted \/ count[s] = 1
     IN  \/ /\ Early(s) # "no"
            /\ Return(Top.rc) /\ UNCHANGED <<count, active, ready, surplus, exitFlag>>
         \/ /\ last /\ s = "applet" /\ Deferred
            /\ exitFlag' = TRUE /\ surplus' = [surplus EXCEPT ![s] = @ + 1]
            /\ Return(Top.rc) /\ UNCHANGED <<count, active, ready>>
         \/ /\ Early(s) = "no" /\ ~(last /\ s = "applet" /\ Deferred)
            /\ IF R.counted THEN Count(s, Wrap - 1) ELSE UNCHANGED count
            /\ IF last
               THEN active' = active \ Slots(s) /\ ready' = ready \ {s} /\ Goto(1) /\ UNCHANGED users
               ELSE Return(Top.rc) /\ UNCHANGED <<active, ready>>
            /\ UNCHANGED <<surplus, exitFlag>>
  /\ UNCHANGED <<env, orphans, over>>

(* The services that Initialize of s calls: appletInitialize has nothing to *)
(* do when the type is None.                                               *)
Used(s) == IF s = "applet" /\ appletType = "None" THEN {} ELSE Uses(s)

(* Exit calls the Exit of each all the same, and a count too many goes down. *)
LeaveOthers ==
  /\ Running("exit") /\ Top.pc \in DOMAIN R.exits
  /\ Push(Frame(R.exits[Top.pc], "exit", ""))
  /\ surplus' = IF R.exits[Top.pc] \in Used(Top.svc) THEN surplus
                ELSE [surplus EXCEPT ![R.exits[Top.pc]] = @ - 1]
  /\ UNCHANGED <<env, count, active, orphans, exitFlag, users, ready, over>>

Left ==
  /\ Running("exit") /\ Top.pc = Len(R.exits) + 1
  /\ Return(Top.rc)
  /\ over' = (over \/ Top.svc = "__app")   \* __libnx_exit ends the process
  /\ UNCHANGED <<env, count, active, orphans, exitFlag, ready, surplus>>

(* The function appletExit left with the loader: the second appletExit, and *)
(* the end of the process.                                                  *)
ExitProcess ==
  /\ stack = <<>> /\ exitFlag /\ count["applet"] = 1
  /\ Push(Frame("applet", "exit", "")) /\ over' = TRUE
  /\ surplus' = [surplus EXCEPT !["applet"] = @ - 1]
  /\ UNCHANGED <<env, count, active, orphans, exitFlag, users, ready>>

Next ==
  \/ \E p \in program : CallInitialize(p) \/ CallExit(p)
  \/ Enter \/ StepSucceeds \/ StepFails \/ StepCalls \/ Complete \/ Undo
  \/ Leave \/ LeaveOthers \/ Left \/ ExitProcess

Spec == Init /\ [][Next]_vars

-----------------------------------------------------------------------------
(* Services of which the code does not take the count back when some step  *)
(* of Initialize fails.                                                    *)
Leaky ==
  {"acc", "pmdmnt", "pminfo", "pmshell", "nsdev", "ldrShell", "ldrDmnt", "ldrPm", "bpc", "set",
   "setsys", "smManager", "ncm", "csrng", "lr", "hidsys", "spl", "splManu", "splCrypto", "splSsl",
   "splEs", "splFs", "roDmnt", "nsvm", "ns", "fs", "fsldr", "ldrRo", "hid", "irs", "time", "fspr",
   "nvFence", "applet"}

(* A failure of s that was not undone left no session behind. *)
FailsWhole(s) ==
  Recipe(s).guard = "any" /\ (Len(Recipe(s).steps) = 1 \/ Recipe(s).undo = "close")

(* Nothing has gone wrong with the count of s that the code does not mend. *)
Unharmed(s) == surplus[s] = 0 \/ (surplus[s] > 0 /\ FailsWhole(s))

(* Whoever was told that a service is initialised has all of it, the       *)
(* services it uses included, until it calls Exit: no Exit of another user *)
(* and no failure leaves it with half, unless the service itself is one of *)
(* several steps whose earlier failure was not undone.                     *)
ReadyWhileUsed ==
  \A p \in program :
    LET s == Alias(p)
        parts == IF appletType = "None" /\ s # "apm"
                 THEN Needs(s) \ {"applet", "apm"} ELSE Needs(s)
    IN  users[p] > 0 /\ Early(s) = "no" /\ ~over /\ (\A t \in Needs(s) : Unharmed(t)) =>
          \A t \in parts : t \in ready /\ Slots(t) \subseteq active

(* When nobody uses a service any more, and none of its calls is going on, *)
(* nothing it opened is open: neither in its variables nor, because a      *)
(* variable was overwritten, lost.  What stays open belongs to a service   *)
(* whose count is wrong, or to one that it uses.                           *)
ClosedWhenUnused ==
  /\ orphans = {}
  /\ (\A p \in program : users[p] = 0) /\ stack = <<>> =>
       active \subseteq
         UNION {UNION {Slots(t) : t \in Needs(s)} :
                s \in {u \in DOMAIN count : surplus[u] # 0}}

(* Uses of s by the program, under every name it has for s, and by services. *)
Calls(s) ==
  {call \in program \X (1..MaxUses) :
     Alias(call[1]) = s /\ Early(s) = "no" /\ call[2] <= users[call[1]]}
UsersOf(s) == {u \in ready : s \in Used(u)}

(* Between two calls a count is that of the program's uses and of those of *)
(* other services, but for its surplus.  Above zero this is one for each   *)
(* failed Initialize of the services that do not take their count back,    *)
(* and for an applet whose exit was deferred to the end of its process; a  *)
(* failure of any other service leaves nothing behind.  Below zero it is   *)
(* only with the applet type None, where Exits call one that Initialize    *)
(* did not.                                                                *)
CountsAccounted ==
  stack = <<>> /\ ~over =>
    \A s \in DOMAIN count :
      /\ surplus[s] > 0 => s \in Leaky
      /\ surplus[s] < 0 => appletType = "None"
      /\ Recipe(s).counted /\ (\A u \in DOMAIN count : s \in Uses(u) => surplus[u] = 0) =>
           count[s] = (Cardinality(Calls(s)) + Cardinality(UsersOf(s)) + surplus[s] + Wrap) % Wrap

TypeOK ==
  /\ count \in [DOMAIN count -> 0..Wrap - 1]
  /\ users \in [program -> 0..MaxUses]
  /\ ready \subseteq DOMAIN count
  /\ surplus \in [DOMAIN count -> -Wrap..Wrap]

(* Sessions are there for as long as somebody uses their service, and a    *)
(* failure leaves what is said here and nothing else.                      *)
SessionsMatchUsers == ReadyWhileUsed /\ ClosedWhenUnused /\ CountsAccounted
=============================================================================
