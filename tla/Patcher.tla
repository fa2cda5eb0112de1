------------------------------ MODULE Patcher ------------------------------
(***************************************************************************)
(* Sp2Patcher: the program that puts the custom module into the game's     *)
(* ExeFS and redirects functions of the game to it.  It lays the modules   *)
(* out in one address space of its own (ExeFS.cs), applies the patches of  *)
(* the configuration in that space (PatchConfig.cs, Utils.cs), and writes  *)
(* the modules out.  The branches it writes are relative, so they only     *)
(* work if the console's loader comes to the same layout, and the module   *)
(* finds the game's functions by counting modules (ProcessMemory.cpp).     *)
(*                                                                         *)
(* Bytes are modelled by where they come from: byte at of patch number     *)
(* patch, or, if patch is 0, of the module's own file; imm is the          *)
(* immediate of the branch that the byte is part of.                       *)
(***************************************************************************)
EXTENDS Integers, Sequences, FiniteSets, FiniteSetsExt

CONSTANTS
  PageSize,   (* 0x1000                                                    *)
  Dirs,       (* the input directories: functions from slots to modules    *)
  Custom,     (* the custom module                                         *)
  Symbols,    (* the listing file: offset of every symbol in Custom        *)
  Configs,    (* the configurations: sequences of patches                  *)
  Null,       (* no module                                                 *)
  ModObjSize, (* 0x100                                                     *)
  MaxLabel,   (* 0x7FFFFFC, the furthest forward branch                    *)
  UIntRange   (* 2^32                                                      *)

VARIABLES
  phase,      (* which part of Main runs                                   *)
  nsos,       (* ExeFS.Nsos                                                *)
  custom,     (* the custom module until AddSdk                            *)
  config,     (* the patches GetHooks returned                             *)
  done,       (* how many of them have been applied                        *)
  outdir      (* the slots whose files have been written                   *)

vars == <<phase, nsos, custom, config, done, outdir>>

-----------------------------------------------------------------------------
(* NsoTypeEnum: the slots that matter, of rtld = 0 to sdk = 12. *)
rtld == 0
main == 1
subsdk0 == 2
sdk == 12
MAX_NSO_COUNT == 13
Slots == 0 .. MAX_NSO_COUNT - 1

Align(n) == ((n + PageSize - 1) \div PageSize) * PageSize

(* A module: its three segments (address and decompressed size), bss, the  *)
(* bytes of the segments by address, and what the MOD0 header says of the  *)
(* end of bss and of the module object.                                    *)
Original(a) == [patch |-> 0, at |-> a, imm |-> 0]

EndAddress(nso) == nso.rwdata.addr + nso.rwdata.size + nso.bss

Present(fs) == {i \in Slots : fs[i] # Null}

SumOfEnds(fs, S) == MapThenSumSet(LAMBDA i : EndAddress(fs[i]), S)

GetNsoAddress(fs, type) == Align(SumOfEnds(fs, {i \in Present(fs) : i < type}))

(* The end of the last module before slot i, where GetMemoryMap has come.  *)
Reached(fs, i) ==
  LET before == {j \in Present(fs) : j < i} IN
  IF before = {} THEN 0 ELSE GetNsoAddress(fs, Max(before)) + EndAddress(fs[Max(before)])

(* GetMemoryMap: the pages, numbered in the order of the list. *)
GetMemoryMap(fs) ==
  UNION {LET base == GetNsoAddress(fs, i)
             text == base + fs[i].text.addr
             rodata == base + fs[i].rodata.addr
             rwdata == base + fs[i].rwdata.addr
         IN {[nr |-> 4*i,     lo |-> Reached(fs, i), hi |-> text,   readable |-> FALSE],
             [nr |-> 4*i + 1, lo |-> text,   hi |-> rodata, readable |-> TRUE],
             [nr |-> 4*i + 2, lo |-> rodata, hi |-> rwdata, readable |-> TRUE],
             [nr |-> 4*i + 3, lo |-> rwdata, hi |-> base + EndAddress(fs[i]), readable |-> TRUE]}
           : i \in Present(fs)}

GetAddressPages(fs, addr) == {p \in GetMemoryMap(fs) : addr >= p.lo /\ addr < p.hi}

GetAddressPage(fs, addr) ==
  CHOOSE p \in GetAddressPages(fs, addr) : \A q \in GetAddressPages(fs, addr) : p.nr <= q.nr

(* GetAddressNso and GetAddressNsoType: the first module at an address. *)
GetAddressNsoType(fs, addr) ==
  Min({i \in Present(fs) : /\ addr >= GetNsoAddress(fs, i) + fs[i].text.addr
                           /\ addr < GetNsoAddress(fs, i) + EndAddress(fs[i])})

(* GetAddressSegment: the segments that have bytes at an address. *)
GetAddressSegments(nso, addr) ==
  {seg \in {nso.text, nso.rodata, nso.rwdata} :
     addr >= seg.addr /\ addr < seg.addr + seg.size}

(* WriteNso does not throw: the bytes are inside one segment. *)
CanWriteNso(nso, addr, bytes) ==
  \E seg \in GetAddressSegments(nso, addr) : addr + Len(bytes) <= seg.addr + seg.size

WriteNso(nso, addr, bytes) ==
  [nso EXCEPT !.data = [a \in DOMAIN @ |-> IF a \in addr .. addr + Len(bytes) - 1
                                             THEN bytes[a - addr + 1] ELSE @[a]]]

(* WriteExeFs does not throw. *)
CanWriteExeFs(fs, addr, bytes) ==
  /\ GetAddressPages(fs, addr) # {}
  /\ GetAddressPage(fs, addr).readable =>
       LET type == GetAddressNsoType(fs, addr) IN
       CanWriteNso(fs[type], addr - GetNsoAddress(fs, type), bytes)

(* A patch outside the modules is passed over. *)
WriteExeFs(fs, addr, bytes) ==
  IF GetAddressPage(fs, addr).readable
    THEN LET type == GetAddressNsoType(fs, addr) IN
         [fs EXCEPT ![type] = WriteNso(@, addr - GetNsoAddress(fs, type), bytes)]
    ELSE fs

-----------------------------------------------------------------------------
(* A MemAddress: a symbol of the custom module, or a module and an offset. *)
IsSymbol(m) == "symbol" \in DOMAIN m

(* GetAddress does not throw. *)
Resolves(m) == IsSymbol(m) => m.symbol \in DOMAIN Symbols

(* Broken: sdk is not redirected to where AddSdk has moved it. *)
BadGetAddress(fs, m) ==
  IF IsSymbol(m) THEN GetNsoAddress(fs, sdk) + Symbols[m.symbol]
                 ELSE GetNsoAddress(fs, m.nso) + m.offset

GetAddress(fs, m) ==
  IF IsSymbol(m)
    THEN GetNsoAddress(fs, sdk) + Symbols[m.symbol]
    ELSE GetNsoAddress(fs, IF m.nso = sdk THEN subsdk0 ELSE m.nso) + m.offset

(* The difference of two addresses as the encoders get it, an unsigned int.*)
Label(from, to) == (to - from) % UIntRange

(* Armv8Encode_b and Armv8Encode_bl: the immediate, if they do not throw.  *)
CanEncode(label) == label <= MaxLabel /\ label % 4 = 0
Encode(label) == ((label - (label % 16)) \div 4) + ((label % 16) \div 4)

IsBranch(patch) == patch.type \in {"b", "bl"}

(* The number of bytes a patch writes. *)
Width(patch) == CASE IsBranch(patch) -> 4 [] patch.type = "ptr" -> 8
                  [] patch.type = "data" -> patch.len

(* The bytes of patch number k. *)
Buffer(fs, k) ==
  LET patch == config[k]
      imm == IF IsBranch(patch)
               THEN Encode(Label(GetAddress(fs, patch.address), GetAddress(fs, patch.target)))
               ELSE 0
  IN [i \in 1 .. Width(patch) |-> [patch |-> k, at |-> i, imm |-> imm]]

(* PatchEntry.Apply throws nothing. *)
CanApply(fs, k) ==
  LET patch == config[k] IN
  /\ Resolves(patch.address)
  /\ patch.type # "data" => Resolves(patch.target)
  /\ IsBranch(patch) =>
       CanEncode(Label(GetAddress(fs, patch.address), GetAddress(fs, patch.target)))
  /\ CanWriteExeFs(fs, GetAddress(fs, patch.address), Buffer(fs, k))

-----------------------------------------------------------------------------
Init ==
  /\ phase = "alloc"
  /\ nsos \in Dirs
  /\ custom = Custom
  /\ config \in Configs
  /\ done = 0
  /\ outdir = {}

(* AllocModObj: room at the end of bss for the module object, and a new    *)
(* header.                                                                 *)
AllocModObj ==
  /\ phase = "alloc"
  /\ custom' = [custom EXCEPT !.bss = @ + ModObjSize,
                              !.bssEnd = custom.rwdata.addr + custom.rwdata.size
                                           + custom.bss + ModObjSize,
                              !.modObj = custom.bssEnd]
  /\ phase' = "addsdk"
  /\ UNCHANGED <<nsos, config, done, outdir>>

(* AddSdk: the game's sdk becomes subsdk0, the custom module becomes sdk.  *)
AddSdk ==
  /\ phase = "addsdk"
  /\ nsos' = [nsos EXCEPT ![subsdk0] = nsos[sdk], ![sdk] = custom]
  /\ phase' = "patch"
  /\ UNCHANGED <<custom, config, done, outdir>>

(* One turn of the loop of ApplyPatches. *)
ApplyPatch ==
  /\ phase = "patch" /\ done < Len(config)
  /\ CanApply(nsos, done + 1)
  /\ nsos' = WriteExeFs(nsos, GetAddress(nsos, config[done + 1].address),
                        Buffer(nsos, done + 1))
  /\ done' = done + 1
  /\ UNCHANGED <<phase, custom, config, outdir>>

(* An exception nobody catches ends the program. *)
Throw ==
  /\ phase = "patch" /\ done < Len(config)
  /\ ~CanApply(nsos, done + 1)
  /\ phase' = "failed"
  /\ UNCHANGED <<nsos, custom, config, done, outdir>>

PatchesApplied ==
  /\ phase = "patch" /\ done = Len(config)
  /\ phase' = "export"
  /\ UNCHANGED <<nsos, custom, config, done, outdir>>

(* ExportAsDir writes the modules in the order of their slots; the file    *)
(* system may fail on any of them.                                         *)
ExportNso ==
  /\ phase = "export"
  /\ Present(nsos) \ outdir # {}
  /\ \/ outdir' = outdir \cup {Min(Present(nsos) \ outdir)} /\ UNCHANGED phase
     \/ phase' = "failed" /\ UNCHANGED outdir
  /\ UNCHANGED <<nsos, custom, config, done>>

Exported ==
  /\ phase = "export"
  /\ outdir = Present(nsos)
  /\ phase' = "done"
  /\ UNCHANGED <<nsos, custom, config, done, outdir>>

Next ==
  \/ AllocModObj \/ AddSdk \/ ApplyPatch \/ Throw \/ PatchesApplied
  \/ ExportNso \/ Exported

Spec == Init /\ [][Next]_vars

-----------------------------------------------------------------------------
(* The console.  Its loader maps the modules one after the other, each on  *)
(* a page boundary; addresses are relative to the first.                   *)
LoadAddress(i) ==
  MapThenSumSet(LAMBDA j : Align(EndAddress(nsos[j])), {j \in Present(nsos) : j < i})

(* The byte at an address once the modules are loaded. *)
LoadedByte(addr) ==
  LET at == {i \in Present(nsos) : addr - LoadAddress(i) \in DOMAIN nsos[i].data} IN
  IF at = {} THEN Null ELSE nsos[Max(at)].data[addr - LoadAddress(Max(at))]

(* ProcessMemory::ModuleAddr(0, index): modules are counted by their one   *)
(* executable region each, in the order of their addresses.                *)
ModuleSlot(index) ==
  CHOOSE i \in Present(nsos) : Cardinality({j \in Present(nsos) : j < i}) = index

-----------------------------------------------------------------------------
(* The types of the variables that Main changes. *)
TypeOK ==
  /\ phase \in {"alloc", "addsdk", "patch", "export", "done", "failed"}
  /\ DOMAIN nsos = Slots
  /\ done \in 0 .. Len(config)
  /\ outdir \subseteq Present(nsos)

(* The address the configuration means: the module's own, once loaded. *)
Meant(m) ==
  IF IsSymbol(m) THEN LoadAddress(sdk) + Symbols[m.symbol]
  ELSE LoadAddress(IF m.nso = sdk THEN subsdk0 ELSE m.nso) + m.offset

PatchRange(k) == Meant(config[k].address) .. Meant(config[k].address) + Width(config[k]) - 1

Overwritten(k) == \E l \in k + 1 .. Len(config) : PatchRange(k) \cap PatchRange(l) # {}

InsideModule(m) ==
  ~IsSymbol(m) => m.offset < EndAddress(nsos[IF m.nso = sdk THEN subsdk0 ELSE m.nso])

(* When the program has finished, every branch of the configuration is in  *)
(* place in the loaded game and leads to the symbol it names: the layout   *)
(* the patcher computes, the slots AddSdk has changed under the addresses  *)
(* of the configuration, and the encoding agree with loader and processor. *)
BranchesLand ==
  phase = "done" =>
    \A k \in 1 .. Len(config) :
      LET patch == config[k]
          from == Meant(patch.address)
      IN IsBranch(patch) /\ InsideModule(patch.address) /\ ~Overwritten(k) =>
           /\ \A i \in 1 .. 4 :
                /\ LoadedByte(from + i - 1) # Null
                /\ LoadedByte(from + i - 1).patch = k
                /\ LoadedByte(from + i - 1).at = i
           /\ from + 4 * LoadedByte(from).imm = Meant(patch.target)

(* The module finds the game where ProcessMemory.cpp looks for it: main is *)
(* module 1, the game's sdk is module 2 and the module itself is module 3. *)
ModulesWhereExpected ==
  phase = "done" =>
    /\ ModuleSlot(1) = main
    /\ nsos[ModuleSlot(2)].name = "sdk"
    /\ nsos[ModuleSlot(3)].name = Custom.name

(* Apart from the bytes the configuration names the game is unchanged.     *)
OnlyPatchesChange ==
  \A i \in Present(nsos) : \A a \in DOMAIN nsos[i].data :
    \/ nsos[i].data[a] = Original(a)
    \/ \E k \in 1 .. done : LoadAddress(i) + a \in PatchRange(k)
=============================================================================
