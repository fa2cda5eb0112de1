------------------------------- MODULE Memory -------------------------------
(***************************************************************************)
(* Where a program maps memory (kernel/virtmem.c) and what it maps there:  *)
(* transfer memory, shared memory, JIT buffers and the stacks of threads   *)
(* (tmem.c, shmem.c, jit.c, thread.c).  The kernel is the other side: it knows which pages are mapped, *)
(* refuses to map over them or inside the regions it keeps, and may refuse *)
(* anything else too.  Addresses and sizes are numbers of pages.           *)
(***************************************************************************)
EXTENDS Integers, FiniteSets, Sequences

CONSTANTS
  Start, End,       \* g_AddressSpace
  Regions,          \* g_Region: a sequence of records start, end; the first is for stacks
  Program,          \* pages taken before the program begins
  Tmems, Shmems, CodeJits, JitJits, Thrds,  \* the objects: two kinds of JIT buffers
  Size              \* of every object

Objects == Tmems \cup Shmems \cup CodeJits \cup JitJits \cup Thrds
Jits == CodeJits \cup JitJits
Space == Start..End - 1

MemoryAssumption ==
  /\ Start \in Nat \ {0, 1} /\ End \in Nat /\ Program \subseteq Space
  /\ Regions \in Seq([start : Nat, end : Nat]) /\ Len(Regions) > 0
  /\ \A i \in 1..Len(Regions) : Regions[i].start >= Start /\ Regions[i].end <= End
  /\ Size \in [Objects -> Nat \ {0}]
  /\ LET kinds == <<Tmems, Shmems, CodeJits, JitJits, Thrds>>
     IN  \A i, j \in 1..5 : i # j => kinds[i] \cap kinds[j] = {}

VARIABLES
  cursor, mapCursor,  \* g_CurrentAddr, g_CurrentMapAddr
  maps,    \* the kernel: what is mapped at every page, <<>> if nothing is
  slice,   \* map_addr, rx_addr or stack_mirror ("map") and rw_addr ("rw") of every object, or None
  handle,  \* objects whose handle is valid
  src,     \* objects whose src_addr is not NULL
  heap,    \* objects whose memory at src_addr is allocated
  made,    \* objects created and not closed
  exec,    \* is_executable
  torn     \* history: JIT buffers and threads that left a mapping behind after an error

vars == <<cursor, mapCursor, maps, slice, handle, src, heap, made, exec, torn>>

None == 0
Free == <<>>

Init ==
  /\ cursor = 0 /\ mapCursor = 0
  /\ maps = [p \in Space |-> IF p \in Program THEN <<"program">> ELSE Free]
  /\ slice = [o \in Objects |-> [map |-> None, rw |-> None]]
  /\ handle = {} /\ src = {} /\ heap = {} /\ made = {} /\ exec = {} /\ torn = {}

-----------------------------------------------------------------------------
(* svcQueryMemory: the block of pages in the same state around page p.     *)
BlockEnd(m, p) ==
  CHOOSE e \in p + 1..End : (\A q \in p..e - 1 : m[q] = m[p]) /\ (e = End \/ m[e] # m[p])
BlockStart(m, p) ==
  CHOOSE b \in Start..p : (\A q \in b..p : m[q] = m[p]) /\ (b = Start \/ m[b - 1] # m[p])
BlockSize(m, p) == BlockEnd(m, p) - BlockStart(m, p)

In(region, p) == region.start <= p /\ p < region.end
Reserved(p, size) ==
  {i \in 1..Len(Regions) : In(Regions[i], p) \/ In(Regions[i], p + size - 1)}

(* One round of the loop of virtmemReserve, after the guard page: the whole *)
(* block is compared, whatever lies before p.                              *)
Guarded(a) == IF a + 1 \in Space THEN a + 1 ELSE Start
Fits(m, p, size) ==
  p \in Space /\ m[p] = Free /\ size <= BlockSize(m, p) /\ Reserved(p, size) = {}
Past(m, p, size) ==
  IF m[p] # Free \/ size > BlockSize(m, p) THEN BlockEnd(m, p)
  ELSE Regions[CHOOSE i \in Reserved(p, size) : \A j \in Reserved(p, size) : i <= j].end

(* The rounds, from a on; without a page that fits the loop does not end.  *)
virtmemReserve(m, a, size) ==
  LET at[k \in 0..End] ==
        IF k = 0 THEN Guarded(a)
        ELSE LET p == at[k - 1] IN IF Fits(m, p, size) THEN p ELSE Guarded(Past(m, p, size))
  IN  at[End]
CanReserve(m, a, size) == Fits(m, virtmemReserve(m, a, size), size)

(* virtmemReserveStack: the same inside the stack region. *)
Stacks == Regions[1]
GuardedStack(a) == IF In(Stacks, a + 1) THEN a + 1 ELSE Stacks.start
FitsStack(m, p, size) == p \in Space /\ m[p] = Free /\ size <= BlockSize(m, p)
virtmemReserveStack(m, a, size) ==
  LET at[k \in 0..End] ==
        IF k = 0 THEN GuardedStack(a)
        ELSE LET p == at[k - 1] IN IF FitsStack(m, p, size) THEN p ELSE GuardedStack(BlockEnd(m, p))
  IN  at[End]

Pages(a, size) == a..a + size - 1

(* What the kernel accepts; it may also refuse.                             *)
Mappable(m, a, size) ==
  \A p \in Pages(a, size) : p \in Space /\ m[p] = Free /\ \A i \in 1..Len(Regions) : ~In(Regions[i], p)
Map(m, a, o, k) ==
  [p \in Space |-> IF p \in Pages(a, Size[o]) THEN <<o, k>> ELSE m[p]]
Unmap(m, o, k) == [p \in Space |-> IF m[p] = <<o, k>> THEN Free ELSE m[p]]

-----------------------------------------------------------------------------
(* tmemCreate, with memory of its own, and shmemCreate; a failure leaves    *)
(* nothing.                                                                 *)
Create(o) ==
  /\ o \in (Tmems \cup Shmems) \ made
  /\ made' = made \cup {o} /\ handle' = handle \cup {o}
  /\ src' = src \cup ({o} \cap Tmems) /\ heap' = heap \cup ({o} \cap Tmems)
  /\ UNCHANGED <<cursor, mapCursor, maps, slice, exec, torn>>

(* tmemMap and shmemMap.                                                    *)
MapObject(o) ==
  /\ o \in (Tmems \cup Shmems) \cap made /\ slice[o].map = None
  /\ CanReserve(maps, cursor, Size[o])
  /\ LET a == virtmemReserve(maps, cursor, Size[o])
     IN  /\ cursor' = a + Size[o]
         /\ \/ UNCHANGED <<maps, slice>>
            \/ /\ Mappable(maps, a, Size[o])
               /\ maps' = Map(maps, a, o, "map")
               /\ slice' = [slice EXCEPT ![o].map = a]
  /\ UNCHANGED <<mapCursor, handle, src, heap, made, exec, torn>>

(* tmemUnmap and shmemUnmap; a refusal changes nothing.                     *)
UnmapObject(o) ==
  /\ o \in (Tmems \cup Shmems) \cap made /\ slice[o].map # None
  /\ maps' = Unmap(maps, o, "map")
  /\ slice' = [slice EXCEPT ![o].map = None]
  /\ UNCHANGED <<cursor, mapCursor, handle, src, heap, made, exec, torn>>

BadUnmapped(o, done) == TRUE   \* mutant: goes on when the kernel refuses

(* Whether Close goes on, after the kernel has unmapped or refused.         *)
Unmapped(o, done) == done \/ slice[o].map = None

(* tmemClose and shmemClose; an unmapping that fails leaves all as it was. *)
Close(o) ==
  /\ o \in (Tmems \cup Shmems) \cap made
  /\ \E done \in BOOLEAN :
       /\ Unmapped(o, done)
       /\ maps' = IF done THEN Unmap(maps, o, "map") ELSE maps
       /\ slice' = [slice EXCEPT ![o].map = IF done THEN None ELSE @]
       /\ handle' = handle \ {o} /\ src' = src \ {o} /\ heap' = heap \ {o}
       /\ made' = made \ {o}
  /\ UNCHANGED <<cursor, mapCursor, exec, torn>>

-----------------------------------------------------------------------------
(* jitCreate, where code is mapped from the process's own memory: the slice *)
(* is reserved now and mapped later.                                        *)
CreateCodeJit(j) ==
  /\ j \in CodeJits \ (made \cup torn)   \* bound: one that is torn is not made again
  /\ CanReserve(maps, cursor, Size[j])
  /\ LET a == virtmemReserve(maps, cursor, Size[j])
     IN  cursor' = a + Size[j] /\ slice' = [slice EXCEPT ![j].map = a]
  /\ src' = src \cup {j} /\ heap' = heap \cup {j} /\ made' = made \cup {j}
  /\ exec' = exec \ {j}
  /\ UNCHANGED <<mapCursor, maps, handle, torn>>

(* jitCreate with the kernel's JIT memory: two slices, both mapped at once; *)
(* any failure undoes the rest.                                             *)
CreateJitJit(j) ==
  /\ j \in JitJits \ (made \cup torn)
  /\ CanReserve(maps, cursor, Size[j])
  /\ LET rx == virtmemReserve(maps, cursor, Size[j])
         rw == virtmemReserve(maps, rx + Size[j], Size[j])
         withRw == Map(maps, rw, j, "rw")
     IN  /\ CanReserve(maps, rx + Size[j], Size[j])
         /\ cursor' = rw + Size[j] /\ UNCHANGED mapCursor
         /\ \/ UNCHANGED <<maps, slice, handle, src, heap, made, exec, torn>>
            \/ /\ Mappable(maps, rw, Size[j]) /\ Mappable(withRw, rx, Size[j])
               /\ maps' = Map(withRw, rx, j, "map")
               /\ slice' = [slice EXCEPT ![j] = [map |-> rx, rw |-> rw]]
               /\ handle' = handle \cup {j} /\ src' = src \cup {j} /\ heap' = heap \cup {j}
               /\ made' = made \cup {j} /\ exec' = exec \ {j} /\ UNCHANGED torn

(* The permission may be refused when the mapping was made: what should    *)
(* undo it looks at is_executable, which is still 0, and does nothing.     *)
jitTransitionToExecutable(j) ==
  /\ j \in Jits \cap made
  /\ IF j \in CodeJits /\ j \notin exec
     THEN /\ Mappable(maps, slice[j].map, Size[j])
          /\ maps' = Map(maps, slice[j].map, j, "map")
          /\ \/ exec' = exec \cup {j} /\ UNCHANGED torn
             \/ torn' = torn \cup {j} /\ UNCHANGED exec
     ELSE exec' = exec \cup {j} /\ UNCHANGED <<maps, torn>>
  /\ UNCHANGED <<cursor, mapCursor, slice, handle, src, heap, made>>

jitTransitionToWritable(j) ==
  /\ j \in Jits \cap made
  /\ maps' = IF j \in CodeJits \cap exec THEN Unmap(maps, j, "map") ELSE maps
  /\ exec' = exec \ {j}
  /\ UNCHANGED <<cursor, mapCursor, slice, handle, src, heap, made, torn>>

(* jitClose.  A mapping that stays, by the error above, survives it; and   *)
(* when the second of two unmappings fails, another jitClose fails at the  *)
(* first.                                                                  *)
jitClose(j) ==
  /\ j \in Jits \cap made
  /\ \/ /\ j \in CodeJits => maps' = IF j \in exec THEN Unmap(maps, j, "map") ELSE maps
        /\ j \in JitJits => j \notin torn /\ maps' = Unmap(Unmap(maps, j, "rw"), j, "map")
        /\ exec' = IF j \in CodeJits THEN exec \ {j} ELSE exec
        /\ slice' = [slice EXCEPT ![j] = [map |-> None, rw |-> None]]
        /\ handle' = handle \ {j} /\ src' = src \ {j} /\ heap' = heap \ {j} /\ made' = made \ {j}
        /\ UNCHANGED torn
     \/ /\ j \in JitJits \ torn
        /\ maps' = Unmap(maps, j, "rw") /\ torn' = torn \cup {j}
        /\ UNCHANGED <<slice, handle, src, heap, made, exec>>
  /\ UNCHANGED <<cursor, mapCursor>>

-----------------------------------------------------------------------------
(* threadCreate: the stack is mapped a second time in the stack region; a  *)
(* failure leaves only the cursor where it is.                             *)
threadCreate(t) ==
  /\ t \in Thrds \ (made \cup torn)
  /\ LET a == virtmemReserveStack(maps, mapCursor, Size[t])
     IN  /\ FitsStack(maps, a, Size[t])
         /\ mapCursor' = a + Size[t]
         /\ \/ UNCHANGED <<maps, slice, handle, src, heap, made>>
            \/ /\ \A p \in Pages(a, Size[t]) : In(Stacks, p) /\ maps[p] = Free
               /\ maps' = Map(maps, a, t, "map") /\ slice' = [slice EXCEPT ![t].map = a]
               /\ handle' = handle \cup {t} /\ src' = src \cup {t} /\ heap' = heap \cup {t}
               /\ made' = made \cup {t}
  /\ UNCHANGED <<cursor, exec, torn>>

(* threadClose frees the stack even if the kernel refuses to unmap it.     *)
threadClose(t) ==
  /\ t \in Thrds \cap made
  /\ \/ maps' = Unmap(maps, t, "map") /\ UNCHANGED torn
     \/ maps' = maps /\ torn' = torn \cup {t}
  /\ slice' = [slice EXCEPT ![t].map = None]
  /\ handle' = handle \ {t} /\ src' = src \ {t} /\ heap' = heap \ {t} /\ made' = made \ {t}
  /\ UNCHANGED <<cursor, mapCursor, exec>>

Next ==
  \/ \E o \in Tmems \cup Shmems : Create(o) \/ MapObject(o) \/ UnmapObject(o) \/ Close(o)
  \/ \E j \in CodeJits : CreateCodeJit(j)
  \/ \E j \in JitJits : CreateJitJit(j)
  \/ \E t \in Thrds : threadCreate(t) \/ threadClose(t)
  \/ \E j \in Jits : jitTransitionToExecutable(j) \/ jitTransitionToWritable(j) \/ jitClose(j)

Spec == Init /\ [][Next]_vars

-----------------------------------------------------------------------------
TypeOK ==
  /\ cursor \in 0..End + Cardinality(Space) /\ made \subseteq Objects
  /\ handle \subseteq Objects /\ src \subseteq Objects /\ heap \subseteq Objects
  /\ exec \subseteq Jits /\ torn \subseteq Jits \cup Thrds
  /\ \A o \in Objects : slice[o].map \in {None} \cup Space /\ slice[o].rw \in {None} \cup Space

Mapped(o, k) == {p \in Space : maps[p] = <<o, k>>}

(* The program's fields and the kernel agree on what is mapped where, and   *)
(* memory goes back to the heap only when the kernel has no mapping of it,  *)
(* whatever the kernel refuses; except after the three errors that leave a  *)
(* mapping behind.                                                          *)
MappingsAgree ==
  /\ \A o \in (Tmems \cup Shmems \cup Thrds) \ torn :
       Mapped(o, "map") = IF slice[o].map = None THEN {} ELSE Pages(slice[o].map, Size[o])
  /\ \A j \in Jits \ torn :
       /\ Mapped(j, "map") = IF j \in made /\ (j \in exec \/ j \in JitJits)
                             THEN Pages(slice[j].map, Size[j]) ELSE {}
       /\ Mapped(j, "rw") = IF j \in JitJits \cap made THEN Pages(slice[j].rw, Size[j]) ELSE {}
  /\ \A o \in Objects \ (Shmems \cup torn) : (\E k \in {"map", "rw"} : Mapped(o, k) # {}) => o \in heap
  /\ src = heap /\ src \subseteq made

(* Of what is not made, or not of this kind, nothing is mapped.            *)
OnlyMade ==
  /\ \A o \in Tmems \cup Shmems \cup Thrds : slice[o].map # None => o \in made
  /\ \A o \in Objects \ JitJits : Mapped(o, "rw") = {}
  /\ heap = made \ Shmems

(* Types, as far as they matter for this. *)
MemoryTyped ==
  /\ maps \in [Space -> {Free, <<"program">>} \cup (Objects \X {"map", "rw"})]
  /\ slice \in [Objects -> [map : {None} \cup Space, rw : {None} \cup Space]]
  /\ made \subseteq Objects /\ exec \subseteq Jits /\ torn \subseteq Jits \cup Thrds

IInv == MemoryTyped /\ OnlyMade /\ MappingsAgree

(* "Reserves a slice of general purpose address space" (virtmem.h), which  *)
(* fits where it is (the comments of virtmemReserve): what a JIT buffer     *)
(* reserves, to map it later, is free and outside the regions.              *)
ReservedIsFree ==
  [][\A j \in CodeJits : slice[j].map = None /\ slice'[j].map # None =>
       Mappable(maps, slice'[j].map, Size[j])]_vars
=============================================================================
