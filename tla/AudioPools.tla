----------------------------- MODULE AudioPools -----------------------------
(***************************************************************************)
(* The objects of the audio driver that are handed out by number: memory   *)
(* pools, mixes and sinks (audio/driver.c, mempool.c, mix_object.c,        *)
(* sink.c).  The free ones of a kind are linked in an array of indices.    *)
(* The program removes only what it was given and has not removed yet.     *)
(***************************************************************************)
EXTENDS Integers, FiniteSets

CONSTANTS
  NumPools, NumMixes, NumSinks,  \* the sizes of the arrays
  MaxMixBuffers                  \* bound of the buffers and channels of a configuration

AudioPoolsAssumption ==
  NumPools \in Nat \ {0} /\ NumMixes \in Nat \ {0} /\ NumSinks \in Nat \ {0}
  /\ MaxMixBuffers \in Nat \ {0}

Pools == 0..NumPools - 1
Mixes == 0..NumMixes - 1
Sinks == 0..NumSinks - 1

VARIABLES
  pools, mixes, sinks,  \* the free lists: first and next
  poolState,            \* in_mempools[id].state
  mixBuffers,           \* free_mix_buffer_count
  buffersOf,            \* in_mixes[id].buffer_count
  attached,             \* pools the renderer has mapped
  given                 \* history: what the program holds, by kind

vars == <<pools, mixes, sinks, poolState, mixBuffers, buffersOf, attached, given>>

-----------------------------------------------------------------------------
FINAL_MIX_ID == 0
Linked(n) == [first |-> 0, next |-> [i \in 0..n - 1 |-> IF i # n - 1 THEN i + 1 ELSE -1]]

(* The loop of the mixes ends at first_free_mix, which is 1, and links none: *)
(* the memory was cleared, so the mix after mix 1 is mix 0.                  *)
LinkedMixes(n) == [first |-> IF n > 1 THEN 1 ELSE -1, next |-> [i \in 0..n - 1 |-> 0]]

Take(list) == [list EXCEPT !.first = list.next[list.first]]
Put(list, id) == [first |-> id, next |-> [list.next EXCEPT ![id] = list.first]]

(* What audrvCreate makes of a configuration. *)
MixBuffersFree(numMixBuffers, numFinal) == numMixBuffers - numFinal
Accepted(numMixBuffers, numFinal) == ~(numFinal < numMixBuffers)

Init ==
  /\ pools = Linked(NumPools) /\ mixes = LinkedMixes(NumMixes) /\ sinks = Linked(NumSinks)
  /\ poolState = [p \in Pools |-> "Released"]
  /\ \E b, f \in 1..MaxMixBuffers : Accepted(b, f) /\ mixBuffers = MixBuffersFree(b, f)
  /\ buffersOf = [m \in Mixes |-> 0]
  /\ attached = {} /\ given = [pool |-> {}, mix |-> {}, sink |-> {}]

-----------------------------------------------------------------------------
audrvMemPoolAdd ==
  /\ pools.first >= 0
  /\ pools' = Take(pools)
  /\ poolState' = [poolState EXCEPT ![pools.first] = "New"]
  /\ given' = [given EXCEPT !.pool = @ \cup {pools.first}]
  /\ UNCHANGED <<mixes, sinks, mixBuffers, buffersOf, attached>>

audrvMemPoolRemove(p) ==
  /\ p \in given.pool /\ poolState[p] \notin {"Attached", "RequestDetach"}
  /\ pools' = Put(pools, p)
  /\ poolState' = [poolState EXCEPT ![p] = "Released"]
  /\ given' = [given EXCEPT !.pool = @ \ {p}]
  /\ UNCHANGED <<mixes, sinks, mixBuffers, buffersOf, attached>>

AttachedState(s) ==
  CASE s \in {"New", "RequestAttach", "Detached"} -> "RequestAttach"
    [] s \in {"RequestDetach", "Attached"} -> "Attached"

DetachedState(s) ==
  CASE s = "New" -> "New"
    [] s \in {"RequestAttach", "Detached"} -> "Detached"
    [] s \in {"RequestDetach", "Attached"} -> "RequestDetach"

audrvMemPoolAttach(p) ==
  /\ p \in given.pool
  /\ poolState' = [poolState EXCEPT ![p] = AttachedState(@)]
  /\ UNCHANGED <<pools, mixes, sinks, mixBuffers, buffersOf, attached, given>>

audrvMemPoolDetach(p) ==
  /\ p \in given.pool
  /\ poolState' = [poolState EXCEPT ![p] = DetachedState(@)]
  /\ UNCHANGED <<pools, mixes, sinks, mixBuffers, buffersOf, attached, given>>

(* The renderer maps and unmaps the pools it is asked to, or puts it off,  *)
(* and answers with the states that changed.                               *)
audrvUpdate ==
  \E done \in SUBSET {p \in Pools : poolState[p] \in {"RequestAttach", "RequestDetach"}} :
    /\ attached' = (attached \cup {p \in done : poolState[p] = "RequestAttach"})
                     \ {p \in done : poolState[p] = "RequestDetach"}
    /\ poolState' = [p \in Pools |-> IF p \in attached' /\ p \in done THEN "Attached"
                                     ELSE IF p \in done THEN "Detached" ELSE poolState[p]]
    /\ UNCHANGED <<pools, mixes, sinks, mixBuffers, buffersOf, given>>

audrvMixAdd(channels) ==
  IF mixBuffers < channels \/ mixes.first < 0
  THEN UNCHANGED vars
  ELSE /\ mixBuffers' = mixBuffers - channels
       /\ mixes' = Take(mixes)
       /\ buffersOf' = [buffersOf EXCEPT ![mixes.first] = channels]
       /\ given' = [given EXCEPT !.mix = @ \cup {mixes.first}]
       /\ UNCHANGED <<pools, sinks, poolState, attached>>

(* A mix that is not used, or is the final one, is left alone. *)
audrvMixRemove(m) ==
  IF m <= FINAL_MIX_ID \/ m \notin given.mix
  THEN UNCHANGED vars
  ELSE /\ mixBuffers' = mixBuffers + buffersOf[m]
       /\ mixes' = Put(mixes, m)
       /\ buffersOf' = [buffersOf EXCEPT ![m] = 0]
       /\ given' = [given EXCEPT !.mix = @ \ {m}]
       /\ UNCHANGED <<pools, sinks, poolState, attached>>

audrvDeviceSinkAdd ==
  /\ sinks.first >= 0
  /\ sinks' = Take(sinks)
  /\ given' = [given EXCEPT !.sink = @ \cup {sinks.first}]
  /\ UNCHANGED <<pools, mixes, poolState, mixBuffers, buffersOf, attached>>

audrvSinkRemove(s) ==
  /\ s \in given.sink
  /\ sinks' = Put(sinks, s)
  /\ given' = [given EXCEPT !.sink = @ \ {s}]
  /\ UNCHANGED <<pools, mixes, poolState, mixBuffers, buffersOf, attached>>

Next ==
  \/ audrvMemPoolAdd \/ audrvDeviceSinkAdd \/ audrvUpdate
  \/ \E p \in Pools : audrvMemPoolRemove(p) \/ audrvMemPoolAttach(p) \/ audrvMemPoolDetach(p)
  \/ \E c \in 1..MaxMixBuffers : audrvMixAdd(c)
  \/ \E m \in Mixes : audrvMixRemove(m)
  \/ \E s \in Sinks : audrvSinkRemove(s)

Spec == Init /\ [][Next]_vars

-----------------------------------------------------------------------------
(* A walk along a free list; it may not end. *)
Walk(list, n) ==
  LET at[k \in 0..n] == IF k = 0 THEN list.first
                        ELSE IF at[k - 1] < 0 THEN -1 ELSE list.next[at[k - 1]]
  IN  at

Lists(list, ids) ==
  LET at == Walk(list, Cardinality(ids))
  IN  at[Cardinality(ids)] = -1 /\ {at[k] : k \in DOMAIN at} \ {-1} = ids

TypeOK ==
  /\ poolState \in [Pools -> {"Released", "New", "RequestAttach", "Attached", "RequestDetach", "Detached"}]
  /\ given.pool \subseteq Pools /\ given.mix \subseteq Mixes /\ given.sink \subseteq Sinks

(* Every number is either with the program or on its free list, which ends; *)
(* the final mix is never handed out.  Mixes would break this: their list   *)
(* is not linked (driver.c:45), and it holds only because audrvCreate       *)
(* accepts just the configurations that leave no mix buffer (driver.c:61).  *)
HandedOutOnce ==
  /\ Lists(pools, Pools \ given.pool)
  /\ Lists(sinks, Sinks \ given.sink)
  /\ FINAL_MIX_ID \notin given.mix

(* What the renderer has mapped is still with the program.                  *)
MappedIsGiven == attached \subseteq given.pool
=============================================================================
