---------------------------- MODULE AudioVoices -----------------------------
(***************************************************************************)
(* The voices of the audio driver and their channels (audio/voice.c).  The *)
(* used voices form a list: prev_next_voice points at the link that leads  *)
(* to a voice, the head or the next_used_voice of another.  The channels   *)
(* of a voice come from a list of free ones; there are as many channels as *)
(* voices.                                                                 *)
(***************************************************************************)
EXTENDS Integers, Sequences, FiniteSets

CONSTANTS
  NumVoices,
  MaxChannels  \* the channels of one voice, 6 in the code

AudioVoicesAssumption == NumVoices \in Nat \ {0} /\ MaxChannels \in Nat \ {0}

Voices == 0..NumVoices - 1
Head0 == -2   \* &first_used_voice, as a link

VARIABLES
  link,        \* link[Head0] is first_used_voice, link[v] is voices[v].next_used_voice
  prevNext,    \* prev_next_voice: the link that leads to v
  used,        \* in_voices[v].is_used
  channels,    \* in_voices[v].channel_ids
  firstFree, nextFree, freeCount,   \* the free channels
  order        \* in_voices[v].sorting_order

vars == <<link, prevNext, used, channels, firstFree, nextFree, freeCount, order>>

Init ==
  /\ link = [x \in Voices \cup {Head0} |-> IF x = Head0 THEN -1 ELSE 0]
  /\ prevNext = [v \in Voices |-> Head0]
  /\ used = {} /\ channels = [v \in Voices |-> <<>>]
  /\ firstFree = 0 /\ freeCount = NumVoices
  /\ nextFree = [c \in Voices |-> IF c # NumVoices - 1 THEN c + 1 ELSE -1]
  /\ order = [v \in Voices |-> 0]

-----------------------------------------------------------------------------
(* The list of free channels, and the state of the voices, as a record. *)
State ==
  [link |-> link, prevNext |-> prevNext, used |-> used, channels |-> channels,
   firstFree |-> firstFree, nextFree |-> nextFree, freeCount |-> freeCount, order |-> order]

Becomes(s) ==
  /\ link' = s.link /\ prevNext' = s.prevNext /\ used' = s.used /\ channels' = s.channels
  /\ firstFree' = s.firstFree /\ nextFree' = s.nextFree /\ freeCount' = s.freeCount
  /\ order' = s.order

(* The channels of a voice go back last first. *)
Released(s, v) ==
  LET ids == s.channels[v]
  IN  [s EXCEPT !.freeCount = @ + Len(ids),
                !.firstFree = IF ids = <<>> THEN @ ELSE ids[1],
                !.nextFree = [c \in Voices |->
                   IF \E i \in 1..Len(ids) : ids[i] = c
                   THEN LET i == CHOOSE i \in 1..Len(ids) : ids[i] = c
                        IN  IF i = Len(ids) THEN s.firstFree ELSE ids[i + 1]
                   ELSE s.nextFree[c]],
                !.channels[v] = <<>>]

(* An unlink that leaves the next voice pointing back at the one that is gone. *)
BadUnlinked(s, v) == [s EXCEPT !.link[s.prevNext[v]] = s.link[v]]

Unlinked(s, v) ==
  LET next == s.link[v]
  IN  [s EXCEPT !.link[s.prevNext[v]] = next,
                !.prevNext = IF next >= 0 THEN [@ EXCEPT ![next] = s.prevNext[v]] ELSE @]

Dropped(s, v) == [Unlinked(Released(s, v), v) EXCEPT !.used = @ \ {v}, !.order[v] = 0]

LinkedFirst(s, v) ==
  LET next == s.link[Head0]
      pn == [s.prevNext EXCEPT ![v] = Head0]
  IN  [s EXCEPT !.link = [@ EXCEPT ![v] = next, ![Head0] = v],
                !.prevNext = IF next >= 0 THEN [pn EXCEPT ![next] = v] ELSE pn]

(* n channels from the list of free ones, in its order. *)
Allocated(s, v, n) ==
  LET at[k \in 0..n] == IF k = 0 THEN s.firstFree ELSE s.nextFree[at[k - 1]]
  IN  [s EXCEPT !.freeCount = @ - n, !.firstFree = at[n],
                !.channels[v] = [k \in 1..n |-> at[k - 1]]]

(* A voice that is used is dropped first, even if there are then not enough *)
(* channels to start it again.                                              *)
audrvVoiceInit(v, n) ==
  LET s == IF v \in used THEN Dropped(State, v) ELSE State
  IN  Becomes(IF s.freeCount < n THEN s
              ELSE Allocated(LinkedFirst([s EXCEPT !.used = @ \cup {v}], v), v, n))

audrvVoiceDrop(v) == v \in used /\ Becomes(Dropped(State, v))

(* The used voices from the first on. *)
Used ==
  LET at[k \in 0..NumVoices] == IF k = 0 THEN link[Head0]
                                ELSE IF at[k - 1] < 0 THEN -1 ELSE link[at[k - 1]]
  IN  at

audrvUpdate ==
  /\ order' = [v \in Voices |-> IF \E k \in 0..NumVoices : Used[k] = v
                                THEN CHOOSE k \in 0..NumVoices : Used[k] = v ELSE order[v]]
  /\ UNCHANGED <<link, prevNext, used, channels, firstFree, nextFree, freeCount>>

Next ==
  \/ \E v \in Voices : audrvVoiceDrop(v) \/ \E n \in 1..MaxChannels : audrvVoiceInit(v, n)
  \/ audrvUpdate

Spec == Init /\ [][Next]_vars

-----------------------------------------------------------------------------
Channel(v) == {channels[v][i] : i \in 1..Len(channels[v])}

Free ==
  LET at[k \in 0..NumVoices] == IF k = 0 THEN firstFree
                                ELSE IF at[k - 1] < 0 THEN -1 ELSE nextFree[at[k - 1]]
  IN  at

TypeOK ==
  /\ used \subseteq Voices /\ freeCount \in 0..NumVoices
  /\ link \in [Voices \cup {Head0} -> Voices \cup {-1}]
  /\ prevNext \in [Voices -> Voices \cup {Head0}]

(* The list visits every used voice once and ends; each prev_next_voice is *)
(* the link that leads to its voice.  Every channel is free or belongs to  *)
(* one voice, and the count of free channels is the length of their list.  *)
VoicesAndChannels ==
  /\ Used[NumVoices] = -1
  /\ {Used[k] : k \in 0..NumVoices} \ {-1} = used
  /\ \A v \in used : link[prevNext[v]] = v
  /\ Free[freeCount] = -1
  /\ LET free == {Free[k] : k \in 0..NumVoices} \ {-1}
     IN  /\ Cardinality(free) = freeCount
         /\ \A v, w \in used : v # w => Channel(v) \cap Channel(w) = {}
         /\ free = Voices \ UNION {Channel(v) : v \in used}
=============================================================================
