------------------------------ MODULE WaveBufs ------------------------------
(***************************************************************************)
(* The wave buffers of one used voice (audio/voice.c).  The program adds   *)
(* buffers to a linked list; the first of them are copied to a ring of the *)
(* request that audrvUpdate sends to the renderer, which plays them and    *)
(* answers how many it has consumed since the voice was new.               *)
(***************************************************************************)
EXTENDS Naturals, Sequences, FiniteSets

CONSTANTS
  Bufs,        \* the AudioDriverWaveBuf structures of the program
  Null,        \* no buffer
  RingSize,    \* 4 in the code
  MaxConsumed  \* bound: buffers played since the voice was new; a u32

WaveBufsAssumption ==
  Null \notin Bufs /\ IsFiniteSet(Bufs) /\ RingSize \in Nat \ {0} /\ MaxConsumed \in Nat

VARIABLES
  state, next,           \* of every buffer
  first, waiting, last,  \* first_wavebuf, waiting_wavebuf, last_wavebuf
  ring, sent,            \* in_voices[id].wavebufs: the buffer, sent_to_server
  head, count,           \* wavebuf_head, wavebuf_count
  consumed,              \* num_wavebufs_consumed
  isNew,
  renderer               \* the other side: its queue and count

vars == <<state, next, first, waiting, last, ring, sent, head, count, consumed, isNew, renderer>>

Ring == 0..RingSize - 1

Init ==  \* audrvVoiceInit
  /\ state = [b \in Bufs |-> "Free"] /\ next = [b \in Bufs |-> Null]
  /\ first = Null /\ waiting = Null /\ last = Null
  /\ ring = [i \in Ring |-> Null] /\ sent = [i \in Ring |-> TRUE]
  /\ head = 0 /\ count = 0 /\ consumed = 0 /\ isNew = TRUE
  /\ renderer = [queue |-> <<>>, consumed |-> 0]

-----------------------------------------------------------------------------
(* The buffers from b on, in the order of the list nx; at most all of them. *)
From(b, nx) ==
  LET at[k \in 0..Cardinality(Bufs)] ==
        IF k = 0 THEN b ELSE IF at[k - 1] = Null THEN Null ELSE nx[at[k - 1]]
      len == Cardinality({k \in DOMAIN at : at[k] # Null})
  IN  [k \in 1..len |-> at[k - 1]]

(* The entry i places from the head h, behind c others. *)
RingIndex(h, c, i) == (h + c + i - 1) % RingSize

(* What still waits of w when n of them were copied. *)
BadStillWaiting(w, n) == Null
StillWaiting(w, n) == IF n < Len(w) THEN w[n + 1] ELSE Null

(* Copies waiting buffers, those of the sequence w, while the ring, from h  *)
(* on with c buffers, has room; st are the states before.                   *)
_audrvVoiceQueueWaveBufs(w, h, c, st, sentBefore) ==
  LET n == IF Len(w) < RingSize - c THEN Len(w) ELSE RingSize - c
      Copied(s) == {i \in 1..n : RingIndex(h, c, i) = s}
  IN  /\ state' = [b \in Bufs |-> IF \E i \in 1..n : w[i] = b THEN "Queued" ELSE st[b]]
      /\ ring' = [s \in Ring |-> IF Copied(s) = {} THEN ring[s] ELSE w[CHOOSE i \in Copied(s) : TRUE]]
      /\ sent' = [s \in Ring |-> sentBefore[s] /\ Copied(s) = {}]
      /\ count' = c + n
      /\ waiting' = StillWaiting(w, n)

audrvVoiceAddWaveBuf(b) ==
  LET nx == [next EXCEPT ![b] = Null]
      linked == IF first = Null THEN nx ELSE [nx EXCEPT ![last] = b]
  IN  /\ state[b] \in {"Free", "Done"}
      /\ consumed + Len(From(first, next)) < MaxConsumed   \* bound
      /\ next' = linked /\ last' = b
      /\ first' = IF first = Null THEN b ELSE first
      /\ _audrvVoiceQueueWaveBufs(From(IF waiting = Null THEN b ELSE waiting, linked), head, count,
                                  [state EXCEPT ![b] = "Waiting"], sent)
      /\ UNCHANGED <<head, consumed, isNew, renderer>>

audrvVoiceStop ==
  LET listed == From(first, next)
  IN  /\ isNew' = TRUE /\ count' = 0 /\ head' = 0 /\ consumed' = 0
      /\ ring' = [i \in Ring |-> Null] /\ sent' = [i \in Ring |-> TRUE]
      /\ state' = [b \in Bufs |-> IF \E i \in 1..Len(listed) : listed[i] = b THEN "Done" ELSE state[b]]
      /\ first' = Null /\ waiting' = Null /\ last' = Null
      /\ UNCHANGED <<next, renderer>>

(* What the renderer makes of a request: a new voice begins again, and the *)
(* buffers not sent before join its queue, from the head around the ring.  *)
Received ==
  LET r == IF isNew THEN [queue |-> <<>>, consumed |-> 0] ELSE renderer
      joined[k \in 0..RingSize] ==
        IF k = 0 THEN r.queue
        ELSE LET s == (head + k - 1) % RingSize
             IN  IF sent[s] THEN joined[k - 1] ELSE Append(joined[k - 1], ring[s])
  IN  [r EXCEPT !.queue = joined[RingSize]]

(* audrvUpdate for this voice, with _audrvVoiceUpdate.  It may fail before  *)
(* anything is sent.                                                        *)
audrvUpdate ==
  LET n == Received.consumed - consumed
      list == From(first, next)
      done == {list[i] : i \in 1..(IF n < Len(list) THEN n ELSE Len(list))}
      now == [b \in Bufs |-> IF b \in done THEN "Done"
                             ELSE IF Len(list) > n /\ b = list[n + 1] THEN "Playing" ELSE state[b]]
      newHead == (head + n) % RingSize
  IN  /\ renderer' = Received
      /\ isNew' = FALSE
      /\ consumed' = Received.consumed /\ head' = newHead
      /\ IF Len(list) > n
         THEN /\ first' = list[n + 1] /\ UNCHANGED last
              /\ _audrvVoiceQueueWaveBufs(From(waiting, next), newHead, count - n, now,
                                          [i \in Ring |-> TRUE])
         ELSE /\ first' = Null /\ last' = Null
              /\ state' = now /\ count' = count - n
              /\ sent' = [i \in Ring |-> TRUE]
              /\ UNCHANGED <<waiting, ring>>
      /\ UNCHANGED next

(* The renderer has played a buffer to its end. *)
Consume ==
  /\ renderer.queue # <<>>
  /\ renderer' = [queue |-> Tail(renderer.queue), consumed |-> renderer.consumed + 1]
  /\ UNCHANGED <<state, next, first, waiting, last, ring, sent, head, count, consumed, isNew>>

Next ==
  \/ \E b \in Bufs : audrvVoiceAddWaveBuf(b)
  \/ audrvVoiceStop \/ audrvUpdate \/ Consume

Spec == Init /\ [][Next]_vars

(* The program calls audrvUpdate for every frame; the renderer plays what   *)
(* it was sent, of a voice that is not paused.                              *)
Fairness == WF_vars(audrvUpdate) /\ WF_vars(Consume)

-----------------------------------------------------------------------------
TypeOK ==
  /\ state \in [Bufs -> {"Free", "Waiting", "Queued", "Playing", "Done"}]
  /\ next \in [Bufs -> Bufs \cup {Null}] /\ first \in Bufs \cup {Null}
  /\ count \in 0..RingSize /\ head \in Ring /\ consumed \in 0..MaxConsumed

(* The list holds exactly the buffers that are not free; the first count   *)
(* of them are in the ring, in order, the rest wait.                       *)
RingIsListHead ==
  LET list == From(first, next)
  IN  /\ {b \in Bufs : state[b] \notin {"Free", "Done"}} = {list[i] : i \in 1..Len(list)}
      /\ count <= Len(list)
      /\ \A i \in 1..count : /\ ring[(head + i - 1) % RingSize] = list[i]
                             /\ state[list[i]] \in {"Queued", "Playing"}
      /\ \A i \in count + 1..Len(list) : state[list[i]] = "Waiting"
      /\ waiting = (IF count < Len(list) THEN list[count + 1] ELSE Null)
      /\ count < RingSize => waiting = Null
      /\ first # Null => last = list[Len(list)]

(* A buffer the program may reuse is not one the renderer still has to     *)
(* play, once it was told of a stop; and no buffer is sent twice.          *)
PlayedOnce ==
  /\ \A i \in 1..Len(renderer.queue) :
       ~isNew => state[renderer.queue[i]] \in {"Queued", "Playing"}
  /\ \A i, j \in 1..Len(renderer.queue) : renderer.queue[i] = renderer.queue[j] => i = j

(* Of more buffers than the ring holds, each comes to its turn and the      *)
(* program gets it back.                                                    *)
BufferPlayed == \A b \in Bufs : state[b] = "Waiting" ~> state[b] = "Done"
=============================================================================
