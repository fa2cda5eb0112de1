-------------------------- MODULE MC_MutexCondVar --------------------------
(***************************************************************************)
(* Instances of MutexCondVar for TLC: three threads are enough for one     *)
(* owner, one thread parked in the kernel and one that races with both.    *)
(* A behaviour of AllSpec exercises these threads or the wave buffers of a *)
(* voice, which a renderer plays: MC_Devices checks their lists, here is   *)
(* that every buffer comes to an end.                                      *)
(***************************************************************************)
EXTENDS MutexCondVar, TLC

CONSTANTS t1, t2, t3, wb1, wb2, wb3, NoBuf

(* condvarWakeOne and condvarWakeAll. *)
MC_WakeCounts == {1, -1}

-----------------------------------------------------------------------------
VARIABLES
  playing,  \* whether it is the wave buffers that are exercised
  state, next, first, waiting, last, ring, sent, head, count, consumed, isNew, renderer

(* One buffer more than the ring holds; its head goes round it twice. *)
W == INSTANCE WaveBufs WITH Bufs <- {wb1, wb2, wb3}, Null <- NoBuf, RingSize <- 2, MaxConsumed <- 4

waveVars ==
  <<playing, state, next, first, waiting, last, ring, sent, head, count, consumed, isNew, renderer>>

AllInit == playing \in BOOLEAN /\ Init /\ W!Init

AllNext ==
  \/ ~playing /\ Next /\ UNCHANGED waveVars
  \/ playing /\ W!Next /\ UNCHANGED <<playing, vars>>

(* The program goes on calling audrvUpdate, the renderer goes on playing.  *)
AllSpec ==
  /\ AllInit /\ [][AllNext]_<<vars, waveVars>> /\ Fairness
  /\ WF_waveVars(playing /\ W!audrvUpdate /\ UNCHANGED playing)
  /\ WF_waveVars(playing /\ W!Consume /\ UNCHANGED playing)

(* Of more buffers than the ring of a voice holds, each comes to its turn   *)
(* and the program gets it back.                                           *)
BufferPlayed == W!BufferPlayed
(* A thread parked by mutexLock gets the mutex in the end.  The threads are *)
(* interchangeable, so it is enough to follow one of them.                 *)
ParkedAcquires == Acquires(t1)

(* A thread signalled by condvarWake returns from condvarWaitTimeout with  *)
(* the mutex, its timeout firing at the same time or not; the same is true *)
(* of any of the threads.                                                  *)
SignalledReturns == Returns(t1)
=============================================================================
