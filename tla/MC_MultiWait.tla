---------------------------- MODULE MC_MultiWait ----------------------------
(***************************************************************************)
(* Instances of MultiWait for TLC.                                         *)
(***************************************************************************)
EXTENDS MultiWait, TLC

CONSTANTS t1, t2, e1, e2, m1, h1

MC_Interval == [m \in Timers |-> 2]

(* One wait on every kind of object. *)
MC_Mixed == {<<h1, e1, m1>>}

(* One waitable. *)
MC_OneEvent == {<<e1>>}
MC_OneTimer == {<<m1>>}
=============================================================================
