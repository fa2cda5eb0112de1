------------------------------ MODULE CallOnce ------------------------------
(***************************************************************************)
(* call_once of runtime/c11-threads.c: a status, a mutex and a condition   *)
(* variable in each flag.  What the code does between taking the mutex and *)
(* releasing or sleeping on it is one step; the function itself runs       *)
(* outside the mutex and may call call_once on other flags.                *)
(***************************************************************************)
EXTENDS Sequences, FiniteSets, Naturals

CONSTANTS
  Threads,
  Flags,     (* the once_flag objects                                      *)
  Calls      (* the flags the function of a flag calls call_once on        *)

(* Assumed of the constant. *)
CallOnceAssumption == Calls \in [Flags -> SUBSET Flags]

VARIABLES
  status,   (* status of each flag: init, progress or done (0, 1, 2)       *)
  runs,     (* how often the function of each flag was entered             *)
  pc,       (* where each thread is                                        *)
  stack,    (* the calls each thread is in, the innermost first            *)
  back      (* the flags each thread has come back from                    *)

vars == <<status, runs, pc, stack, back>>

(*   out      outside call_once                                            *)
(*   func     runs the function of Head(stack)                             *)
(*   asleep   waits on the cond of Head(stack);  woken: wants its mutex    *)
Labels == {"out", "func", "asleep", "woken"}

Init ==
  /\ status = [f \in Flags |-> "init"]
  /\ runs = [f \in Flags |-> 0]
  /\ pc = [t \in Threads |-> "out"]
  /\ stack = [t \in Threads |-> <<>>]
  /\ back = [t \in Threads |-> {}]

-----------------------------------------------------------------------------
(* What a thread may call now. *)
Callable(t) ==
  (CASE pc[t] = "out" -> Flags
     [] pc[t] = "func" -> Calls[Head(stack[t])]
     [] OTHER -> {}) \ back[t]

(* Broken: status stays 0 until the function is back. *)
BadCallFirst(t, f) ==
  /\ f \in Callable(t) /\ status[f] = "init"
  /\ runs' = [runs EXCEPT ![f] = @ + 1]
  /\ pc' = [pc EXCEPT ![t] = "func"]
  /\ stack' = [stack EXCEPT ![t] = <<f>> \o @]
  /\ UNCHANGED <<status, back>>

(* status is 0: the caller runs the function, ... *)
CallFirst(t, f) ==
  /\ f \in Callable(t) /\ status[f] = "init"
  /\ status' = [status EXCEPT ![f] = "progress"]
  /\ runs' = [runs EXCEPT ![f] = @ + 1]
  /\ pc' = [pc EXCEPT ![t] = "func"]
  /\ stack' = [stack EXCEPT ![t] = <<f>> \o @]
  /\ UNCHANGED back

(* Broken: a caller that finds the function running does not wait. *)
BadCallWait(t, f) ==
  /\ f \in Callable(t) /\ status[f] = "progress"
  /\ back' = [back EXCEPT ![t] = @ \cup {f}]
  /\ UNCHANGED <<status, runs, pc, stack>>

(* ... 1: it waits, ... *)
CallWait(t, f) ==
  /\ f \in Callable(t) /\ status[f] = "progress"
  /\ pc' = [pc EXCEPT ![t] = "asleep"]
  /\ stack' = [stack EXCEPT ![t] = <<f>> \o @]
  /\ UNCHANGED <<status, runs, back>>

(* ... 2: it returns. *)
CallDone(t, f) ==
  /\ f \in Callable(t) /\ status[f] = "done"
  /\ back' = [back EXCEPT ![t] = @ \cup {f}]
  /\ UNCHANGED <<status, runs, pc, stack>>

(* The innermost call of t returns to the function it was made from.       *)
Pop(t) ==
  /\ stack' = [stack EXCEPT ![t] = Tail(@)]
  /\ back' = [back EXCEPT ![t] = @ \cup {Head(stack[t])}]

Caller(t) == IF Tail(stack[t]) = <<>> THEN "out" ELSE "func"

Sleepers(f) == {t \in Threads : pc[t] = "asleep" /\ Head(stack[t]) = f}

(* Broken: cnd_signal in the place of cnd_broadcast. *)
BadFinish(t) ==
  /\ pc[t] = "func" /\ Calls[Head(stack[t])] \subseteq back[t]
  /\ status' = [status EXCEPT ![Head(stack[t])] = "done"]
  /\ \E u \in Sleepers(Head(stack[t])) \cup {t} :
       pc' = [pc EXCEPT ![u] = "woken", ![t] = Caller(t)]
  /\ Pop(t)
  /\ UNCHANGED runs

(* The function is back: status = 2 and cnd_broadcast. *)
Finish(t) ==
  /\ pc[t] = "func" /\ Calls[Head(stack[t])] \subseteq back[t]
  /\ status' = [status EXCEPT ![Head(stack[t])] = "done"]
  /\ pc' = [u \in Threads |-> IF u = t THEN Caller(t)
                              ELSE IF u \in Sleepers(Head(stack[t])) THEN "woken"
                              ELSE pc[u]]
  /\ Pop(t)
  /\ UNCHANGED runs

(* while (flag->status == 1) cnd_wait, after a wake-up. *)
Resume(t) ==
  /\ pc[t] = "woken"
  /\ IF status[Head(stack[t])] = "progress"
       THEN pc' = [pc EXCEPT ![t] = "asleep"] /\ UNCHANGED <<stack, back>>
       ELSE pc' = [pc EXCEPT ![t] = Caller(t)] /\ Pop(t)
  /\ UNCHANGED <<status, runs>>

-----------------------------------------------------------------------------
Step(t) ==
  \/ \E f \in Flags : CallFirst(t, f) \/ CallWait(t, f) \/ CallDone(t, f)
  \/ Finish(t) \/ Resume(t)

Next == \E t \in Threads : Step(t)

Spec == Init /\ [][Next]_vars

(* A function that only calls call_once ends.                              *)
FairSpec == Spec /\ \A t \in Threads : WF_vars(Step(t))

-----------------------------------------------------------------------------
(* The type of every variable: a function runs at most once. *)
TypeOK ==
  /\ status \in [Flags -> {"init", "progress", "done"}]
  /\ runs \in [Flags -> 0 .. 1]
  /\ pc \in [Threads -> Labels]
  /\ stack \in [Threads -> Seq(Flags)]
  /\ back \in [Threads -> SUBSET Flags]

(* Nobody comes back from call_once before the function has completed, the *)
(* threads that found it running no more than the others.                  *)
BackMeansDone == \A t \in Threads : \A f \in back[t] : status[f] = "done"

(* Every call comes back when no function needs its own flag, directly or  *)
(* through others.                                                         *)
Returns(t) == pc[t] # "out" ~> pc[t] = "out"

(* A function that was entered is no longer init, so none is entered a     *)
(* second time; a thread waits for a function that was entered, and is in  *)
(* some call wherever it is but outside.                                   *)
EnteredOnce == \A f \in Flags : status[f] = "init" => runs[f] = 0

InACall ==
  \A t \in Threads :
    /\ pc[t] = "out" <=> stack[t] = <<>>
    /\ pc[t] \in {"asleep", "woken"} => status[Head(stack[t])] # "init"

IInv == TypeOK /\ EnteredOnce /\ InACall /\ BackMeansDone
=============================================================================
