-------------------------------- MODULE Ipc --------------------------------
(***************************************************************************)
(* A program that collects a command, sends it and reads the answer, with  *)
(* the calls of kernel/ipc.h and those of services/sm.h that choose        *)
(* between plain sessions and domains.                                     *)
(***************************************************************************)
EXTENDS IpcMessage

CONSTANTS
  MaxAdds,     \* bound: how often a program adds something to a command
  RawSizes,    \* sizes of the raw data, in words
  AnyOrder,    \* arrays to which the program may add the kinds in any order
  PointerSize  \* ipc_buffer_size, which the server was asked for; 0 if not

IpcAssumption ==
  /\ MaxAdds \in Nat /\ RawSizes \subseteq Nat /\ AnyOrder \subseteq {"buffers", "statics", "handles"}
  /\ PointerSize \in Nat

VARIABLES
  domain,   \* is the session one of a domain?
  phase,    \* of the command
  cmd,      \* the IpcCommand
  added,    \* what the program added, in order
  message,  \* the message area
  raw,      \* where the program puts its raw data, and how much
  parsed,   \* IpcParsedCommand of the receiver
  answer    \* the objects of the answer, and what the program parsed

vars == <<domain, phase, cmd, added, message, raw, parsed, answer>>

Init ==
  /\ domain \in BOOLEAN /\ phase = "adding" /\ cmd = ipcInitialize /\ added = <<>>
  /\ message = [num |-> cmd.num, special |-> FALSE, pid |-> FALSE, rawWords |-> 0, outField |-> 0,
                data |-> 0, words |-> <<>>]
  /\ raw = [at |-> 0, size |-> 0]
  /\ parsed = None /\ answer = [sent |-> <<>>, got |-> None]

-----------------------------------------------------------------------------
(* The program may add an item of kind number i to array a. *)
InTurn(a, i) ==
  /\ phase = "adding" /\ Len(added) < MaxAdds
  /\ a \notin AnyOrder => \A j \in i + 1..Len(Holds[a]) : cmd.num[Holds[a][j]] = 0

Item(k, tag) == [kind |-> k, addr |-> Len(added) + 1, tag |-> tag]

(* One of ipcAddSendBuffer, ipcAddRecvBuffer, ipcAddExchBuffer,            *)
(* ipcAddSendStatic, ipcAddRecvStatic, ipcSendHandleCopy and               *)
(* ipcSendHandleMove.                                                      *)
Add(a, i, tag) ==
  LET item == Item(Holds[a][i], tag)
  IN  /\ InTurn(a, i)
      /\ cmd' = Put(cmd, a, i, Plain(item))
      /\ added' = Append(added, item)
      /\ UNCHANGED <<domain, phase, message, raw, parsed, answer>>

(* ipcAddSendSmart, ipcAddRecvSmart: a static if the server has room for   *)
(* it, else a buffer, and an empty one of the other.                       *)
AddSmart(i, size, index) ==
  LET fits == PointerSize # 0 /\ size <= PointerSize
      buffer == [Item(Holds.buffers[i], 0) EXCEPT !.addr = IF fits THEN 0 ELSE @]
      static == [Item(Holds.statics[i], index) EXCEPT !.addr = IF fits THEN @ ELSE 0]
  IN  /\ InTurn("buffers", i) /\ InTurn("statics", i)
      /\ cmd' = Put(Put(cmd, "buffers", i, Plain(buffer)), "statics", i, Plain(static))
      /\ added' = added \o <<buffer, static>>
      /\ UNCHANGED <<domain, phase, message, raw, parsed, answer>>

ipcSendPid ==
  /\ phase = "adding" /\ ~cmd.pid
  /\ cmd' = [cmd EXCEPT !.pid = TRUE]
  /\ UNCHANGED <<domain, phase, added, message, raw, parsed, answer>>

(* Only objects of the domain of the session can be sent. *)
serviceSendObject ==
  /\ phase = "adding" /\ domain /\ Len(added) < MaxAdds
  /\ cmd' = [cmd EXCEPT !.ids = Append(@, Len(added) + 1)]
  /\ added' = Append(added, Item("object", 0))
  /\ UNCHANGED <<domain, phase, message, raw, parsed, answer>>

serviceIpcPrepareHeader(size) ==
  LET m == IF domain THEN ipcPrepareHeaderForDomain(cmd, size) ELSE ipcPrepareHeader(cmd, size)
  IN  /\ phase = "adding"
      /\ Len(m.words) <= TlsWords   \* what callers rely on: nothing checks it
      /\ message' = m
      /\ raw' = [at |-> m.data, size |-> size]
      /\ phase' = "sent"
      /\ UNCHANGED <<domain, cmd, added, parsed, answer>>

(* The other side reads the request. *)
Receive ==
  /\ phase = "sent"
  /\ parsed' = IF domain THEN ipcParseDomainRequest(message) ELSE ipcParse(message)
  /\ phase' = "received"
  /\ UNCHANGED <<domain, cmd, added, message, raw, answer>>

(* It answers with n objects, which serviceCreateSubservice takes out. *)
Answer(n, size) ==
  LET sent == [i \in 1..n |-> i]
      empty == ipcInitialize
      c == IF domain THEN [empty EXCEPT !.ids = sent]
           ELSE [empty EXCEPT !.num["move"] = n,
                              !.items["handles"] = [i \in DOMAIN @ |-> IF i < n THEN [addr |-> i + 1, tag |-> 0] ELSE @[i]]]
      m == IF domain THEN ipcPrepareHeaderForDomain(c, size) ELSE ipcPrepareHeader(c, size)
      got == IF domain THEN ipcParseDomainResponse(m, size) ELSE ipcParse(m)
  IN  /\ phase = "received"
      /\ answer' = [sent |-> sent, got |-> got]
      /\ phase' = "answered"
      /\ UNCHANGED <<domain, cmd, added, message, raw, parsed>>

serviceCreateSubservice(i) == IF domain THEN answer.got.ids[i] ELSE answer.got.handles[i].addr

Next ==
  \/ \E a \in DOMAIN Holds : \E i \in DOMAIN Holds[a] : Add(a, i, i)
  \/ \E i \in {1, 2}, size \in {1, 2} : AddSmart(i, size, 0)
  \/ ipcSendPid \/ serviceSendObject
  \/ \E size \in RawSizes : serviceIpcPrepareHeader(size)
  \/ Receive
  \/ \E n \in 0..2, size \in RawSizes : Answer(n, size)

Spec == Init /\ [][Next]_vars

-----------------------------------------------------------------------------
TypeOK ==
  /\ domain \in BOOLEAN /\ phase \in {"adding", "sent", "received", "answered"}
  /\ \A k \in Kinds : cmd.num[k] \in 0..MaxAdds + 1
  /\ Len(message.words) <= TlsWords

(* What was added of a kind, in order. *)
AddedOf(k) ==
  LET of == SelectSeq(added, LAMBDA x : x.kind = k) IN [i \in DOMAIN of |-> Plain(of[i])]

(* The other side finds what the program added, nothing more, each as the  *)
(* kind it was added as, and the raw data where the program puts it.       *)
RequestFound ==
  phase = "received" =>
    LET Found(k) == LET of == SelectSeq(parsed.buffers, LAMBDA x : x.kind = k)
                    IN  [i \in DOMAIN of |-> Plain(of[i])]
        objects == AddedOf("object")
    IN  /\ parsed.rc = "ok" /\ parsed.pid = cmd.pid
        /\ \A k \in ToSet(Holds.buffers) : Found(k) = AddedOf(k)
        /\ parsed.statics = AddedOf("in")
        /\ parsed.numOut = Len(AddedOf("out"))
        /\ parsed.handles = AddedOf("copy") \o AddedOf("move")
        /\ parsed.ids = [i \in DOMAIN objects |-> objects[i].addr]
        /\ parsed.raw = raw.at

(* Receive statics lie where the header says the raw data ends. *)
ReceiveListFound ==
  phase = "received" =>
    Read(message, Len(Descriptors(cmd)) + message.rawWords, cmd.num["out"], 2) = AddedOf("out")

(* The program takes out of an answer the objects that were sent. *)
AnswerFound ==
  phase = "answered" =>
    /\ answer.got.rc = "ok"
    /\ \A i \in DOMAIN answer.sent : serviceCreateSubservice(i) = answer.sent[i]

MessageFound == RequestFound /\ ReceiveListFound /\ AnswerFound
=============================================================================
