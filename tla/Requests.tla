------------------------------ MODULE Requests ------------------------------
(***************************************************************************)
(* A program that sends the requests of services/*.c, through whatever     *)
(* interfaces they lead to, to a system of some version.  The session of a *)
(* service may be a domain, whose interfaces share one handle; whether a   *)
(* function asks for that is in the form of its request.  The message is   *)
(* laid out and read as IpcMessage says.                                   *)
(***************************************************************************)
EXTENDS IpcMessage, FiniteSets

CONSTANTS
  Commands,  \* for every interface, the requests that the functions send to it
  Roots,     \* interfaces that are not given by another
  Domains,   \* those of them that serviceConvertToDomain converts
  Withdrawn  \* by version, requests of functions that a header says it does not have

RequestsAssumption ==
  /\ Roots \subseteq DOMAIN Commands /\ Domains \subseteq Roots
  /\ \A on \in DOMAIN Commands : \A r \in Commands[on] :
        r.on = on /\ r.gives \in DOMAIN Commands \cup {""}
  /\ DOMAIN Withdrawn = 1..LastVersion

VARIABLES
  version,   \* of the system, hosversionGet()
  session,   \* the interface that the program uses, and whether in a domain
  stage,     \* of the request
  request,   \* the last one sent
  area,      \* the message area
  read,      \* what the server read
  taken      \* the objects that the program took from the answer

vars == <<version, session, stage, request, area, read, taken>>

NoRequest == CHOOSE r \in Ask("", 0, 0, <<>>) : TRUE
NoArea == [num |-> [k \in Kinds |-> 0], special |-> FALSE, pid |-> FALSE, rawWords |-> 0,
           outField |-> 0, data |-> 0, words |-> <<>>]

(* A service that cannot be converted is closed by its initialization. *)
Init ==
  /\ version \in 1..LastVersion
  /\ \E root \in Roots : session = [on |-> root, domain |-> root \in Domains]
  /\ stage = "idle" /\ request = NoRequest /\ area = NoArea /\ read = None /\ taken = <<>>

-----------------------------------------------------------------------------
(* The items of a request, added in order; the number of an item stands    *)
(* for its address.  serviceSendObject adds objects of a domain only.      *)
ArrayOf(kind) == CHOOSE a \in DOMAIN Holds : kind \in ToSet(Holds[a])
NumberOf(kind) == CHOOSE i \in DOMAIN Holds[ArrayOf(kind)] : Holds[ArrayOf(kind)][i] = kind
Collect(c, item) ==
  IF item.kind = "pid" THEN [c EXCEPT !.pid = TRUE]
  ELSE IF item.kind = "object" THEN [c EXCEPT !.ids = IF session.domain THEN Append(@, item.at) ELSE @]
  ELSE Put(c, ArrayOf(item.kind), NumberOf(item.kind), [addr |-> item.at, tag |-> 0])
Command(r) ==
  FoldLeft(Collect, ipcInitialize, [i \in DOMAIN r.items |-> [kind |-> r.items[i], at |-> i]])

(* A function whose request has the form "ipc" does not ask whether the    *)
(* session is a domain's.                                                  *)
BadPrepared(r) == ipcPrepareHeader(Command(r), r.raw)  \* mutant: nor does any other
Prepared(r) ==
  IF r.form = "service" /\ session.domain
  THEN ipcPrepareHeaderForDomain(Command(r), r.raw)
  ELSE ipcPrepareHeader(Command(r), r.raw)

Asked(on) == {r \in Commands[on] : version \in r.from..r.to}

Send(r) ==
  /\ stage = "idle"
  /\ request' = r /\ area' = Prepared(r) /\ stage' = "sent"
  /\ UNCHANGED <<version, session, read, taken>>

Receive ==
  /\ stage = "sent"
  /\ read' = IF session.domain THEN ipcParseDomainRequest(area) ELSE ipcParse(area)
  /\ stage' = "received"
  /\ UNCHANGED <<version, session, request, area, taken>>

(* The server puts an object in the list of the domain, or the handle of a *)
(* new session into the message; the function takes one or the other.      *)
TheObject == 1
Answer ==
  LET empty == ipcInitialize
      parsed ==
        IF session.domain
        THEN ipcParseDomainResponse(
               ipcPrepareHeaderForDomain([empty EXCEPT !.ids = <<TheObject>>], 4), 4)
        ELSE ipcParse(
               ipcPrepareHeader(Put(empty, "handles", 2, [addr |-> TheObject, tag |-> 0]), 4))
      Handles(p) == [i \in DOMAIN p.handles |-> p.handles[i].addr]
  IN  /\ stage = "received" /\ request.gives # ""
      /\ taken' = IF request.creates = "serviceCreateSubservice" /\ session.domain
                  THEN parsed.ids ELSE Handles(parsed)
      /\ stage' = "answered"
      /\ UNCHANGED <<version, session, request, area, read>>

Reset == request' = NoRequest /\ area' = NoArea /\ read' = None /\ taken' = <<>> /\ stage' = "idle"

(* The program uses what it was given, or goes on with what it has: there  *)
(* was nothing to give, or the server returned an error.                   *)
Use ==
  /\ stage = "answered"
  /\ session' = [on |-> request.gives,
                 domain |-> session.domain /\ request.creates = "serviceCreateSubservice"]
  /\ Reset
  /\ UNCHANGED version

Stay ==
  /\ stage \in {"received", "answered"}
  /\ Reset
  /\ UNCHANGED <<version, session>>

Next ==
  \/ \E r \in Asked(session.on) : Send(r)
  \/ Receive \/ Answer \/ Use \/ Stay

Spec == Init /\ [][Next]_vars

-----------------------------------------------------------------------------
TypeOK ==
  /\ version \in 1..LastVersion
  /\ session.on \in DOMAIN Commands /\ session.domain \in BOOLEAN
  /\ stage \in {"idle", "sent", "received", "answered"}
  /\ request = NoRequest <=> stage = "idle"

(* To a server an interface and a number mean one thing in one version of  *)
(* the system, whichever functions send it: those that the version has.    *)
OneMeaning ==
  LET Same == {r \in Asked(session.on) \ Withdrawn[version] : r.id = request.id}
  IN  stage = "sent" /\ request \notin Withdrawn[version] =>
        Cardinality({<<r.raw, r.items, r.gives>> : r \in Same}) = 1

(* What is sent fits, and the server finds in it what the function added,  *)
(* as what it was added, and the raw data where the function put it: a     *)
(* server looks for it as the session wants, a function that does not ask  *)
(* what the session is puts it where a plain one wants.                    *)
ItemsFound ==
  stage = "received" =>
    LET Added(k) == SelectSeq([i \in DOMAIN request.items |-> i], LAMBDA i : request.items[i] = k)
        Addresses(list) == [i \in DOMAIN list |-> list[i].addr]
        Found(k) == Addresses(SelectSeq(read.buffers, LAMBDA x : x.kind = k))
    IN  /\ Len(area.words) <= TlsWords /\ read.rc = "ok"
        /\ read.pid = (Len(Added("pid")) > 0)
        /\ \A k \in ToSet(Holds.buffers) : Found(k) = Added(k)
        /\ Addresses(read.statics) = Added("in") /\ read.numOut = Len(Added("out"))
        /\ Addresses(read.handles) = Added("copy") \o Added("move")
        /\ read.ids = IF session.domain THEN Added("object") ELSE <<>>
        /\ read.raw = area.data

ObjectTaken == stage = "answered" => taken = <<TheObject>>
=============================================================================
