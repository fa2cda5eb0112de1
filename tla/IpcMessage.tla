----------------------------- MODULE IpcMessage -----------------------------
(***************************************************************************)
(* The messages of kernel/ipc.h.  Buffers, statics, handles and objects    *)
(* are collected in an IpcCommand, in arrays that hold several kinds one   *)
(* after the other; ipcPrepareHeader lays them out in the thread's message *)
(* area; the other side finds them by counting words.  At the end are the  *)
(* forms of the requests that the services make of such commands.          *)
(*                                                                         *)
(* An address is a number, 0 for NULL; a tag stands for the type of a      *)
(* buffer or the index of a static.  The bits of a descriptor are left     *)
(* out, its words are not.  Offsets are in words of four bytes.            *)
(***************************************************************************)
EXTENDS Naturals, Sequences, SequencesExt

IPC_MAX_BUFFERS == 8
IPC_MAX_OBJECTS == 8
TlsWords == 64

(* The arrays of a command and the kinds each holds, in their order. *)
Holds == [buffers |-> <<"send", "recv", "exch">>, statics |-> <<"in", "out">>,
          handles |-> <<"copy", "move">>]
Kinds == UNION {ToSet(Holds[a]) : a \in DOMAIN Holds}

Null == [addr |-> 0, tag |-> 0]

ipcInitialize ==
  [items |-> [a \in DOMAIN Holds |-> [i \in 0..IPC_MAX_BUFFERS - 1 |-> Null]],
   num |-> [k \in Kinds |-> 0], pid |-> FALSE, ids |-> <<>>]

None == [pid |-> FALSE, handles |-> <<>>, statics |-> <<>>, buffers |-> <<>>, numOut |-> 0,
         raw |-> 0, this |-> 0, ids |-> <<>>, rc |-> "none"]

(* How many items of the first i kinds of array a the command has. *)
Count(c, a, i) == FoldSeq(LAMBDA k, n : c.num[k] + n, 0, SubSeq(Holds[a], 1, i))
Total(c, a) == Count(c, a, Len(Holds[a]))

(* Adds an item of kind number i of array a after those of the kinds       *)
(* before it and those of its own.                                         *)
BadPut(c, a, i, item) == [c EXCEPT !.items[a][c.num[Holds[a][i]]] = item, !.num[Holds[a][i]] = @ + 1]
Put(c, a, i, item) == [c EXCEPT !.items[a][Count(c, a, i)] = item, !.num[Holds[a][i]] = @ + 1]

Plain(item) == [addr |-> item.addr, tag |-> item.tag]

-----------------------------------------------------------------------------
(* The message, word by word: an item stands in the first of its words. *)
Fill(n) == [i \in 1..n |-> Null]
Spread(items, width) == FlattenSeq([i \in DOMAIN items |-> <<items[i]>> \o Fill(width - 1)])
Items(c, a, from, n) == [i \in 1..n |-> c.items[a][from + i - 1]]
Overwrite(words, at, new) ==
  [o \in DOMAIN words |-> IF o \in at + 1..at + Len(new) THEN new[o - at] ELSE words[o]]

(* The raw data begins at a multiple of 16 bytes. *)
Aligned(offset) == ((offset + 3) \div 4) * 4

IsSpecial(c) == c.pid \/ Total(c, "handles") > 0

(* What comes before the raw data. *)
Descriptors(c) ==
  Fill(2)
    \o (IF IsSpecial(c)
        THEN Fill(IF c.pid THEN 3 ELSE 1) \o Items(c, "handles", 0, Total(c, "handles"))
        ELSE <<>>)
    \o Spread(Items(c, "statics", 0, c.num["in"]), 2)
    \o Spread(Items(c, "buffers", 0, Total(c, "buffers")), 3)

(* The sizes of the receive statics, two in a word, follow room for the    *)
(* raw data and its padding; after them come their descriptors.  data is   *)
(* where the caller is told to put its raw data.                           *)
ipcPrepareHeader(c, size) ==
  LET out == c.num["out"]
      rawWords == size + 4 + (2 * out + 3) \div 4
  IN  [num |-> c.num, special |-> IsSpecial(c), pid |-> c.pid, rawWords |-> rawWords,
       outField |-> IF out > 0 THEN out + 2 ELSE 0, data |-> Aligned(Len(Descriptors(c))),
       words |-> Descriptors(c) \o Fill(rawWords) \o Spread(Items(c, "statics", c.num["in"], out), 2)]

(* In a domain the raw data is between a header of four words and the      *)
(* objects.  The header of an answer, which the server lays out, differs   *)
(* from that of a request only in where it has the number of objects.      *)
ipcPrepareHeaderForDomain(c, size) ==
  LET m == ipcPrepareHeader(c, size + 4 + Len(c.ids))
      header == <<[addr |-> size, tag |-> Len(c.ids)]>>
      objects == [i \in DOMAIN c.ids |-> [addr |-> c.ids[i], tag |-> 0]]
  IN  [m EXCEPT !.data = @ + 4,
                !.words = Overwrite(Overwrite(@, m.data, header), m.data + 4 + size, objects)]

-----------------------------------------------------------------------------
Least(m, n) == IF m < n THEN m ELSE n

(* n items of the message, one every width words. *)
Read(m, at, n, width) == [i \in 1..n |-> m.words[at + (i - 1) * width + 1]]

(* 3 and more is two more than the number of statics, 2 is one inline. *)
Fewer(n) == IF n >= 2 THEN n - 1 ELSE n

ipcParse(m) ==
  LET handles == IF m.special THEN Total(m, "handles") ELSE 0
      atHandles == IF m.special THEN IF m.pid THEN 5 ELSE 3 ELSE 2
      atStatics == atHandles + handles
      atBuffers == atStatics + 2 * m.num["in"]
      buffers == Total(m, "buffers")
      Direction(i) == IF i <= m.num["send"] THEN "send"
                      ELSE IF i <= m.num["send"] + m.num["recv"] THEN "recv" ELSE "exch"
      read == Read(m, atBuffers, Least(buffers, IPC_MAX_BUFFERS), 3)
  IN  [None EXCEPT
        !.pid = m.pid, !.numOut = Fewer(Fewer(m.outField)),
        !.handles = Read(m, atHandles, Least(handles, IPC_MAX_OBJECTS), 1),
        !.statics = Read(m, atStatics, Least(m.num["in"], IPC_MAX_BUFFERS), 2),
        !.buffers = [i \in DOMAIN read |-> [kind |-> Direction(i), addr |-> read[i].addr, tag |-> read[i].tag]],
        !.raw = Aligned(atBuffers + 3 * buffers), !.rc = "ok"]

(* The objects of a domain message; they must lie in the message area. *)
WithObjects(r, m, n, at) ==
  LET count == Least(n, IPC_MAX_OBJECTS)
  IN  IF at + count >= TlsWords
      THEN [r EXCEPT !.rc = "DomainMessageTooManyObjectIds"]
      ELSE [r EXCEPT !.ids = [i \in 1..count |-> Read(m, at, count, 1)[i].addr]]

ipcParseDomainRequest(m) ==
  LET r == ipcParse(m)
      header == m.words[r.raw + 1]
  IN  WithObjects([r EXCEPT !.raw = @ + 4], m, header.tag, r.raw + 4 + header.addr)

ipcParseDomainResponse(m, size) ==
  LET r == ipcParse(m)
  IN  WithObjects([r EXCEPT !.raw = @ + 4], m, m.words[r.raw + 1].tag, r.raw + 4 + size)

-----------------------------------------------------------------------------
(* How the functions of services/*.c build their requests.  A function is  *)
(* the set of the requests that it makes of itself or through its helpers, *)
(* over all its arguments; a helper takes the session, the number of the   *)
(* command, or the object to create.  What a function checks before it     *)
(* asks, other than the version of the system, is left out, and so are the *)
(* values it sends and receives.                                           *)

LastVersion == 9   \* bound: every version after it is treated alike

(* A request is made by ipcPrepareHeader and ipcParse, for a plain session,*)
(* or by serviceIpcPrepareHeader and serviceIpcParse, which ask what the   *)
(* session is: to the interface on, with the number id, so many words of   *)
(* raw data, and the items added to the command, in order.  Versions from  *)
(* to to of the system send it.  It creates the object gives, if not "".   *)
Request(form, on, id, words, items) ==
  {[form |-> form, on |-> on, id |-> id, raw |-> words, items |-> items,
    from |-> 1, to |-> LastVersion, gives |-> "", creates |-> ""]}

Ask(on, id, words, items) == Request("ipc", on, id, words, items)
AskService(on, id, words, items) == Request("service", on, id, words, items)

(* The object is taken from the answer by serviceCreate, which wants a     *)
(* handle, or by serviceCreateSubservice, which asks what the session is.  *)
Creating(obj, R) == {[r EXCEPT !.gives = obj, !.creates = "serviceCreate"] : r \in R}
CreatingSubservice(obj, R) ==
  {[r EXCEPT !.gives = obj, !.creates = "serviceCreateSubservice"] : r \in R}

(* To another session. *)
On(srv, R) == {[r EXCEPT !.on = srv] : r \in R}

(* hosversionAtLeast(v, 0, 0) and hosversionBefore(v, 0, 0). *)
Since(v, R) == {[r EXCEPT !.from = IF @ < v THEN v ELSE @] : r \in R}
BadBefore(v, R) == R
Before(v, R) == {[r EXCEPT !.to = IF @ < v THEN @ ELSE v - 1] : r \in R}
=============================================================================
