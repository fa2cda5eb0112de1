------------------------------- MODULE FsFile -------------------------------
(***************************************************************************)
(* A file of runtime/devices/fs_dev.c.  Its position is kept here and not  *)
(* by the file system, which every request tells it.  Memory that the file *)
(* system does not take is copied in pieces, each of which may fail.       *)
(*                                                                         *)
(* A byte is where it comes from: which write and its place in it.         *)
(***************************************************************************)
EXTENDS Integers, Sequences

CONSTANTS
  Lengths,    \* how much the program reads or writes at once
  Piece,      \* 8192, the buffer for memory that the file system does not take
  MaxSize,    \* bound: no write begins further on
  MaxWrites   \* bound: how often the program writes

FsFileAssumption ==
  /\ Lengths \subseteq Nat /\ MaxSize \in Nat /\ MaxWrites \in Nat /\ Piece \in Nat \ {0}

VARIABLES
  exists, content,  \* the file
  file,             \* fsdev_file_t
  call,             \* the read or write under way
  writes            \* how many there were

vars == <<exists, content, file, call, writes>>

Modes == {"read", "write", "both"}   \* O_RDONLY, O_WRONLY, O_RDWR
NoFile == [is |-> FALSE, mode |-> "read", append |-> FALSE, offset |-> 0]
(* A call: where it began, what the program gave or may get at most, what  *)
(* has been transferred, and in the end the number that is returned.       *)
NoCall == [kind |-> "none", busy |-> FALSE, start |-> 0, data |-> <<>>, want |-> 0, done |-> <<>>,
           result |-> 0]
Hole == [write |-> 0, at |-> 0]

Init ==
  /\ exists \in BOOLEAN /\ content = <<>>
  /\ file = NoFile /\ call = NoCall /\ writes = 0

-----------------------------------------------------------------------------
(* fsdev_open.  Creating a file that exists fails, which only matters for  *)
(* O_EXCL; the file that was created remains if a later request fails.     *)
fsdev_open(mode, append, creat, excl, trunc) ==
  /\ ~file.is /\ ~call.busy
  /\ mode = "read" => ~append
  /\ \E created \in IF creat THEN {TRUE, FALSE} ELSE {FALSE}, opened \in BOOLEAN, cut \in BOOLEAN :
       LET empty == trunc /\ mode # "read"
           there == exists \/ created
           goesOn == creat /\ excl => created
       IN  /\ created => ~exists
           /\ opened => there /\ goesOn
           /\ cut => opened /\ empty
           /\ exists' = there
           /\ content' = IF cut THEN <<>> ELSE content
           /\ file' = IF opened /\ (empty => cut)
                      THEN [is |-> TRUE, mode |-> mode, append |-> append, offset |-> 0]
                      ELSE file
           /\ UNCHANGED <<call, writes>>

fsdev_close ==
  /\ file.is /\ ~call.busy
  /\ file' = NoFile /\ call' = NoCall
  /\ UNCHANGED <<exists, content, writes>>

Least(m, n) == IF m < n THEN m ELSE n

(* fsFileWrite and fsFileRead, of the file system. *)
Written(at, data) ==
  [i \in 1..(IF at + Len(data) > Len(content) THEN at + Len(data) ELSE Len(content)) |->
     IF i \in at + 1..at + Len(data) THEN data[i - at]
     ELSE IF i <= Len(content) THEN content[i] ELSE Hole]
AtMost(at, n) == SubSeq(content, at + 1, Least(at + n, Len(content)))

Transferred(c) == [c EXCEPT !.busy = FALSE, !.result = Len(c.done)]
Failed(c) == [c EXCEPT !.busy = FALSE, !.result = -1]

-----------------------------------------------------------------------------
(* fsdev_write.  To append is to write where the file ends now, if that is *)
(* known.  The file system may not take the program's memory.              *)
fsdev_write(n) ==
  LET data == [i \in 1..n |-> [write |-> writes + 1, at |-> i]]
      start == IF file.append THEN Len(content) ELSE file.offset
      begun == [NoCall EXCEPT !.kind = "write", !.start = start, !.data = data, !.want = n]
  IN  /\ file.is /\ ~call.busy /\ file.mode # "read" /\ writes < MaxWrites /\ start <= MaxSize
      /\ writes' = writes + 1
      /\ \/ /\ call' = Failed(begun)
            /\ file' \in {file, [file EXCEPT !.offset = start]}
            /\ file.append \/ file' = file
            /\ UNCHANGED content
         \/ /\ content' = Written(start, data)
            /\ call' = Transferred([begun EXCEPT !.done = data])
            /\ file' = [file EXCEPT !.offset = start + n]
         \/ /\ call' = [begun EXCEPT !.busy = TRUE]
            /\ file' = [file EXCEPT !.offset = start]
            /\ UNCHANGED content
      /\ UNCHANGED <<exists>>

BadWritePiece ==
  LET done == Len(call.done)
      n == Least(call.want - done, Piece)
      piece == SubSeq(call.data, done + 1, done + n)
  IN  /\ call.busy /\ call.kind = "write" /\ done < call.want
      /\ content' = Written(file.offset, piece)
      /\ call' = [call EXCEPT !.done = @ \o piece]
      /\ UNCHANGED <<exists, file, writes>>

(* A turn of the loop of fsdev_write_safe. *)
WritePiece ==
  LET done == Len(call.done)
      n == Least(call.want - done, Piece)
      piece == SubSeq(call.data, done + 1, done + n)
  IN  /\ call.busy /\ call.kind = "write" /\ done < call.want
      /\ \/ /\ content' = Written(file.offset, piece)
            /\ file' = [file EXCEPT !.offset = @ + n]
            /\ call' = [call EXCEPT !.done = @ \o piece]
         \/ /\ call' = IF done > 0 THEN Transferred(call) ELSE Failed(call)
            /\ UNCHANGED <<file, content>>
      /\ UNCHANGED <<exists, writes>>

fsdev_read(n) ==
  LET begun == [NoCall EXCEPT !.kind = "read", !.start = file.offset, !.want = n]
      bytes == AtMost(file.offset, n)
  IN  /\ file.is /\ ~call.busy /\ file.mode # "write"
      /\ \/ /\ call' = Transferred([begun EXCEPT !.done = bytes])
            /\ file' = [file EXCEPT !.offset = @ + Len(bytes)]
         \/ call' = Failed(begun) /\ UNCHANGED file
         \/ call' = [begun EXCEPT !.busy = TRUE] /\ UNCHANGED file
      /\ UNCHANGED <<exists, content, writes>>

(* A turn of the loop of fsdev_read_safe.  At the end of the file it reads *)
(* nothing, and turns again.                                               *)
ReadPiece ==
  LET done == Len(call.done)
      bytes == AtMost(file.offset, Least(call.want - done, Piece))
  IN  /\ call.busy /\ call.kind = "read" /\ done < call.want
      /\ \/ /\ file' = [file EXCEPT !.offset = @ + Len(bytes)]
            /\ call' = [call EXCEPT !.done = @ \o bytes]
         \/ /\ call' = IF done > 0 THEN Transferred(call) ELSE Failed(call)
            /\ UNCHANGED file
      /\ UNCHANGED <<exists, content, writes>>

(* Either loop, when all is transferred. *)
LastPiece ==
  /\ call.busy /\ Len(call.done) = call.want
  /\ call' = Transferred(call)
  /\ UNCHANGED <<exists, content, file, writes>>

(* fsdev_seek, which does not look whether the sum overflows. *)
fsdev_seek(pos, whence) ==
  LET from == CASE whence = "set" -> 0 [] whence = "cur" -> file.offset
                [] whence = "end" -> Len(content)
  IN  /\ file.is /\ ~call.busy
      /\ from + pos \in 0..MaxSize
      /\ file' = [file EXCEPT !.offset = from + pos]
      /\ call' = NoCall
      /\ UNCHANGED <<exists, content, writes>>

fsdev_ftruncate(n) ==
  /\ file.is /\ ~call.busy /\ file.mode # "read"
  /\ content' = [i \in 1..n |-> IF i <= Len(content) THEN content[i] ELSE Hole]
  /\ call' = NoCall
  /\ UNCHANGED <<exists, file, writes>>

Next ==
  \/ \E mode \in Modes, append, creat, excl, trunc \in BOOLEAN :
       fsdev_open(mode, append, creat, excl, trunc)
  \/ fsdev_close
  \/ \E n \in Lengths : fsdev_write(n) \/ fsdev_read(n)
  \/ WritePiece \/ ReadPiece \/ LastPiece
  \/ \E pos \in {-1, 0, 1}, whence \in {"set", "cur", "end"} : fsdev_seek(pos, whence)
  \/ \E n \in 0..MaxSize : fsdev_ftruncate(n)

Spec == Init /\ [][Next]_vars

-----------------------------------------------------------------------------
Bytes == [write : Nat, at : Nat]
Files == [is : BOOLEAN, mode : Modes, append : BOOLEAN, offset : Nat]
Calls == [kind : {"none", "read", "write"}, busy : BOOLEAN, start : Nat, data : Seq(Bytes),
          want : Nat, done : Seq(Bytes), result : Int]

TypeOK ==
  /\ exists \in BOOLEAN /\ content \in Seq(Bytes) /\ writes \in Nat
  /\ file \in Files /\ call \in Calls

(* Between two calls the number a call returned is the number of bytes     *)
(* that it moved, in their places, and by which the position is further;   *)
(* a call that failed moved nothing.  Pieces, failures after some of them, *)
(* appending and the end of the file make no difference.                   *)
TransferExact ==
  ~call.busy /\ call.kind # "none" =>
    /\ call.result = -1 => call.done = <<>>
    /\ call.result # -1 =>
         /\ call.result = Len(call.done) /\ call.result <= call.want
         /\ file.offset = call.start + call.result
         /\ AtMost(call.start, call.result) = call.done
         /\ call.kind = "write" => call.done = SubSeq(call.data, 1, call.result)

-----------------------------------------------------------------------------
(* What a call has moved so far is in its place, and the position after it.*)
InPlace ==
  /\ Len(call.done) <= call.want
  /\ call.busy \/ call.result # -1 => file.offset = call.start + Len(call.done)
  /\ \A k \in 1..Len(call.done) :
       call.start + k <= Len(content) /\ content[call.start + k] = call.done[k]

(* A write takes what the program gave, in its order. *)
OfData ==
  call.kind = "write" =>
    Len(call.data) = call.want /\ \A k \in 1..Len(call.done) : call.data[k] = call.done[k]

Answered ==
  ~call.busy => call.result = Len(call.done) \/ (call.result = -1 /\ call.done = <<>>)

IInv ==
  /\ TypeOK
  /\ call.kind = "none" => ~call.busy
  /\ call.kind # "none" => file.is /\ InPlace /\ OfData /\ Answered
=============================================================================
