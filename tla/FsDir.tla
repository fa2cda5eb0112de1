------------------------------- MODULE FsDir -------------------------------
(***************************************************************************)
(* A directory of runtime/devices/fs_dev.c, which is read in batches.      *)
(***************************************************************************)
EXTENDS Integers, Sequences

CONSTANTS
  Listing,  \* what the directory holds: may an entry be delivered?
  Batch     \* 32, the entries of a batch

FsDirAssumption == Listing \in Seq(BOOLEAN) /\ Batch \in Nat \ {0}

VARIABLES
  directory,  \* fsdev_dir_t, and how many entries the file system has passed on
  delivered   \* the entries that the program got, negative for an error

vars == <<directory, delivered>>

Init == directory = [is |-> FALSE, index |-> -1, size |-> 0, read |-> 0] /\ delivered = <<>>

fsdev_diropen ==
  /\ ~directory.is
  /\ directory' = [is |-> TRUE, index |-> -1, size |-> 0, read |-> 0]
  /\ delivered' = <<>>

(* fsdev_dirnext: an entry of this batch, or the first of the next. *)
Entry(i) == IF Listing[i] THEN i ELSE -i

NextOfBatch ==
  /\ directory.is /\ directory.index + 1 < directory.size
  /\ directory' = [directory EXCEPT !.index = @ + 1]
  /\ delivered' = Append(delivered, Entry(directory.read - directory.size + directory.index + 2))

NextBatch ==
  LET rest == Len(Listing) - directory.read
      n == IF rest < Batch THEN rest ELSE Batch
  IN  /\ directory.is /\ directory.index + 1 >= directory.size
      /\ \/ /\ n > 0
            /\ directory' = [directory EXCEPT !.index = 0, !.size = n, !.read = @ + n]
            /\ delivered' = Append(delivered, Entry(directory.read + 1))
         \/ \* the end, or a failure
            /\ directory' = [directory EXCEPT !.index = -1, !.size = 0]
            /\ UNCHANGED delivered

fsdev_dirclose ==
  /\ directory.is
  /\ directory' = [directory EXCEPT !.is = FALSE]
  /\ UNCHANGED delivered

Next == fsdev_diropen \/ NextOfBatch \/ NextBatch \/ fsdev_dirclose

Spec == Init /\ [][Next]_vars

-----------------------------------------------------------------------------
Directories == [is : BOOLEAN, index : -1..Batch - 1, size : 0..Batch, read : 0..Len(Listing)]

TypeOK == directory \in Directories /\ delivered \in Seq(Int)

(* The entries come one by one in their order, whatever batches failed in  *)
(* between; one that cannot be delivered is passed over with an error.     *)
EntriesInOrder ==
  directory.is =>
    /\ delivered = [i \in DOMAIN delivered |-> Entry(i)]
    /\ Len(delivered) \in directory.read - directory.size..Len(Listing)

-----------------------------------------------------------------------------
(* Of this batch, the entries up to the index are delivered. *)
BatchFits ==
  /\ directory.index + 1 <= directory.size /\ directory.size <= directory.read
  /\ Len(delivered) = directory.read - directory.size + directory.index + 1

Ordered == \A i \in 1..Len(delivered) : delivered[i] = Entry(i)

IInv == TypeOK /\ BatchFits /\ Ordered
=============================================================================
