------------------------------- MODULE Romfs -------------------------------
(***************************************************************************)
(* A mounted RomFS (runtime/devices/romfs_dev.c): paths are followed       *)
(* through hash tables whose buckets are lists, directories are listed     *)
(* through lists of siblings, and files are read at a position kept here.  *)
(*                                                                         *)
(* A path is the sequence of what stands between its slashes: <<>> is the  *)
(* empty path, an empty component at the end stands for a slash there.     *)
(***************************************************************************)
EXTENDS Integers, Sequences, FiniteSets

CONSTANTS
  Entries,     \* the directories and files, numbers
  DirEntries,  \* the directories among them; 0 is the root
  Parent,      \* of each entry; the root is its own
  Name,        \* of each entry, the component that stands for it
  FileSize,    \* of each file
  Hash,        \* calcHash of a directory and a name
  Components,  \* what the program writes between slashes
  MaxPath,     \* bound: the components of a path
  ReadLengths  \* how much the program reads at once

RomfsAssumption ==
  /\ DirEntries \subseteq Entries /\ 0 \in DirEntries /\ Entries \subseteq Nat
  /\ Parent \in [Entries -> DirEntries] /\ Parent[0] = 0
  /\ \A e, f \in Entries \ {0} :
       Parent[e] = Parent[f] /\ Name[e] = Name[f] /\ (e \in DirEntries) = (f \in DirEntries) => e = f

VARIABLES
  cwd,    \* romfs_mount.cwd
  last,   \* the call that looked for a path last, and what it found
  file,   \* romfs_fileobj, and what the last read returned
  iter,   \* romfs_diriter
  listed  \* the entries the program got of it

vars == <<cwd, last, file, iter, listed>>

None == -1       \* romFS_none, and what a call that failed found
Malformed == -2  \* EILSEQ
Self == "."
Up == ".."

Children(dir, S) == {e \in S \ {0} : Parent[e] = dir}
Files == Entries \ DirEntries

(* The image, which mkromfs wrote: entries follow each other in lists, in  *)
(* the order of their numbers.                                             *)
First(S) == IF S = {} THEN None ELSE CHOOSE e \in S : \A f \in S : e <= f
After(e, S) == First({f \in S : f > e})
Bucket(S, h) == {e \in S \ {0} : Hash[Parent[e], Name[e]] = h}
HashTable(S) == [h \in {Hash[x] : x \in DOMAIN Hash} |-> First(Bucket(S, h))]
NextHash(S) == [e \in S |-> After(e, Bucket(S, Hash[Parent[e], Name[e]]))]
Sibling(S) == [e \in S |-> After(e, Children(Parent[e], S))]

DirHashTable == HashTable(DirEntries)
FileHashTable == HashTable(Files)
DirNextHash == NextHash(DirEntries)
FileNextHash == NextHash(Files)
DirSibling == Sibling(DirEntries)
FileSibling == Sibling(Files)

NoLast == [op |-> "none", from |-> 0, path |-> <<>>, absolute |-> FALSE, found |-> None]
NoFile == [is |-> FALSE, entry |-> None, pos |-> 0, start |-> 0, result |-> 0]
NoIter == [is |-> FALSE, dir |-> None, state |-> 0, childDir |-> None, childFile |-> None]

Init ==
  /\ cwd = 0 /\ last = NoLast
  /\ file = NoFile /\ iter = NoIter /\ listed = <<>>

-----------------------------------------------------------------------------
BadSearch(dir, name, table, next) ==
  LET from[e \in DOMAIN next \cup {None}] ==
        IF e = None THEN None ELSE IF Name[e] = name THEN e ELSE from[next[e]]
  IN  from[table[Hash[dir, name]]]

(* searchForDir, searchForFile: along the list of the bucket. *)
Search(dir, name, table, next) ==
  LET Matches(e) == Parent[e] = dir /\ Name[e] = name
      from[e \in DOMAIN next \cup {None}] ==
        IF e = None THEN None ELSE IF Matches(e) THEN e ELSE from[next[e]]
  IN  from[table[Hash[dir, name]]]

searchForDir(dir, name) == Search(dir, name, DirHashTable, DirNextHash)
searchForFile(dir, name) == Search(dir, name, FileHashTable, FileNextHash)

(* A turn of the loop of navigateToDir. *)
Step(dir, name) ==
  IF dir \in {None, Malformed} THEN dir
  ELSE IF name = "" THEN Malformed
  ELSE IF name = Self THEN dir
  ELSE IF name = Up THEN Parent[dir]
  ELSE searchForDir(dir, name)

Along(dir, path) ==
  LET reached[n \in 0..Len(path)] == IF n = 0 THEN dir ELSE Step(reached[n - 1], path[n])
  IN  reached[Len(path)]

(* A slash at the end is not followed by a component. *)
EndsInSlash(path) == path # <<>> /\ path[Len(path)] = ""
Front(path) == SubSeq(path, 1, Len(path) - 1)

(* navigateToDir: for a directory all components, else all but the last,   *)
(* which must be there.                                                    *)
navigateToDir(path, absolute, isDir) ==
  LET from == IF absolute THEN 0 ELSE cwd
  IN  IF path = <<>> /\ ~absolute THEN Malformed
      ELSE IF isDir THEN Along(from, IF EndsInSlash(path) THEN Front(path) ELSE path)
      ELSE IF path = <<>> THEN Malformed
      ELSE LET dir == Along(from, Front(path))
           IN  IF EndsInSlash(path) /\ dir # None THEN Malformed ELSE dir

Found(op, path, absolute, found) ==
  last' = [op |-> op, from |-> cwd, path |-> path, absolute |-> absolute, found |-> found]

FileOf(path, absolute) ==
  LET dir == navigateToDir(path, absolute, FALSE)
  IN  IF dir \in {None, Malformed} THEN dir ELSE searchForFile(dir, path[Len(path)])

(* The program has at most one thing open, and looks at what it got. *)
romfs_open(path, absolute) ==
  LET entry == FileOf(path, absolute)
  IN  /\ last.op = "none"
      /\ Found("open", path, absolute, entry)
      /\ file' = IF entry \in Files THEN [NoFile EXCEPT !.is = TRUE, !.entry = entry] ELSE file
      /\ UNCHANGED <<cwd, iter, listed>>

romfs_stat(path, absolute) ==
  LET dir == navigateToDir(path, absolute, FALSE)
      sub == searchForDir(dir, path[Len(path)])
  IN  /\ last.op = "none"
      /\ Found("stat", path, absolute,
               IF dir \in {None, Malformed} THEN dir
               ELSE IF sub # None THEN sub ELSE searchForFile(dir, path[Len(path)]))
      /\ UNCHANGED <<cwd, file, iter, listed>>

romfs_chdir(path, absolute) ==
  LET dir == navigateToDir(path, absolute, TRUE)
  IN  /\ last.op = "none"
      /\ Found("chdir", path, absolute, dir)
      /\ cwd' = IF dir \in DirEntries THEN dir ELSE cwd
      /\ UNCHANGED <<file, iter, listed>>

(* romfs_read: not past the end; the storage may fail. *)
romfs_read(n) ==
  LET size == FileSize[file.entry]
      end == IF file.pos + n > size THEN size ELSE file.pos + n
  IN  /\ file.is
      /\ file' \in IF file.pos >= size THEN {[file EXCEPT !.start = @, !.result = 0]}
                   ELSE {[file EXCEPT !.pos = end, !.start = file.pos, !.result = end - file.pos],
                         [file EXCEPT !.start = file.pos, !.result = -1]}
      /\ UNCHANGED <<cwd, last, iter, listed>>

romfs_seek(pos, whence) ==
  LET from == CASE whence = "set" -> 0 [] whence = "cur" -> file.pos
                [] whence = "end" -> FileSize[file.entry]
  IN  /\ file.is
      /\ from + pos \in 0..FileSize[file.entry] + 1
      /\ file' = [file EXCEPT !.pos = from + pos, !.start = from + pos, !.result = 0]
      /\ UNCHANGED <<cwd, last, iter, listed>>

romfs_close ==
  /\ file.is
  /\ file' = NoFile /\ last' = NoLast
  /\ UNCHANGED <<cwd, iter, listed>>

-----------------------------------------------------------------------------
AtStart(dir) ==
  [is |-> TRUE, dir |-> dir, state |-> 0,
   childDir |-> First(Children(dir, DirEntries)), childFile |-> First(Children(dir, Files))]

romfs_diropen(path, absolute) ==
  LET dir == navigateToDir(path, absolute, TRUE)
  IN  /\ last.op = "none"
      /\ Found("diropen", path, absolute, dir)
      /\ iter' = IF dir \in DirEntries THEN AtStart(dir) ELSE iter
      /\ listed' = <<>>
      /\ UNCHANGED <<cwd, file>>

romfs_dirreset ==
  /\ iter.is
  /\ iter' = AtStart(iter.dir) /\ listed' = <<>>
  /\ UNCHANGED <<cwd, last, file>>

(* romfs_dirnext: the directory, its parent, and what it holds. *)
romfs_dirnext ==
  /\ iter.is
  /\ \/ /\ iter.state = 0
        /\ iter' = [iter EXCEPT !.state = 1] /\ listed' = Append(listed, iter.dir)
     \/ /\ iter.state = 1
        /\ iter' = [iter EXCEPT !.state = 2] /\ listed' = Append(listed, Parent[iter.dir])
     \/ /\ iter.state = 2 /\ iter.childDir # None
        /\ iter' = [iter EXCEPT !.childDir = DirSibling[@]]
        /\ listed' = Append(listed, iter.childDir)
     \/ /\ iter.state = 2 /\ iter.childDir = None /\ iter.childFile # None
        /\ iter' = [iter EXCEPT !.childFile = FileSibling[@]]
        /\ listed' = Append(listed, iter.childFile)
  /\ UNCHANGED <<cwd, last, file>>

romfs_dirclose ==
  /\ iter.is
  /\ iter' = NoIter /\ listed' = <<>> /\ last' = NoLast
  /\ UNCHANGED <<cwd, file>>

Looked ==
  /\ last.op # "none" /\ ~file.is /\ ~iter.is
  /\ last' = NoLast
  /\ UNCHANGED <<cwd, file, iter, listed>>

Paths == UNION {[1..n -> Components] : n \in 0..MaxPath} \ {<<"">>}

Next ==
  \/ \E path \in Paths, absolute \in BOOLEAN :
       \/ romfs_open(path, absolute) \/ romfs_stat(path, absolute)
       \/ romfs_chdir(path, absolute) \/ romfs_diropen(path, absolute)
  \/ \E n \in ReadLengths : romfs_read(n)
  \/ \E pos \in {-1, 0, 1}, whence \in {"set", "cur", "end"} : romfs_seek(pos, whence)
  \/ Looked \/ romfs_close \/ romfs_dirreset \/ romfs_dirnext \/ romfs_dirclose

Spec == Init /\ [][Next]_vars

-----------------------------------------------------------------------------
TypeOK ==
  /\ cwd \in DirEntries /\ last.found \in Entries \cup {None, Malformed}
  /\ file.is => file.entry \in Files
  /\ iter.is => iter.dir \in DirEntries /\ iter.childDir \in DirEntries \cup {None}

(* What stands in a directory under a name. *)
Named(dir, name, S) == {e \in Children(dir, S) : Name[e] = name}

(* The directories that components lead to; none, or one. *)
Leads(dir, path) ==
  LET Onwards(dirs, name) ==
        IF name = Self THEN dirs
        ELSE IF name = Up THEN {Parent[d] : d \in dirs}
        ELSE UNION {Named(d, name, DirEntries) : d \in dirs}
      to[n \in 0..Len(path)] == IF n = 0 THEN {dir} ELSE Onwards(to[n - 1], path[n])
  IN  to[Len(path)]

(* A call finds what its path names in the tree, and nothing if there is   *)
(* no such thing: the lists of the buckets, which entries of other         *)
(* directories share, lead to each entry.                                  *)
PathsFound ==
  LET from == IF last.absolute THEN 0 ELSE last.from
      path == last.path
      dirs == Leads(from, IF EndsInSlash(path) THEN Front(path) ELSE path)
      above == Leads(from, Front(path))
      Lasts(S) == UNION {Named(d, path[Len(path)], S) : d \in above}
      plain == \A i \in 1..Len(path) - 1 : path[i] # ""
  IN  /\ last.found \in Entries => plain
      /\ last.found = Malformed => ~plain \/ path = <<>> \/ EndsInSlash(path)
      /\ last.op # "none" /\ last.found # Malformed /\ plain =>
        /\ last.op \in {"chdir", "diropen"} => dirs = {last.found} \ {None}
        /\ last.op = "open" => Lasts(Files) = {last.found} \ {None}
        /\ last.op = "stat" =>
             IF Lasts(DirEntries) # {} THEN Lasts(DirEntries) = {last.found}
             ELSE Lasts(Files) = {last.found} \ {None}

(* A directory is listed as itself, its parent and each of its entries     *)
(* once; a listing that is at its end has them all.                        *)
ListingComplete ==
  LET got == SubSeq(listed, 3, Len(listed))
      all == Children(iter.dir, Entries)
      gotSet == {got[i] : i \in DOMAIN got}
  IN  iter.is /\ iter.state = 2 =>
        /\ listed[1] = iter.dir /\ listed[2] = Parent[iter.dir]
        /\ gotSet \subseteq all /\ Cardinality(gotSet) = Len(got)
        /\ iter.childDir = None /\ iter.childFile = None => gotSet = all

(* A read returns what lies in the file from where it began. *)
ReadInFile ==
  file.is /\ file.result > 0 =>
    file.pos = file.start + file.result /\ file.pos <= FileSize[file.entry]

ImageRead == PathsFound /\ ListingComplete /\ ReadInFile
=============================================================================
