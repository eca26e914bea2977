-------------------------------- MODULE Files --------------------------------
(***************************************************************************)
(* The file helpers (pkg/file): writers that replace a file through a      *)
(* temporary one, writers that append, readers, copies, archives, and      *)
(* uploads in chunks, run by goroutines that meet in the table of path     *)
(* locks.  Any write may fail, and the program may crash at any step: the  *)
(* locks are gone then, the disk stays as it is.                           *)
(*                                                                         *)
(* An operation is a sequence of tasks that a goroutine works off; when    *)
(* one fails, the deferred Unlocks are all that is still done.  What is    *)
(* written is a sequence of pieces <<n, k>>, the k-th of operation n.      *)
(***************************************************************************)
EXTENDS Integers, Sequences, FiniteSets, SequencesExt

CONSTANTS
  Procs,      \* goroutines
  Indexes,    \* indexes of chunks, and the order in which a directory lists them
  Listing,
  Limit,      \* FileConfig.MaxSize, in pieces
  MaxOps,     \* bound: operations begun
  MaxCrashes, \* bound: crashes
  Suites      \* the operations of a behaviour and the locks' places in the table

\* Paths: a file, a file that is appended to, a file in each directory and one in
\* its subdirectory, one beside the directories, stored and merged uploads, chunks.
File == <<"file">>
Log == <<"log">>
Dirs == {"a", "b"}
DirFile(d) == <<d, "x">>
SubFile(d) == <<d, "sub", "x">>
Outside == <<"x">>
Out(n) == <<"out", n>>
Merged(n) == <<"merged", n>>
Chunk(i) == <<"id", i>>
Sub(d) == IF d = "a" THEN "a/sub" ELSE "b/sub"
Locks == {"upload", "file", "log"} \cup Dirs \cup {Sub(d) : d \in Dirs}
Paths == {File, Log, Outside} \cup {DirFile(d) : d \in Dirs} \cup {SubFile(d) : d \in Dirs}
         \cup {Out(n) : n \in 1..MaxOps} \cup {Merged(n) : n \in 1..MaxOps}
         \cup {Chunk(i) : i \in Indexes}
Free == "free"
Missing == <<<<0, 0>>>>

ASSUME FilesAssumption ==
  /\ ToSet(Listing) = Indexes /\ Indexes \subseteq Nat /\ Free \notin Procs
  /\ Limit \in Nat \ {0} /\ MaxOps \in Nat /\ MaxCrashes \in Nat
  /\ \A s \in Suites : s.place \in [Locks -> Nat]

VARIABLES
  disk,     \* what each path holds
  litter,   \* paths beside which a crash has left a temporary file
  table,    \* pathLocks: who holds each place
  proc,     \* the goroutines: tasks to do, how far, and the temporary file
  ops,      \* operations begun so far
  crashes,
  ranges,   \* the last results of ReadStream
  \* history: the last piece sequence committed for each chunk, the chunks
  \* committed since a merge succeeded, operations whose append or unpacking was
  \* cut short, and what locked readers saw
  chunks, due, torn, seen,
  suite

fs     == <<disk, litter>>
ghosts == <<chunks, due, torn, seen>>
vars   == <<fs, table, proc, ops, crashes, ranges, ghosts, suite>>

Idle == [at |-> "idle", todo |-> <<>>, op |-> 0, src |-> <<>>, tmp |-> <<>>, parts |-> {}]

Init ==
  /\ suite \in Suites
  /\ disk = [q \in Paths |-> IF q \in {File, Log} THEN <<<<0, 1>>, <<0, 2>>>> ELSE Missing]
  /\ litter = {} /\ table = [b \in {suite.place[l] : l \in Locks} |-> Free]
  /\ proc = [p \in Procs |-> Idle]
  /\ ops = 0 /\ crashes = 0 /\ ranges = {}
  /\ chunks = [i \in Indexes |-> Missing] /\ due = {} /\ torn = {} /\ seen = {}

Pieces(n, k) == [j \in 1..k |-> <<n, j>>]

-----------------------------------------------------------------------------
(* Tasks.                                                                  *)

Lock(l)           == [do |-> "lock", lock |-> l]
Unlock(l)         == [do |-> "unlock", lock |-> l]
Put(q, src)       == [do |-> "put", path |-> q, src |-> src, limit |-> Len(src)]
Store(q, src)     == [do |-> "put", path |-> q, src |-> src, limit |-> Limit]
PutCopy(q, from)  == [do |-> "copy", path |-> q, from |-> from]
AppendTo(q, src)  == [do |-> "append", path |-> q, src |-> src]
Extract(q, src)   == [do |-> "extract", path |-> q, src |-> src]
ReadFile(q)       == [do |-> "read", path |-> q]
ReadChunks(q)     == [do |-> "chunks", path |-> q]
Merge(q, parts)   == [do |-> "merge", path |-> q, parts |-> parts]
RemoveChunks      == [do |-> "remove"]

Locked(l, tasks) == <<Lock(l)>> \o tasks \o <<Unlock(l)>>

Task(p) == Head(proc[p].todo)
Doing(p, what) == proc[p].at = "next" /\ proc[p].todo # <<>> /\ Task(p).do = what
Place(l) == suite.place[l]
Done(p) == proc' = [proc EXCEPT ![p].todo = Tail(@), ![p].at = "next",
                                ![p].src = <<>>, ![p].tmp = <<>>]

\* Mutant of Fails: the Unlock is not deferred.
FailsLocked(p) == proc' = [proc EXCEPT ![p] = Idle] /\ UNCHANGED table

\* An error returns through the deferred Unlocks.
Fails(p) ==
  /\ table' = [b \in DOMAIN table |-> IF table[b] = p THEN Free ELSE table[b]]
  /\ proc' = [proc EXCEPT ![p] = Idle]

\* withPathLock: the mutex at the path's place in the table.
TakeLock(p) ==
  /\ Doing(p, "lock")
  /\ table[Place(Task(p).lock)] = Free
  /\ table' = [table EXCEPT ![Place(Task(p).lock)] = p]
  /\ Done(p)
  /\ UNCHANGED <<fs, ops, crashes, ranges, ghosts, suite>>

ReleaseLock(p) ==
  /\ Doing(p, "unlock")
  /\ table' = [table EXCEPT ![Place(Task(p).lock)] = Free]
  /\ Done(p)
  /\ UNCHANGED <<fs, ops, crashes, ranges, ghosts, suite>>

Finish(p) ==
  /\ proc[p].at = "next" /\ proc[p].todo = <<>>
  /\ proc' = [proc EXCEPT ![p] = Idle]
  /\ UNCHANGED <<fs, table, ops, crashes, ranges, ghosts, suite>>

\* CreateTemp of writeFileAtomic.
CreateTemp(p) ==
  /\ Doing(p, "put") \/ Doing(p, "copy") \/ Doing(p, "merge")
  /\ proc' = [proc EXCEPT ![p].at = "writing",
                          ![p].src = IF Task(p).do = "put" THEN Task(p).src ELSE <<>>,
                          ![p].parts = IF Task(p).do = "merge" THEN Task(p).parts ELSE {}]
  /\ UNCHANGED <<fs, table, ops, crashes, ranges, ghosts, suite>>

\* MkdirAll, CreateTemp, or the opening of a file that is read or written fails.
OpenFails(p) ==
  /\ \E what \in {"put", "copy", "append", "extract", "read", "chunks", "merge"} : Doing(p, what)
  /\ Fails(p)
  /\ UNCHANGED <<fs, ops, crashes, ranges, ghosts, suite>>

\* What write still has to write.  A copy reads its source, which nobody locks,
\* as it is now.
Left(p) == IF Task(p).do = "copy"
           THEN SubSeq(disk[Task(p).from], Len(proc[p].tmp) + 1, Len(disk[Task(p).from]))
           ELSE proc[p].src

WriteTemp(p) ==
  /\ proc[p].at = "writing" /\ Left(p) # <<>>
  /\ proc' = [proc EXCEPT ![p].tmp = Append(@, Head(Left(p))), ![p].src = Tail(Left(p))]
  /\ UNCHANGED <<fs, table, ops, crashes, ranges, ghosts, suite>>

\* write returns; the file is closed.
CloseTemp(p) ==
  /\ proc[p].at = "writing" /\ Left(p) = <<>> /\ proc[p].parts = {}
  /\ proc' = [proc EXCEPT ![p].at = "closed"]
  /\ UNCHANGED <<fs, table, ops, crashes, ranges, ghosts, suite>>

\* streamToPath: more was written than an upload may have.
TooLong(p) == proc[p].at = "closed" /\ Task(p).do = "put" /\ Len(proc[p].tmp) > Task(p).limit

\* The write, the close, the chmod or the rename fails: the temporary file is
\* removed.
WriteTempFails(p) ==
  /\ proc[p].at \in {"writing", "closed"}
  /\ Fails(p)
  /\ UNCHANGED <<fs, ops, crashes, ranges, ghosts, suite>>

\* Mutant of Rename: the file takes its place before it is complete.
RenameAnyTime(p) ==
  /\ proc[p].at \in {"writing", "closed"} /\ ~TooLong(p)
  /\ disk' = [disk EXCEPT ![Task(p).path] = proc[p].tmp]
  /\ chunks' = [i \in Indexes |-> IF Task(p).path = Chunk(i) THEN proc[p].tmp ELSE chunks[i]]
  /\ due' = due \cup {i \in Indexes : Task(p).path = Chunk(i)}
  /\ Done(p)
  /\ UNCHANGED <<litter, table, ops, crashes, ranges, torn, seen, suite>>

Rename(p) ==
  /\ proc[p].at = "closed" /\ ~TooLong(p)
  /\ disk' = [disk EXCEPT ![Task(p).path] = proc[p].tmp]
  /\ chunks' = [i \in Indexes |-> IF Task(p).path = Chunk(i) THEN proc[p].tmp ELSE chunks[i]]
  /\ due' = due \cup {i \in Indexes : Task(p).path = Chunk(i)}
  /\ Done(p)
  /\ UNCHANGED <<litter, table, ops, crashes, ranges, torn, seen, suite>>

\* Files that are written in place: opened for appending, or truncated.
OpenInPlace(p) ==
  /\ Doing(p, "append") \/ Doing(p, "extract")
  /\ disk' = [disk EXCEPT ![Task(p).path] =
                IF Task(p).do = "append" /\ @ # Missing THEN @ ELSE <<>>]
  /\ proc' = [proc EXCEPT ![p].at = "inPlace", ![p].src = Task(p).src]
  /\ UNCHANGED <<litter, table, ops, crashes, ranges, ghosts, suite>>

WriteInPlace(p) ==
  /\ proc[p].at = "inPlace" /\ proc[p].src # <<>>
  /\ disk' = [disk EXCEPT ![Task(p).path] = Append(@, Head(proc[p].src))]
  /\ proc' = [proc EXCEPT ![p].src = Tail(@)]
  /\ UNCHANGED <<litter, table, ops, crashes, ranges, ghosts, suite>>

WriteInPlaceFails(p) ==
  /\ proc[p].at = "inPlace"
  /\ torn' = torn \cup {proc[p].op}
  /\ Fails(p)
  /\ UNCHANGED <<fs, ops, crashes, ranges, chunks, due, seen, suite>>

\* Sync or Close.
WroteInPlace(p) ==
  /\ proc[p].at = "inPlace" /\ proc[p].src = <<>>
  /\ Done(p)
  /\ UNCHANGED <<fs, table, ops, crashes, ranges, ghosts, suite>>

\* A reader, which holds the path's lock.
ReadLocked(p) ==
  /\ Doing(p, "read")
  /\ seen' = seen \cup {disk[Task(p).path]}
  /\ Done(p)
  /\ UNCHANGED <<fs, table, ops, crashes, ranges, chunks, due, torn, suite>>

-----------------------------------------------------------------------------
(* Uploads.                                                                *)

Present == {i \in Indexes : disk[Chunk(i)] # Missing}

\* ChunkList, or mergeFiles: an empty directory, or a name that is no number
\* (a temporary file that a crash has left), is an error; else the chunks that
\* are there are what writeFileAtomic is to copy.
ListChunks(p) ==
  /\ Doing(p, "chunks")
  /\ LET q == Task(p).path
     IN  IF Present = {} \/ \E i \in Indexes : Chunk(i) \in litter
         THEN Fails(p)
         ELSE /\ proc' = [proc EXCEPT ![p].todo =
                           IF q = <<>> THEN Tail(@) ELSE <<Merge(q, Present)>> \o Tail(@)]
              /\ UNCHANGED table
  /\ UNCHANGED <<fs, ops, crashes, ranges, ghosts, suite>>

\* Mutant of NextChunk: the order of the directory, not of the indexes.
NextChunkListed(parts) == Head(SelectSeq(Listing, LAMBDA i : i \in parts))

\* readChunkFiles sorts by index.
NextChunk(parts) == CHOOSE i \in parts : \A j \in parts : i <= j

\* mergeFiles has copied a chunk and opens the next one.
OpenChunk(p) ==
  /\ proc[p].at = "writing" /\ proc[p].src = <<>> /\ proc[p].parts # {}
  /\ LET i == NextChunk(proc[p].parts)
     IN  proc' = [proc EXCEPT ![p].src = disk[Chunk(i)], ![p].parts = @ \ {i}]
  /\ UNCHANGED <<fs, table, ops, crashes, ranges, ghosts, suite>>

\* RemoveAll(chunkDir), entry by entry.
RemoveChunk(p) ==
  /\ Doing(p, "remove") /\ Present # {}
  /\ \E i \in Present : disk' = [disk EXCEPT ![Chunk(i)] = Missing]
  /\ UNCHANGED <<litter, table, proc, ops, crashes, ranges, ghosts, suite>>

RemoveFails(p) ==
  /\ Doing(p, "remove")
  /\ Fails(p)
  /\ UNCHANGED <<fs, ops, crashes, ranges, ghosts, suite>>

RemoveDone(p) ==
  /\ Doing(p, "remove") /\ Present = {}
  /\ due' = {}
  /\ Done(p)
  /\ UNCHANGED <<fs, table, ops, crashes, ranges, chunks, torn, seen, suite>>

-----------------------------------------------------------------------------
(* Operations.  A number is drawn for each; it marks what it writes.       *)

Begin(p, name, tasks) ==
  /\ proc[p].at = "idle" /\ ops < MaxOps /\ name \in suite.ops
  /\ ops' = ops + 1
  /\ proc' = [proc EXCEPT ![p] = [Idle EXCEPT !.at = "next", !.todo = tasks, !.op = ops + 1]]
  /\ UNCHANGED <<fs, table, crashes, ranges, ghosts, suite>>

New == Pieces(ops + 1, 2)

\* FileUpload.Save: a name of its own for every file that is stored.
Save(p) == \E k \in 1..Limit + 1 :
             Begin(p, "Save", Locked("upload", <<Store(Out(ops + 1), Pieces(ops + 1, k))>>))
ChunkSave(p) == \E i \in Indexes, k \in 1..Limit + 1 :
             Begin(p, "ChunkSave", Locked("upload", <<Store(Chunk(i), Pieces(ops + 1, k))>>))
ChunkList(p) == Begin(p, "ChunkList", Locked("upload", <<ReadChunks(<<>>)>>))
ChunkMerge(p) == Begin(p, "ChunkMerge", Locked("upload", <<ReadChunks(Merged(ops + 1)), RemoveChunks>>))

JSONWrite(p)      == Begin(p, "Write", Locked("file", <<Put(File, New)>>))
JSONLineWrite(p)  == Begin(p, "Write", Locked("file", <<Put(File, New)>>))
TXTWrite(p)       == Begin(p, "Write", Locked("file", <<Put(File, New)>>))
TXTLineWrite(p)   == Begin(p, "Write", Locked("file", <<Put(File, New)>>))
CSVWrite(p)       == Begin(p, "Write", Locked("file", <<Put(File, New)>>))
JSONLineAppend(p) == Begin(p, "Append", Locked("log", <<AppendTo(Log, New)>>))
CSVAppend(p)      == Begin(p, "Append", Locked("log", <<AppendTo(Log, New)>>))

JSONRead(p)     == Begin(p, "Read", Locked("file", <<ReadFile(File)>>))
TXTRead(p)      == Begin(p, "Read", Locked("file", <<ReadFile(File)>>))

\* What the caller's function, called for each line under the reader's lock,
\* does: nothing to files, or a write to another path.
Callbacks == {<<>>} \cup {c \in {Locked("file", <<Put(File, New)>>)} : "Callback" \in suite.ops}

ReadLines(p) == \E inside \in Callbacks :
  Begin(p, "Read", Locked("log", <<ReadFile(Log)>> \o inside))
JSONLineRead(p) == ReadLines(p)
TXTLineRead(p)  == ReadLines(p)
CSVRead(p)      == ReadLines(p)

\* Sources are not locked: an archive or a copy may hold half a row of the log.
\* A file copied to itself is left alone.
CopyFile(p)    == \E from \in {Log, File} :
  Begin(p, "Copy", Locked("file", IF from = File THEN <<>> ELSE <<PutCopy(File, from)>>))
ZipPackDir(p)  == Begin(p, "Copy", Locked("file", <<PutCopy(File, Log)>>))
ZipPackFile(p) == Begin(p, "Copy", Locked("file", <<PutCopy(File, Log)>>))
TarPack(p)     == Begin(p, "Copy", Locked("file", <<PutCopy(File, Log)>>))
TarGzPack(p)   == Begin(p, "Copy", Locked("file", <<PutCopy(File, Log)>>))

\* CopyDir locks the target directory and, inside, that of each subdirectory.
CopyDir(p) == \E d \in Dirs : Begin(p, "CopyDir",
  Locked(d, <<PutCopy(DirFile(d), Log)>> \o Locked(Sub(d), <<PutCopy(SubFile(d), Log)>>)))

\* archiveTarget: the entry's path, ".." taken into account.
ArchiveTarget(root, name) ==
  FoldLeft(LAMBDA q, part : IF part = ".." THEN Front(q) ELSE Append(q, part), root, name)

\* An entry outside of the root ends the unpacking with an error; entries
\* before it stay.
Unpack(names) ==
  LET target == [k \in DOMAIN names |-> ArchiveTarget(<<"a">>, names[k])]
      Inside(k) == IsPrefix(<<"a">>, target[k])
      good == CHOOSE n \in 0..Len(names) : /\ \A k \in 1..n : Inside(k)
                                           /\ n < Len(names) => ~Inside(n + 1)
  IN  Locked("a", [k \in 1..good |-> Extract(target[k], New)])

Entries == {<<<<"x">>, <<"sub", "..", "sub", "x">>>>, <<<<"x">>, <<"..", "x">>>>}

ZipUnpack(p)   == \E names \in Entries : Begin(p, "Unpack", Unpack(names))
TarUnpack(p)   == \E names \in Entries : Begin(p, "Unpack", Unpack(names))
TarGzUnpack(p) == \E names \in Entries : Begin(p, "Unpack", Unpack(names))

\* The bounds of ReadStream, and how many bytes ReadAt finds there.
FileRange(total, start, end) ==
  LET s == IF start < 0 THEN 0 ELSE start
      e == IF end <= 0 \/ end >= total THEN total - 1 ELSE end
  IN  CASE total = 0 -> [start |-> 0, end |-> -1, n |-> 0]
        [] total > 0 /\ s >= total -> [start |-> total, end |-> total - 1, n |-> 0]
        [] OTHER -> LET b == IF s > e THEN e ELSE s
                    IN  [start |-> b, end |-> e, n |-> (IF e < total THEN e + 1 ELSE total) - b]

\* ReadStream takes no lock.
ReadStream ==
  /\ "ReadStream" \in suite.ops /\ ranges = {}
  /\ LET total == Len(disk[Log])
     IN  ranges' = {[total |-> total, got |-> FileRange(total, s, e)] : s, e \in -1..total + 1}
  /\ UNCHANGED <<fs, table, proc, ops, crashes, ghosts, suite>>

-----------------------------------------------------------------------------
\* The program stops and is started again.
Crash ==
  /\ crashes < MaxCrashes
  /\ crashes' = crashes + 1
  /\ litter' = litter \cup {Task(p).path : p \in {r \in Procs : proc[r].at \in {"writing", "closed"}}}
  /\ torn' = torn \cup {proc[p].op : p \in {r \in Procs : proc[r].at = "inPlace"}}
  /\ proc' = [p \in Procs |-> Idle]
  /\ table' = [b \in DOMAIN table |-> Free]
  /\ UNCHANGED <<disk, ops, ranges, chunks, due, seen, suite>>

Works(p) ==
  \/ TakeLock(p) \/ ReleaseLock(p) \/ Finish(p)
  \/ CreateTemp(p) \/ WriteTemp(p) \/ CloseTemp(p) \/ Rename(p)
  \/ (TooLong(p) /\ WriteTempFails(p))
  \/ OpenInPlace(p) \/ WriteInPlace(p) \/ WroteInPlace(p) \/ ReadLocked(p)
  \/ ListChunks(p) \/ OpenChunk(p) \/ RemoveChunk(p) \/ RemoveDone(p)

Breaks(p) == OpenFails(p) \/ WriteTempFails(p) \/ WriteInPlaceFails(p) \/ RemoveFails(p)

Operation(p) ==
  \/ Save(p) \/ ChunkSave(p) \/ ChunkList(p) \/ ChunkMerge(p)
  \/ JSONWrite(p) \/ JSONLineWrite(p) \/ TXTWrite(p) \/ TXTLineWrite(p) \/ CSVWrite(p)
  \/ JSONLineAppend(p) \/ CSVAppend(p)
  \/ JSONRead(p) \/ TXTRead(p) \/ JSONLineRead(p) \/ TXTLineRead(p) \/ CSVRead(p)
  \/ CopyFile(p) \/ ZipPackDir(p) \/ ZipPackFile(p) \/ TarPack(p) \/ TarGzPack(p)
  \/ CopyDir(p) \/ ZipUnpack(p) \/ TarUnpack(p) \/ TarGzUnpack(p)

Next == \/ \E p \in Procs : Operation(p) \/ Works(p) \/ Breaks(p)
        \/ ReadStream \/ Crash

Spec == Init /\ [][Next]_vars

\* Goroutines that can run do run; nothing need fail, and no operation need
\* be called.
FairSpec == Spec /\ \A p \in Procs : WF_vars(Works(p))

-----------------------------------------------------------------------------
(* Properties.                                                             *)

\* content is made of whole operations, except for those in cut.
Whole(content, cut) ==
  \A k \in DOMAIN content :
    \/ content[k][1] \in cut
    \/ content[k][2] = 1 /\ k < Len(content) /\ content[k + 1] = <<content[k][1], 2>>
    \/ content[k][2] = 2 /\ k > 1 /\ content[k - 1] = <<content[k][1], 1>>

\* A file that is replaced never shows a part of what was written, at any
\* moment, through any failure or crash: it holds one whole version, or, when it
\* is a copy, what its source held at some moment.  Readers under the lock see
\* no half of an append either, unless that append failed or was cut off by a
\* crash.  An upload beyond MaxSize is never stored, nothing is unpacked outside
\* of its directory, and ReadStream answers with all of a range in the file.
NoTornFiles ==
  /\ Whole(disk[File], {}) \/ ("Copy" \in suite.ops /\ IsPrefix(disk[File], disk[Log]))
  /\ "Copy" \notin suite.ops => \A s \in seen : Whole(s, torn)
  /\ Len(disk[File]) >= 2
  /\ \A n \in 1..MaxOps : disk[Out(n)] # Missing => Len(disk[Out(n)]) <= Limit
  /\ disk[Outside] = Missing
  /\ \A r \in ranges : /\ 0 <= r.got.start /\ r.got.start <= r.total /\ r.got.end < r.total
                       /\ r.got.n = r.got.end - r.got.start + 1

\* The content has part, after its first k pieces.
HoldsAt(content, part, k) ==
  k + Len(part) <= Len(content) /\ SubSeq(content, k + 1, k + Len(part)) = part
Holds(content, part) == \E k \in 0..Len(content) : HoldsAt(content, part, k)
InOrder(content, part, next) ==
  \E k, l \in 0..Len(content) :
    k + Len(part) <= l /\ HoldsAt(content, part, k) /\ HoldsAt(content, next, l)

\* A chunk that was saved is never lost: it is in its directory or in a merged
\* file, also when a merge fails or is interrupted and whatever else is saved
\* or merged meanwhile; and a merged file has its chunks in the order of their
\* indexes.
ChunksKept ==
  /\ \A i \in Indexes : chunks[i] # Missing =>
       disk[Chunk(i)] = chunks[i] \/ \E n \in 1..MaxOps : Holds(disk[Merged(n)], chunks[i])
  /\ \A n \in 1..MaxOps, i, j \in Indexes :
       (/\ i < j /\ chunks[i] # Missing /\ chunks[j] # Missing
        /\ Holds(disk[Merged(n)], chunks[i]) /\ Holds(disk[Merged(n)], chunks[j]))
       => InOrder(disk[Merged(n)], chunks[i], chunks[j])

\* What pkg/README.md and a comment say of a merge that fails, and what is not
\* so: it keeps the chunks, so that a merge that succeeds, the first or after
\* one that failed, has every chunk saved since the last that did.
MergeIsComplete ==
  [][\A p \in Procs : RemoveDone(p) =>
       \A i \in due : Holds(disk[Merged(proc[p].op)], chunks[i])]_vars

\* Goroutines that wait for each other, or one for itself: CopyDir keeps the
\* lock of a directory while it asks for the subdirectory's, and a reader that
\* of its file while the caller's function asks for another; two of these may
\* have the same place in the table.
Stuck == /\ \E l, m \in Locks : l # m /\ Place(l) = Place(m)
         /\ {"CopyDir", "Callback"} \cap suite.ops # {}
         /\ \E S \in SUBSET Procs \ {{}} : \A p \in S :
              Doing(p, "lock") /\ table[Place(Task(p).lock)] \in S

\* Every operation ends and leaves no lock behind for the next one, however it
\* fails and whatever shares a place in the table, except for nested locks
\* that collide.
OperationsEnd == \A p \in Procs : proc[p].at # "idle" ~> (proc[p].at = "idle" \/ Stuck)

\* What a comment says of two paths at one place of the table, and what is not
\* so: they only wait for each other briefly, so that every operation ends.
EveryOperationEnds == \A p \in Procs : proc[p].at # "idle" ~> proc[p].at = "idle"
=============================================================================
