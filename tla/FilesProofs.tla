----------------------------- MODULE FilesProofs -----------------------------
(***************************************************************************)
(* Proofs about Files, for any goroutines, chunks, size limit, operations, *)
(* crashes and any table of locks.  Base says what goroutines still have   *)
(* to do and which locks they hold for it; DiskInv adds what the files     *)
(* hold, UploadInv what chunks and merged files hold.                      *)
(***************************************************************************)
EXTENDS Files, TLAPS, SequenceTheorems, WellFoundedInduction

Content == Seq(Nat \X Nat)
EntryNames == UNION {ToSet(names) : names \in Entries}

\* The tasks that an operation with number n may have.
Tasks(n) ==
  {Lock(l) : l \in Locks} \cup {Unlock(l) : l \in Locks}
  \cup {Put(File, Pieces(n, 2)), AppendTo(Log, Pieces(n, 2)), ReadFile(File), ReadFile(Log)}
  \cup {Store(Out(n), Pieces(n, k)) : k \in 1..Limit + 1}
  \cup {Store(Chunk(i), Pieces(n, k)) : i \in Indexes, k \in 1..Limit + 1}
  \cup {PutCopy(DirFile(d), Log) : d \in Dirs} \cup {PutCopy(SubFile(d), Log) : d \in Dirs}
  \cup {t \in {PutCopy(File, Log)} : "Copy" \in suite.ops}
  \cup {t \in {Extract(ArchiveTarget(<<"a">>, e), Pieces(n, 2)) : e \in EntryNames} :
          t.path[1] = "a"}
  \cup {ReadChunks(<<>>), ReadChunks(Merged(n)), RemoveChunks}
  \cup {Merge(Merged(n), S) : S \in SUBSET Indexes}

AllTasks == UNION {Tasks(n) : n \in 0..MaxOps}

ProcType ==
  [at : {"idle", "next", "writing", "closed", "inPlace"},
   todo : Seq(AllTasks), op : 0..MaxOps,
   src : Content, tmp : Content, parts : SUBSET Indexes]

TypeInv ==
  /\ suite \in Suites
  /\ disk \in [Paths -> Content]
  /\ table \in [{Place(l) : l \in Locks} -> Procs \cup {Free}]
  /\ proc \in [Procs -> ProcType]
  /\ ops \in 0..MaxOps
  /\ chunks \in [Indexes -> Content]
  /\ torn \subseteq Nat

\* What a goroutine is about, and how far it has come.
WorkInv(p) ==
  /\ proc[p].at = "idle" => proc[p] = Idle
  /\ proc[p].at # "idle" => proc[p].op \in 1..ops
  /\ \A k \in DOMAIN proc[p].todo : proc[p].todo[k] \in Tasks(proc[p].op)
  /\ proc[p].at \in {"writing", "closed"} =>
       proc[p].todo # <<>> /\ Task(p).do \in {"put", "copy", "merge"}
  /\ proc[p].at = "inPlace" => proc[p].todo # <<>> /\ Task(p).do \in {"append", "extract"}
  /\ proc[p].at = "next" => proc[p].src = <<>> /\ proc[p].tmp = <<>>
  /\ proc[p].parts # {} => proc[p].at = "writing" /\ Task(p).do = "merge"

\* The lock that a task is done under.
Needs(t, l) ==
  \/ l = "log" /\ (t.do = "append" \/ (t.do = "read" /\ t.path = Log))
  \/ l = "upload" /\ (t.do \in {"chunks", "merge", "remove"} \/ (t.do = "put" /\ t.path[1] = "id"))

\* The lock l is still to be taken before the k-th task.
Pending(s, k, l) == \E j \in 1..(k - 1) : s[j] = Lock(l)

\* Locks are held, or are still to be taken, where they are needed and until
\* they are released; after a release there are only releases, of other locks.
Orderly(s, tab, p) ==
  /\ \A k \in DOMAIN s, l \in Locks :
       s[k] = Unlock(l) \/ Needs(s[k], l) => Pending(s, k, l) \/ tab[Place(l)] = p
  /\ \A k, m \in DOMAIN s, l1, l2 \in Locks :
       (k < m /\ s[k] = Unlock(l1) /\ s[m] = Unlock(l2) /\ ~Pending(s, k, l1) /\ ~Pending(s, m, l2))
       => Place(l1) # Place(l2)
  /\ \A k, m \in DOMAIN s : k < m /\ s[k].do = "unlock" => s[m].do = "unlock" /\ s[m] # s[k]

Base ==
  /\ TypeInv
  /\ \A p \in Procs : WorkInv(p) /\ Orderly(proc[p].todo, table, p)
  /\ \A p, r \in Procs : p # r /\ proc[p].at # "idle" /\ proc[r].at # "idle" =>
       proc[p].op # proc[r].op

-----------------------------------------------------------------------------
WholeAt(c, k) ==
  \/ c[k][2] = 1 /\ k < Len(c) /\ c[k + 1] = <<c[k][1], 2>>
  \/ c[k][2] = 2 /\ k > 1 /\ c[k - 1] = <<c[k][1], 1>>

Has(c, n) == \E k \in DOMAIN c : c[k][1] = n

Appending(p) == proc[p].at = "inPlace" /\ Task(p).do = "append"
WillAppend(s) == \E k \in DOMAIN s : s[k].do = "append"
WritesLast(s) ==
  \A k, m \in DOMAIN s : k < m /\ s[k].do \in {"append", "put"} => s[m].do = "unlock"

\* The temporary file and what is still to be written are the source, or the
\* file is the beginning of the log.
TempInv(p) ==
  /\ proc[p].at \in {"writing", "closed"} /\ Task(p).do = "put" =>
       /\ proc[p].tmp \o proc[p].src = Task(p).src
       /\ proc[p].at = "closed" => proc[p].src = <<>>
  /\ proc[p].at \in {"writing", "closed"} /\ Task(p).do = "copy" =>
       /\ IsPrefix(proc[p].tmp, disk[Log])
       /\ proc[p].at = "closed" => Len(proc[p].tmp) >= 2

\* An appender has written nothing, one piece or both.
AppendInv(p) ==
  /\ Appending(p) =>
       \/ proc[p].src = Pieces(proc[p].op, 2) /\ ~Has(disk[Log], proc[p].op)
       \/ /\ proc[p].src = <<<<proc[p].op, 2>>>>
          /\ disk[Log][Len(disk[Log])] = <<proc[p].op, 1>>
          /\ \A k \in 1..(Len(disk[Log]) - 1) : disk[Log][k][1] # proc[p].op
       \/ proc[p].src = <<>>
  /\ WillAppend(proc[p].todo) /\ ~Appending(p) => ~Has(disk[Log], proc[p].op)
  /\ WritesLast(proc[p].todo)

LogInv ==
  /\ Len(disk[Log]) >= 2
  /\ \A k \in DOMAIN disk[Log] :
       /\ disk[Log][k][1] <= ops
       /\ \/ disk[Log][k][1] \in torn
          \/ WholeAt(disk[Log], k)
          \/ \E p \in Procs : Appending(p) /\ proc[p].src # <<>> /\ disk[Log][k][1] = proc[p].op

DiskInv ==
  /\ NoTornFiles
  /\ LogInv
  /\ \A p \in Procs : TempInv(p) /\ AppendInv(p)

-----------------------------------------------------------------------------
\* A chunk's content: pieces of one operation.
Made(c) == c # <<>> /\ c[1][1] > 0 /\ \A k \in DOMAIN c : c[k][1] = c[1][1]

WillPut(s) == \E k \in DOMAIN s : s[k].do = "put"

\* No chunk and no merged file is from operation n.
Unused(n) ==
  /\ \A i \in Indexes : chunks[i] # Missing => chunks[i][1][1] # n
  /\ \A m \in 1..MaxOps : ~Has(disk[Merged(m)], n)

\* Chunks are listed once and merged at once; they are removed after a merge.
MergeOnce(s) ==
  /\ \A k, m \in DOMAIN s :
       k < m /\ s[k].do \in {"chunks", "merge"} => s[m].do \notin {"chunks", "merge"}
  /\ \A k \in DOMAIN s : s[k].do = "merge" => k = 1
RemoveMerged(s) ==
  \A k \in DOMAIN s : k # 1 /\ s[k].do = "remove" =>
    s[k - 1].do = "merge" \/ (s[k - 1].do = "chunks" /\ s[k - 1].path # <<>>)

\* A merge has all chunks: copied, in the order of their indexes and nothing
\* else, or still to be copied.
Copied(p) == proc[p].tmp \o proc[p].src
CopyInv(p) ==
  proc[p].at \in {"writing", "closed"} /\ Task(p).do = "merge" =>
    /\ proc[p].parts \subseteq Present
    /\ proc[p].at = "closed" => proc[p].src = <<>>
    /\ \A i \in Present \ proc[p].parts :
         /\ Holds(Copied(p), disk[Chunk(i)])
         /\ \A j \in proc[p].parts : i < j
         /\ \A j \in Present \ proc[p].parts :
              i < j => InOrder(Copied(p), disk[Chunk(i)], disk[Chunk(j)])
    /\ \A k \in DOMAIN Copied(p) : \E i \in Present \ proc[p].parts :
         Copied(p)[k][1] = disk[Chunk(i)][1][1]

PutInv(p) ==
  /\ proc[p].at \in {"writing", "closed"} /\ Task(p).do = "put" =>
       Copied(p) = Task(p).src /\ (proc[p].at = "closed" => proc[p].src = <<>>)
  /\ WillPut(proc[p].todo) => Unused(proc[p].op)
  /\ WritesLast(proc[p].todo)

MergeInv(p) ==
  /\ proc[p].todo # <<>> /\ Task(p).do = "merge" => Task(p).parts = Present
  /\ \A k \in DOMAIN proc[p].todo :
       proc[p].todo[k].do \in {"merge", "chunks"} => disk[Merged(proc[p].op)] = Missing
  /\ MergeOnce(proc[p].todo) /\ RemoveMerged(proc[p].todo)
  /\ proc[p].todo # <<>> /\ Task(p).do = "remove" =>
       \A i \in Present : Holds(disk[Merged(proc[p].op)], disk[Chunk(i)])

UploadInv ==
  /\ ChunksKept
  /\ \A i \in Indexes : disk[Chunk(i)] # Missing => disk[Chunk(i)] = chunks[i]
  /\ \A i \in Indexes : chunks[i] # Missing => Made(chunks[i])
  /\ \A i, j \in Indexes : i # j /\ chunks[i] # Missing /\ chunks[j] # Missing =>
       chunks[i][1][1] # chunks[j][1][1]
  /\ \A n \in 1..MaxOps : n > ops => disk[Merged(n)] = Missing /\ Unused(n)
  /\ \A p \in Procs : CopyInv(p) /\ PutInv(p) /\ MergeInv(p)

-----------------------------------------------------------------------------
(* Paths and tasks.                                                        *)

\* The first parts of the paths tell them apart.
LEMMA PathFacts ==
  /\ File[1] = "file" /\ Log[1] = "log" /\ Outside[1] = "x"
  /\ \A n : Out(n)[1] = "out" /\ Out(n)[2] = n
  /\ \A n : Merged(n)[1] = "merged" /\ Merged(n)[2] = n /\ Merged(n) # <<>>
  /\ \A i : Chunk(i)[1] = "id" /\ Chunk(i)[2] = i
  /\ \A d : DirFile(d)[1] = d /\ SubFile(d)[1] = d
  /\ \A d \in Dirs : d = "a" \/ d = "b"
BY DEF File, Log, Outside, Out, Merged, Chunk, DirFile, SubFile, Dirs

\* Where they are on the disk.
LEMMA PathsThere ==
  /\ File \in Paths /\ Log \in Paths /\ Outside \in Paths
  /\ \A n \in 1..MaxOps : Out(n) \in Paths /\ Merged(n) \in Paths
  /\ \A i \in Indexes : Chunk(i) \in Paths
BY DEF Paths

LEMMA LocksThere == "log" \in Locks /\ "upload" \in Locks /\ "file" \in Locks
                    /\ \A d \in Dirs : d \in Locks /\ Sub(d) \in Locks /\ Sub(d) # d
BY DEF Locks, Sub, Dirs

\* What the tasks of each kind are.
LEMMA TaskFacts ==
  ASSUME NEW n, NEW t \in Tasks(n)
  PROVE  /\ t.do = "lock" => \E l \in Locks : t = Lock(l)
         /\ t.do = "unlock" => \E l \in Locks : t = Unlock(l)
         /\ t.do = "put" =>
              \/ t = Put(File, Pieces(n, 2))
              \/ \E k \in 1..Limit + 1 : t = Store(Out(n), Pieces(n, k))
              \/ \E i \in Indexes, k \in 1..Limit + 1 : t = Store(Chunk(i), Pieces(n, k))
         /\ t.do = "copy" =>
              \/ t = PutCopy(File, Log) /\ "Copy" \in suite.ops
              \/ \E d \in Dirs : t = PutCopy(DirFile(d), Log) \/ t = PutCopy(SubFile(d), Log)
         /\ t.do = "append" => t = AppendTo(Log, Pieces(n, 2))
         /\ t.do = "extract" => t.path[1] = "a" /\ t.src = Pieces(n, 2)
         /\ t.do = "read" => t = ReadFile(File) \/ t = ReadFile(Log)
         /\ t.do = "chunks" => t = ReadChunks(<<>>) \/ t = ReadChunks(Merged(n))
         /\ t.do = "merge" => \E S \in SUBSET Indexes : t = Merge(Merged(n), S)
         /\ t.do = "remove" => t = RemoveChunks
         /\ t.do \in {"lock", "unlock", "put", "copy", "append", "extract", "read", "chunks",
                      "merge", "remove"}
BY DEF Tasks, Lock, Unlock, Put, Store, PutCopy, AppendTo, Extract, ReadFile, ReadChunks, Merge,
       RemoveChunks

-----------------------------------------------------------------------------
(* Orderly.                                                                *)

LEMMA TailFacts ==
  ASSUME NEW S, NEW s \in Seq(S), s # <<>>
  PROVE  /\ Len(s) \in Nat \ {0} /\ Len(Tail(s)) = Len(s) - 1 /\ Tail(s) \in Seq(S)
         /\ DOMAIN s = 1..Len(s) /\ DOMAIN Tail(s) = 1..(Len(s) - 1)
         /\ Head(s) = s[1]
         /\ \A k \in 1..(Len(s) - 1) : Tail(s)[k] = s[k + 1]
OBVIOUS

\* Pending in the tail.
LEMMA PendingTail ==
  ASSUME NEW S, NEW s \in Seq(S), s # <<>>, NEW k \in 1..(Len(s) - 1), NEW l
  PROVE  Pending(s, k + 1, l) <=> (Pending(Tail(s), k, l) \/ Head(s) = Lock(l))
<1> USE TailFacts
<1>1. ASSUME NEW j \in 1..k, s[j] = Lock(l), Head(s) # Lock(l)
      PROVE  Pending(Tail(s), k, l)
  <2>1. j # 1 BY <1>1
  <2>2. j - 1 \in 1..(k - 1) /\ Tail(s)[j - 1] = s[j] BY <2>1
  <2> QED BY <1>1, <2>2 DEF Pending
<1>2. ASSUME NEW j \in 1..(k - 1), Tail(s)[j] = Lock(l)
      PROVE  Pending(s, k + 1, l)
  <2>1. j + 1 \in 1..k /\ s[j + 1] = Tail(s)[j] OBVIOUS
  <2> QED BY <1>2, <2>1 DEF Pending
<1>3. Head(s) = Lock(l) => Pending(s, k + 1, l)
  <2>1. 1 \in 1..k OBVIOUS
  <2> QED BY <2>1 DEF Pending
<1> QED BY <1>1, <1>2, <1>3 DEF Pending

\* A task that takes no lock is done.
LEMMA OrderlyTail ==
  ASSUME NEW S, NEW s \in Seq(S), s # <<>>, NEW tab, NEW p, Orderly(s, tab, p),
         Head(s).do # "lock"
  PROVE  Orderly(Tail(s), tab, p)
<1> USE TailFacts
<1>0. \A k \in 1..(Len(s) - 1), l \in Locks : Pending(s, k + 1, l) <=> Pending(Tail(s), k, l)
  BY PendingTail DEF Lock
<1>1. ASSUME NEW k \in DOMAIN Tail(s), NEW l \in Locks,
             Tail(s)[k] = Unlock(l) \/ Needs(Tail(s)[k], l)
      PROVE  Pending(Tail(s), k, l) \/ tab[Place(l)] = p
  <2>1. k + 1 \in DOMAIN s /\ Tail(s)[k] = s[k + 1] OBVIOUS
  <2> QED BY <1>0, <1>1, <2>1 DEF Orderly
<1>2. ASSUME NEW k \in DOMAIN Tail(s), NEW m \in DOMAIN Tail(s), NEW l1 \in Locks, NEW l2 \in Locks,
             k < m, Tail(s)[k] = Unlock(l1), Tail(s)[m] = Unlock(l2),
             ~Pending(Tail(s), k, l1), ~Pending(Tail(s), m, l2)
      PROVE  Place(l1) # Place(l2)
  <2>1. /\ k + 1 \in DOMAIN s /\ Tail(s)[k] = s[k + 1]
        /\ m + 1 \in DOMAIN s /\ Tail(s)[m] = s[m + 1] /\ k + 1 < m + 1 BY <1>2
  <2> QED BY <1>0, <1>2, <2>1 DEF Orderly
<1>3. ASSUME NEW k \in DOMAIN Tail(s), NEW m \in DOMAIN Tail(s), k < m, Tail(s)[k].do = "unlock"
      PROVE  Tail(s)[m].do = "unlock" /\ Tail(s)[m] # Tail(s)[k]
  <2>1. /\ k + 1 \in DOMAIN s /\ Tail(s)[k] = s[k + 1]
        /\ m + 1 \in DOMAIN s /\ Tail(s)[m] = s[m + 1] /\ k + 1 < m + 1 BY <1>3
  <2> QED BY <1>3, <2>1 DEF Orderly
<1> QED BY <1>1, <1>2, <1>3 DEF Orderly

\* The locks of p stay with p.
LEMMA OrderlyOthers ==
  ASSUME NEW s, NEW tab, NEW tab2, NEW p, Orderly(s, tab, p),
         \A l \in Locks : tab[Place(l)] = p => tab2[Place(l)] = p
  PROVE  Orderly(s, tab2, p)
BY DEF Orderly

\* A lock is taken.
LEMMA OrderlyLock ==
  ASSUME NEW S, NEW s \in Seq(S), s # <<>>, NEW p, p # Free, NEW tab, NEW l0 \in Locks,
         tab \in [{Place(l) : l \in Locks} -> Procs \cup {Free}],
         Orderly(s, tab, p), Head(s) = Lock(l0), tab[Place(l0)] = Free
  PROVE  Orderly(Tail(s), [tab EXCEPT ![Place(l0)] = p], p)
<1> DEFINE tab2 == [tab EXCEPT ![Place(l0)] = p]
<1> USE TailFacts
<1>0. \A k \in 1..(Len(s) - 1), l \in Locks : Pending(s, k + 1, l) <=> (Pending(Tail(s), k, l) \/ l = l0)
  BY PendingTail DEF Lock
<1>00. \A l \in Locks : /\ tab[Place(l)] = p => tab2[Place(l)] = p /\ Place(l) # Place(l0)
                        /\ tab2[Place(l0)] = p
  OBVIOUS
<1> HIDE DEF tab2
<1>1. ASSUME NEW k \in DOMAIN Tail(s), NEW l \in Locks,
             Tail(s)[k] = Unlock(l) \/ Needs(Tail(s)[k], l)
      PROVE  Pending(Tail(s), k, l) \/ tab2[Place(l)] = p
  <2>1. k + 1 \in DOMAIN s /\ Tail(s)[k] = s[k + 1] OBVIOUS
  <2> QED BY <1>0, <1>00, <1>1, <2>1 DEF Orderly
<1>2. ASSUME NEW k \in DOMAIN Tail(s), NEW m \in DOMAIN Tail(s), NEW l1 \in Locks, NEW l2 \in Locks,
             k < m, Tail(s)[k] = Unlock(l1), Tail(s)[m] = Unlock(l2),
             ~Pending(Tail(s), k, l1), ~Pending(Tail(s), m, l2)
      PROVE  Place(l1) # Place(l2)
  <2>1. /\ k + 1 \in DOMAIN s /\ Tail(s)[k] = s[k + 1]
        /\ m + 1 \in DOMAIN s /\ Tail(s)[m] = s[m + 1] /\ k + 1 < m + 1 BY <1>2
  <2>2. CASE l1 = l0 /\ l2 # l0
    BY <1>0, <1>00, <1>2, <2>1, <2>2 DEF Orderly
  <2>3. CASE l1 # l0 /\ l2 = l0
    BY <1>0, <1>00, <1>2, <2>1, <2>3 DEF Orderly
  <2>4. CASE l1 # l0 /\ l2 # l0
    BY <1>0, <1>2, <2>1, <2>4 DEF Orderly
  <2>5. CASE l1 = l0 /\ l2 = l0
    BY <1>2, <2>1, <2>5 DEF Orderly, Unlock
  <2> QED BY <2>2, <2>3, <2>4, <2>5
<1>3. ASSUME NEW k \in DOMAIN Tail(s), NEW m \in DOMAIN Tail(s), k < m, Tail(s)[k].do = "unlock"
      PROVE  Tail(s)[m].do = "unlock" /\ Tail(s)[m] # Tail(s)[k]
  <2>1. /\ k + 1 \in DOMAIN s /\ Tail(s)[k] = s[k + 1]
        /\ m + 1 \in DOMAIN s /\ Tail(s)[m] = s[m + 1] /\ k + 1 < m + 1 BY <1>3
  <2> QED BY <1>3, <2>1 DEF Orderly
<1>4. Orderly(Tail(s), tab2, p) BY <1>1, <1>2, <1>3 DEF Orderly
<1> QED BY <1>4 DEF tab2

\* A lock is released.
LEMMA OrderlyUnlock ==
  ASSUME NEW S, NEW s \in Seq(S), s # <<>>, NEW p, NEW tab, NEW l0 \in Locks,
         tab \in [{Place(l) : l \in Locks} -> Procs \cup {Free}],
         Orderly(s, tab, p), Head(s) = Unlock(l0)
  PROVE  /\ tab[Place(l0)] = p
         /\ Orderly(Tail(s), [tab EXCEPT ![Place(l0)] = Free], p)
<1> DEFINE tab2 == [tab EXCEPT ![Place(l0)] = Free]
<1> USE TailFacts
<1>0. \A k \in DOMAIN s : s[k].do = "unlock" /\ \A l \in Locks : ~Pending(s, k, l)
  <2>1. 1 \in DOMAIN s /\ s[1].do = "unlock" BY DEF Unlock
  <2>2. \A k \in DOMAIN s : s[k].do = "unlock" BY <2>1 DEF Orderly
  <2> QED BY <2>2 DEF Pending, Lock
<1>1. tab[Place(l0)] = p
  <2>1. 1 \in DOMAIN s /\ s[1] = Unlock(l0) OBVIOUS
  <2> QED BY <1>0, <2>1 DEF Orderly
<1>2. \A l \in Locks : Place(l) # Place(l0) => tab2[Place(l)] = tab[Place(l)]
  OBVIOUS
<1> HIDE DEF tab2
<1>3. \A k \in DOMAIN Tail(s) : k + 1 \in DOMAIN s /\ Tail(s)[k] = s[k + 1] /\ 1 < k + 1
  OBVIOUS
<1>4. ASSUME NEW k \in DOMAIN Tail(s), NEW l \in Locks,
             Tail(s)[k] = Unlock(l) \/ Needs(Tail(s)[k], l)
      PROVE  tab2[Place(l)] = p
  <2>1. Tail(s)[k] = Unlock(l) BY <1>0, <1>3, <1>4 DEF Needs
  <2>2. tab[Place(l)] = p BY <1>0, <1>3, <2>1 DEF Orderly
  <2>3. 1 \in DOMAIN s /\ s[1] = Unlock(l0) OBVIOUS
  <2>4. Place(l0) # Place(l) BY <1>0, <1>3, <2>1, <2>3 DEF Orderly
  <2> QED BY <1>2, <2>2, <2>4
<1>5. ASSUME NEW k \in DOMAIN Tail(s), NEW m \in DOMAIN Tail(s), NEW l1 \in Locks, NEW l2 \in Locks,
             k < m, Tail(s)[k] = Unlock(l1), Tail(s)[m] = Unlock(l2)
      PROVE  Place(l1) # Place(l2)
  <2>1. k + 1 < m + 1 BY <1>5
  <2> QED BY <1>0, <1>3, <1>5, <2>1 DEF Orderly
<1>6. ASSUME NEW k \in DOMAIN Tail(s), NEW m \in DOMAIN Tail(s), k < m
      PROVE  Tail(s)[m].do = "unlock" /\ Tail(s)[m] # Tail(s)[k]
  <2>1. k + 1 < m + 1 BY <1>6
  <2> QED BY <1>0, <1>3, <2>1 DEF Orderly
<1>7. Orderly(Tail(s), tab2, p) BY <1>4, <1>5, <1>6 DEF Orderly
<1> QED BY <1>1, <1>7 DEF tab2

\* mergeFiles has read the directory.
LEMMA OrderlyMerge ==
  ASSUME NEW S, NEW s \in Seq(S), s # <<>>, NEW t \in S, NEW p, NEW tab,
         Orderly(s, tab, p), Head(s).do = "chunks", t.do = "merge"
  PROVE  Orderly(<<t>> \o Tail(s), tab, p)
<1> DEFINE s2 == <<t>> \o Tail(s)
<1> USE TailFacts
<1>1. /\ DOMAIN s2 = DOMAIN s
      /\ s2[1] = t
      /\ \A k \in DOMAIN s : k # 1 => s2[k] = s[k]
  OBVIOUS
<1> HIDE DEF s2
<1>2. \A k \in DOMAIN s, l \in Locks : Pending(s2, k, l) <=> Pending(s, k, l)
  <2>1. \A k \in DOMAIN s : \A j \in 1..(k - 1), l \in Locks : s2[j] = Lock(l) <=> s[j] = Lock(l)
    <3>1. \A l \in Locks : s2[1] # Lock(l) /\ s[1] # Lock(l)
      BY <1>1 DEF Lock
    <3> QED BY <1>1, <3>1
  <2> QED BY <2>1 DEF Pending
<1>3. /\ \A l \in Locks : s2[1] # Unlock(l) /\ s2[1].do # "unlock"
      /\ \A l \in Locks : Needs(s2[1], l) <=> Needs(s[1], l)
  BY <1>1 DEF Unlock, Needs
<1>4. ASSUME NEW k \in DOMAIN s, NEW l \in Locks, s2[k] = Unlock(l) \/ Needs(s2[k], l)
      PROVE  Pending(s2, k, l) \/ tab[Place(l)] = p
  BY <1>1, <1>2, <1>3, <1>4 DEF Orderly
<1>5. ASSUME NEW k \in DOMAIN s, NEW m \in DOMAIN s, NEW l1 \in Locks, NEW l2 \in Locks,
             k < m, s2[k] = Unlock(l1), s2[m] = Unlock(l2),
             ~Pending(s2, k, l1), ~Pending(s2, m, l2)
      PROVE  Place(l1) # Place(l2)
  BY <1>1, <1>2, <1>3, <1>5 DEF Orderly
<1>6. ASSUME NEW k \in DOMAIN s, NEW m \in DOMAIN s, k < m, s2[k].do = "unlock"
      PROVE  s2[m].do = "unlock" /\ s2[m] # s2[k]
  BY <1>1, <1>3, <1>6 DEF Orderly
<1>7. Orderly(s2, tab, p) BY <1>1, <1>4, <1>5, <1>6 DEF Orderly
<1> QED BY <1>7 DEF s2

LEMMA OrderlyEmpty ==
  ASSUME NEW tab, NEW p
  PROVE  Orderly(<<>>, tab, p)
BY DEF Orderly

\* An operation under one lock.
LEMMA LockedFacts ==
  ASSUME NEW S, NEW ts \in Seq(S), NEW l
  PROVE  /\ Len(Locked(l, ts)) = Len(ts) + 2
         /\ DOMAIN Locked(l, ts) = 1..(Len(ts) + 2)
         /\ Locked(l, ts)[1] = Lock(l)
         /\ \A k \in 1..Len(ts) : Locked(l, ts)[k + 1] = ts[k]
         /\ Locked(l, ts)[Len(ts) + 2] = Unlock(l)
         /\ \A k \in DOMAIN Locked(l, ts) :
              k = 1 \/ k = Len(ts) + 2 \/ (k - 1 \in 1..Len(ts) /\ Locked(l, ts)[k] = ts[k - 1])
         /\ \A T : S \subseteq T /\ Lock(l) \in T /\ Unlock(l) \in T => Locked(l, ts) \in Seq(T)
<1> DEFINE T0 == S \cup {Lock(l), Unlock(l)}
<1>1. <<Lock(l)>> \in Seq(T0) /\ <<Unlock(l)>> \in Seq(T0) /\ ts \in Seq(T0) OBVIOUS
<1>2. /\ Len(Locked(l, ts)) = Len(ts) + 2
      /\ DOMAIN Locked(l, ts) = 1..(Len(ts) + 2)
      /\ Locked(l, ts)[1] = Lock(l)
      /\ Locked(l, ts)[Len(ts) + 2] = Unlock(l)
      /\ Locked(l, ts) \in Seq(T0)
  BY <1>1 DEF Locked
<1>3. \A k \in 1..Len(ts) : Locked(l, ts)[k + 1] = ts[k]
  BY <1>1 DEF Locked
<1>4. \A k \in DOMAIN Locked(l, ts) :
        k = 1 \/ k = Len(ts) + 2 \/ (k - 1 \in 1..Len(ts) /\ Locked(l, ts)[k] = ts[k - 1])
  BY <1>2, <1>3
<1>5. ASSUME NEW T, S \subseteq T, Lock(l) \in T, Unlock(l) \in T
      PROVE  Locked(l, ts) \in Seq(T)
  <2>1. \A k \in 1..(Len(ts) + 2) : Locked(l, ts)[k] \in T BY <1>2, <1>4, <1>5
  <2> QED BY <1>2, <2>1
<1> QED BY <1>2, <1>3, <1>4, <1>5

\* An operation whose tasks all need its own lock, if any.
LEMMA OrderlyLocked ==
  ASSUME NEW S, NEW ts \in Seq(S), NEW l0 \in Locks, NEW tab, NEW p,
         \A k \in 1..Len(ts) : /\ ts[k].do \notin {"lock", "unlock"}
                               /\ \A l \in Locks : Needs(ts[k], l) => l = l0
  PROVE  Orderly(Locked(l0, ts), tab, p)
<1> DEFINE s == Locked(l0, ts)
<1>0. /\ Len(ts) \in Nat /\ DOMAIN s = 1..(Len(ts) + 2) /\ s[1] = Lock(l0)
      /\ s[Len(ts) + 2] = Unlock(l0)
      /\ \A k \in DOMAIN s : k = 1 \/ k = Len(ts) + 2 \/ (k - 1 \in 1..Len(ts) /\ s[k] = ts[k - 1])
  BY LockedFacts
<1> HIDE DEF s
<1>1. \A k \in DOMAIN s : s[k].do = "unlock" => k = Len(ts) + 2
  BY <1>0 DEF Lock
<1>2. ASSUME NEW k \in DOMAIN s, NEW l \in Locks, s[k] = Unlock(l) \/ Needs(s[k], l)
      PROVE  l = l0 /\ k # 1
  BY <1>0, <1>2 DEF Lock, Unlock, Needs
<1>3. \A k \in DOMAIN s : k # 1 => Pending(s, k, l0)
  <2>1. \A k \in DOMAIN s : k # 1 => 1 \in 1..(k - 1) BY <1>0
  <2> QED BY <1>0, <2>1 DEF Pending
<1>4. \A l \in Locks : Unlock(l).do = "unlock" BY DEF Unlock
<1>5. \A k, m \in DOMAIN s : k < m => s[k].do # "unlock"
  BY <1>0, <1>1
<1>6. Orderly(s, tab, p)
  BY <1>2, <1>3, <1>4, <1>5 DEF Orderly
<1> QED BY <1>6 DEF s

-----------------------------------------------------------------------------
(* Base is inductive.                                                      *)

LEMMA SameSuite ==
  ASSUME suite' = suite
  PROVE  /\ \A n : Tasks(n)' = Tasks(n)
         /\ ProcType' = ProcType
         /\ \A l : Place(l)' = Place(l)
<1>1. \A n : Tasks(n)' = Tasks(n) BY DEF Tasks
<1>2. \A l : Place(l)' = Place(l) BY DEF Place
<1>3. ProcType' = ProcType
  <2>1. AllTasks' = AllTasks BY <1>1 DEF AllTasks
  <2> QED BY <2>1 DEF ProcType
<1> QED BY <1>1, <1>2, <1>3

LEMMA OrderlySame ==
  ASSUME suite' = suite, NEW p, Orderly(proc'[p].todo, table', p)
  PROVE  Orderly(proc[p].todo, table, p)'
BY SameSuite DEF Orderly

\* A step of p that leaves the other goroutines and their locks alone.
LEMMA Keep ==
  ASSUME Base, NEW p \in Procs, suite' = suite, ops' \in ops..MaxOps,
         disk' \in [Paths -> Content], chunks' \in [Indexes -> Content], torn' \subseteq Nat,
         table' \in [{Place(l) : l \in Locks} -> Procs \cup {Free}],
         proc' \in [Procs -> ProcType],
         \A r \in Procs : r # p => proc'[r] = proc[r],
         \A r \in Procs : r # p => \A l \in Locks : table[Place(l)] = r => table'[Place(l)] = r,
         WorkInv(p)', Orderly(proc'[p].todo, table', p),
         \/ proc'[p].at = "idle"
         \/ proc'[p].op = ops + 1
         \/ proc[p].at # "idle" /\ proc'[p].op = proc[p].op
  PROVE  Base'
<1>1. TypeInv'
  <2>1. {Place(l) : l \in Locks}' = {Place(l) : l \in Locks} BY SameSuite
  <2>2. ops \in Nat /\ ops' \in 0..MaxOps BY FilesAssumption DEF Base, TypeInv
  <2> QED BY <2>1, <2>2, SameSuite DEF Base, TypeInv
<1>2. ASSUME NEW r \in Procs
      PROVE  WorkInv(r)' /\ Orderly(proc[r].todo, table, r)'
  <2>1. CASE r = p BY <2>1, OrderlySame
  <2>2. CASE r # p
    <3>1. WorkInv(r) /\ proc'[r] = proc[r] BY <2>2 DEF Base
    <3>2. \A k \in 1..ops : k \in 1..ops' BY FilesAssumption DEF Base, TypeInv
    <3>3. WorkInv(r)' BY <3>1, <3>2, SameSuite DEF WorkInv, Task
    <3>4. Orderly(proc'[r].todo, table', r)
      BY <2>2, <3>1, OrderlyOthers DEF Base
    <3> QED BY <3>3, <3>4, OrderlySame
  <2> QED BY <2>1, <2>2
<1>3. ASSUME NEW r \in Procs, NEW q \in Procs, r # q, proc'[r].at # "idle", proc'[q].at # "idle"
      PROVE  proc'[r].op # proc'[q].op
  <2>1. \A s \in Procs : proc[s].at # "idle" => proc[s].op # ops + 1
    BY FilesAssumption DEF Base, TypeInv, WorkInv
  <2> QED BY <1>3, <2>1 DEF Base
<1> QED BY <1>1, <1>2, <1>3 DEF Base

LEMMA IdleFacts ==
  /\ Idle \in ProcType
  /\ Idle.at = "idle" /\ Idle.todo = <<>> /\ Idle.op = 0 /\ Idle.src = <<>> /\ Idle.tmp = <<>>
  /\ Idle.parts = {}
BY FilesAssumption DEF Idle, ProcType, Content

LEMMA ProcFacts ==
  ASSUME Base, NEW p \in Procs
  PROVE  /\ proc[p] \in ProcType /\ proc[p].todo \in Seq(AllTasks)
         /\ proc[p].src \in Content /\ proc[p].tmp \in Content /\ proc[p].parts \subseteq Indexes
         /\ p # Free /\ WorkInv(p) /\ Orderly(proc[p].todo, table, p)
         /\ DOMAIN table = {Place(l) : l \in Locks}
BY FilesAssumption DEF Base, TypeInv, ProcType

LEMMA TaskOf ==
  ASSUME Base, NEW p \in Procs, proc[p].todo # <<>>
  PROVE  /\ Task(p) = proc[p].todo[1] /\ 1 \in DOMAIN proc[p].todo
         /\ Task(p) \in Tasks(proc[p].op) /\ proc[p].at # "idle"
         /\ proc[p].op \in 1..ops /\ proc[p].op \in 1..MaxOps /\ Task(p) \in AllTasks
<1>0. proc[p].todo \in Seq(AllTasks) BY ProcFacts
<1>1. /\ Task(p) = proc[p].todo[1] /\ 1 \in DOMAIN proc[p].todo /\ Task(p) \in AllTasks
  BY <1>0 DEF Task
<1>2. proc[p].at # "idle" BY ProcFacts, IdleFacts DEF WorkInv
<1>3. proc[p].op \in 1..ops BY <1>2, ProcFacts DEF WorkInv
<1>4. 1..ops \subseteq 1..MaxOps BY FilesAssumption DEF Base, TypeInv
<1> QED BY <1>1, <1>2, <1>3, <1>4, ProcFacts DEF WorkInv

LEMMA BaseInit == Init => Base
<1> SUFFICES ASSUME Init PROVE Base OBVIOUS
<1>1. TypeInv
  <2>1. <<<<0, 1>>, <<0, 2>>>> \in Content /\ Missing \in Content BY DEF Content, Missing
  <2>2. disk \in [Paths -> Content] /\ chunks \in [Indexes -> Content] BY <2>1 DEF Init
  <2>3. proc \in [Procs -> ProcType] BY IdleFacts DEF Init
  <2>4. table \in [{Place(l) : l \in Locks} -> Procs \cup {Free}] BY DEF Init, Place
  <2>5. suite \in Suites /\ torn = {} /\ ops = 0 /\ 0 \in 0..MaxOps BY FilesAssumption DEF Init
  <2> QED BY <2>2, <2>3, <2>4, <2>5 DEF TypeInv
<1>2. ASSUME NEW p \in Procs PROVE WorkInv(p) /\ Orderly(proc[p].todo, table, p)
  <2>1. proc[p] = Idle BY DEF Init
  <2> QED BY <2>1, IdleFacts, OrderlyEmpty DEF WorkInv
<1>3. \A p \in Procs : proc[p].at = "idle" BY IdleFacts DEF Init
<1> QED BY <1>1, <1>2, <1>3 DEF Base

\* The task is done.
LEMMA DoneFacts ==
  ASSUME Base, NEW p \in Procs, proc[p].todo # <<>>, Done(p), suite' = suite, ops' = ops,
         proc[p].parts = {}
  PROVE  /\ proc' \in [Procs -> ProcType]
         /\ \A r \in Procs : r # p => proc'[r] = proc[r]
         /\ proc'[p].todo = Tail(proc[p].todo) /\ proc'[p].at = "next"
         /\ proc'[p].op = proc[p].op /\ proc'[p].src = <<>> /\ proc'[p].tmp = <<>>
         /\ proc'[p].parts = {} /\ WorkInv(p)' /\ proc[p].at # "idle"
<1>0. proc[p].todo \in Seq(AllTasks) BY ProcFacts
<1>1. proc \in [Procs -> ProcType] /\ proc[p] \in ProcType BY DEF Base, TypeInv
<1>2. /\ proc'[p] = [proc[p] EXCEPT !.todo = Tail(proc[p].todo), !.at = "next", !.src = <<>>,
                                    !.tmp = <<>>]
      /\ \A r \in Procs : r # p => proc'[r] = proc[r]
      /\ DOMAIN proc' = Procs /\ proc' = [r \in Procs |-> proc'[r]]
  BY <1>1 DEF Done
<1>3. Tail(proc[p].todo) \in Seq(AllTasks) BY <1>0
<1>4. proc'[p] \in ProcType
  <2>1. <<>> \in Content BY DEF Content
  <2> QED BY <1>1, <1>2, <1>3, <2>1 DEF ProcType
<1>5. /\ proc' \in [Procs -> ProcType]
      /\ proc'[p].todo = Tail(proc[p].todo) /\ proc'[p].at = "next"
      /\ proc'[p].op = proc[p].op /\ proc'[p].src = <<>> /\ proc'[p].tmp = <<>>
      /\ proc'[p].parts = {}
  <2>1. \A r \in Procs : proc'[r] \in ProcType BY <1>1, <1>2, <1>4
  <2>2. proc' \in [Procs -> ProcType] BY <1>2, <2>1
  <2> QED BY <1>1, <1>2, <2>2 DEF ProcType
<1>6. \A k \in DOMAIN Tail(proc[p].todo) : Tail(proc[p].todo)[k] \in Tasks(proc[p].op)
  <2>1. \A k \in DOMAIN proc[p].todo : proc[p].todo[k] \in Tasks(proc[p].op)
    BY ProcFacts DEF WorkInv
  <2>2. \A k \in DOMAIN Tail(proc[p].todo) :
          k + 1 \in DOMAIN proc[p].todo /\ Tail(proc[p].todo)[k] = proc[p].todo[k + 1]
    BY <1>0, TailFacts
  <2> QED BY <2>1, <2>2
<1>7. WorkInv(p)'
  BY <1>5, <1>6, TaskOf, SameSuite DEF WorkInv
<1> QED BY <1>2, <1>5, <1>7, TaskOf

\* An error returns.
LEMMA FailsFacts ==
  ASSUME Base, NEW p \in Procs, Fails(p), suite' = suite, ops' = ops
  PROVE  /\ proc' \in [Procs -> ProcType]
         /\ \A r \in Procs : r # p => proc'[r] = proc[r]
         /\ proc'[p] = Idle /\ WorkInv(p)'
         /\ table' \in [{Place(l) : l \in Locks} -> Procs \cup {Free}]
         /\ \A r \in Procs : r # p => \A l \in Locks : table[Place(l)] = r => table'[Place(l)] = r
         /\ Orderly(proc'[p].todo, table', p)
<1>1. proc \in [Procs -> ProcType] BY DEF Base, TypeInv
<1>2. /\ proc' \in [Procs -> ProcType] /\ proc'[p] = Idle
      /\ \A r \in Procs : r # p => proc'[r] = proc[r]
  BY <1>1, IdleFacts DEF Fails
<1>3. table' \in [{Place(l) : l \in Locks} -> Procs \cup {Free}]
  BY DEF Fails, Base, TypeInv
<1>4. \A r \in Procs : r # p => \A l \in Locks : table[Place(l)] = r => table'[Place(l)] = r
  BY DEF Fails, Base, TypeInv
<1> QED BY <1>2, <1>3, <1>4, IdleFacts, OrderlyEmpty DEF WorkInv

LEMMA BaseFails ==
  ASSUME Base, NEW p \in Procs, Fails(p), suite' = suite, ops' = ops, disk' = disk,
         chunks' = chunks, torn' \subseteq Nat
  PROVE  Base'
<1>1. ops' \in ops..MaxOps BY FilesAssumption DEF Base, TypeInv
<1> QED BY <1>1, FailsFacts, IdleFacts, Keep DEF Base, TypeInv

\* The task is done, and took no lock.
LEMMA BaseDone ==
  ASSUME Base, NEW p \in Procs, proc[p].todo # <<>>, Task(p).do # "lock", Done(p),
         proc[p].parts = {}, suite' = suite, ops' = ops, table' = table,
         disk' \in [Paths -> Content], chunks' \in [Indexes -> Content], torn' \subseteq Nat
  PROVE  Base'
<1>1. ops' \in ops..MaxOps BY FilesAssumption DEF Base, TypeInv
<1>2. Orderly(proc'[p].todo, table', p)
  <2>1. proc[p].todo \in Seq(AllTasks) /\ Orderly(proc[p].todo, table, p) BY ProcFacts
  <2>2. proc'[p].todo = Tail(proc[p].todo) BY DoneFacts
  <2> QED BY <2>1, <2>2, OrderlyTail DEF Task
<1> QED BY <1>1, <1>2, DoneFacts, Keep DEF Base, TypeInv

Updated(p, r) == proc' = [proc EXCEPT ![p] = r]

\* A step within a task that writes.
LEMMA BaseMoves ==
  ASSUME Base, NEW p \in Procs, proc[p].todo # <<>>, suite' = suite, ops' = ops, table' = table,
         disk' \in [Paths -> Content], chunks' = chunks, torn' = torn,
         Updated(p, proc'[p]), proc'[p] \in ProcType,
         proc'[p].todo = proc[p].todo, proc'[p].op = proc[p].op,
         \/ proc'[p].at \in {"writing", "closed"} /\ Task(p).do \in {"put", "copy", "merge"}
         \/ proc'[p].at = "inPlace" /\ Task(p).do \in {"append", "extract"},
         proc'[p].parts # {} => proc'[p].at = "writing" /\ Task(p).do = "merge"
  PROVE  Base'
<1>1. ops' \in ops..MaxOps BY FilesAssumption DEF Base, TypeInv
<1>2. /\ proc' \in [Procs -> ProcType]
      /\ \A r \in Procs : r # p => proc'[r] = proc[r]
  <2>1. proc \in [Procs -> ProcType] BY DEF Base, TypeInv
  <2>2. /\ \A r \in Procs : r # p => proc'[r] = proc[r]
        /\ DOMAIN proc' = Procs /\ proc' = [r \in Procs |-> proc'[r]]
    BY <2>1 DEF Updated
  <2>3. \A r \in Procs : proc'[r] \in ProcType BY <2>1, <2>2
  <2> QED BY <2>2, <2>3
<1>3. WorkInv(p)'
  <2>1. Task(p)' = Task(p) BY DEF Task
  <2>2. proc[p].op \in 1..ops BY TaskOf
  <2>3. \A k \in DOMAIN proc[p].todo : proc[p].todo[k] \in Tasks(proc[p].op)
    BY ProcFacts DEF WorkInv
  <2>4. (\A k \in DOMAIN proc[p].todo : proc[p].todo[k] \in Tasks(proc[p].op))'
    BY <2>3, SameSuite
  <2> QED BY <2>1, <2>2, <2>4 DEF WorkInv
<1>4. Orderly(proc'[p].todo, table', p) BY <1>2, ProcFacts
<1> QED BY <1>1, <1>2, <1>3, <1>4, TaskOf, Keep DEF Base, TypeInv

\* The tasks that write through a temporary file, or in place.
LEMMA WritingTask ==
  ASSUME Base, NEW p \in Procs
  PROVE  /\ proc[p].at \in {"writing", "closed"} =>
              proc[p].todo # <<>> /\ Task(p).do \in {"put", "copy", "merge"}
         /\ proc[p].at = "inPlace" =>
              proc[p].todo # <<>> /\ Task(p).do \in {"append", "extract"} /\ proc[p].parts = {}
         /\ proc[p].at \in {"next", "closed"} => proc[p].parts = {}
BY ProcFacts DEF WorkInv

LEMMA LogContent ==
  ASSUME Base
  PROVE  /\ disk \in [Paths -> Content] /\ Log \in Paths /\ disk[Log] \in Content
         /\ \A q \in Paths : disk[q] \in Content
BY PathsThere DEF Base, TypeInv

\* What is still to be written.
LEMMA LeftFacts ==
  ASSUME Base, NEW p \in Procs, proc[p].at = "writing"
  PROVE  /\ Left(p) \in Content
         /\ Task(p).do = "copy" =>
              Left(p) = SubSeq(disk[Log], Len(proc[p].tmp) + 1, Len(disk[Log]))
         /\ Task(p).do # "copy" => Left(p) = proc[p].src
<1>1. proc[p].tmp \in Content /\ proc[p].src \in Content BY ProcFacts
<1>2. Task(p).do = "copy" => Task(p).from = Log
  BY WritingTask, TaskOf, TaskFacts DEF PutCopy
<1>3. disk[Log] \in Content BY LogContent
<1>4. SubSeq(disk[Log], Len(proc[p].tmp) + 1, Len(disk[Log])) \in Content
  BY <1>1, <1>3 DEF Content
<1> QED BY <1>1, <1>2, <1>4 DEF Left

LEMMA BaseCreateTemp ==
  ASSUME Base, NEW p \in Procs, CreateTemp(p) PROVE Base'
<1>1. proc[p].todo # <<>> /\ Task(p).do \in {"put", "copy", "merge"} /\ proc[p].at = "next"
  BY DEF CreateTemp, Doing
<1>2. Task(p) \in Tasks(proc[p].op) /\ proc[p].op \in Nat BY <1>1, TaskOf
<1>3. (IF Task(p).do = "put" THEN Task(p).src ELSE <<>>) \in Content
  <2>1. \A k \in Nat : Pieces(proc[p].op, k) \in Content BY <1>2 DEF Pieces, Content
  <2>2. Task(p).do = "put" => \E k \in Nat : Task(p).src = Pieces(proc[p].op, k)
    BY <1>2, TaskFacts, FilesAssumption DEF Put, Store
  <2> QED BY <2>1, <2>2 DEF Content
<1>4. (IF Task(p).do = "merge" THEN Task(p).parts ELSE {}) \in SUBSET Indexes
  BY <1>2, TaskFacts DEF Merge
<1>5. proc[p] \in ProcType /\ proc \in [Procs -> ProcType] BY ProcFacts DEF Base, TypeInv
<1>6. /\ Updated(p, proc'[p])
      /\ proc'[p] = [proc[p] EXCEPT !.at = "writing",
                                    !.src = IF Task(p).do = "put" THEN Task(p).src ELSE <<>>,
                                    !.parts = IF Task(p).do = "merge" THEN Task(p).parts ELSE {}]
  BY <1>5 DEF CreateTemp, Updated
<1>7. /\ proc'[p] \in ProcType /\ proc'[p].at = "writing" /\ proc'[p].todo = proc[p].todo
      /\ proc'[p].op = proc[p].op
      /\ proc'[p].parts = IF Task(p).do = "merge" THEN Task(p).parts ELSE {}
  BY <1>3, <1>4, <1>5, <1>6 DEF ProcType
<1> QED BY ZenonT(60), <1>1, <1>6, <1>7, BaseMoves DEF CreateTemp, fs, ghosts, Base, TypeInv

\* Every set of chunks has a first one.
LEMMA NextChunkFacts ==
  ASSUME NEW S, S \subseteq Indexes, S # {}
  PROVE  NextChunk(S) \in S /\ \A j \in S : NextChunk(S) <= j
<1> DEFINE R == OpToRel(<, Nat)
<1>1. S \subseteq Nat BY FilesAssumption
<1>2. R = {ss \in Nat \X Nat : ss[1] < ss[2]} BY DEF OpToRel
<1>3. IsWellFoundedOn(R, Nat) BY NatLessThanWellFounded
<1> HIDE DEF R
<1>4. \E i \in S : \A j \in S : ~(<<j, i>> \in R) BY <1>1, <1>3, WFMin
<1>5. PICK i \in S : \A j \in S : ~(<<j, i>> \in R) BY <1>4
<1>6. ASSUME NEW j \in S PROVE i <= j
  <2>1. i \in Nat /\ j \in Nat BY <1>1
  <2>2. <<j, i>> \in Nat \X Nat /\ <<j, i>>[1] = j /\ <<j, i>>[2] = i BY <2>1
  <2>3. ~(j < i) BY <1>2, <1>5, <2>2
  <2> QED BY <2>1, <2>3
<1> QED BY <1>6 DEF NextChunk

LEMMA BaseWriteTemp ==
  ASSUME Base, NEW p \in Procs, WriteTemp(p) PROVE Base'
<1>1. proc[p].todo # <<>> /\ Task(p).do \in {"put", "copy", "merge"} /\ proc[p].at = "writing"
  BY WritingTask DEF WriteTemp
<1>2. Left(p) \in Content /\ Left(p) # <<>> BY <1>1, LeftFacts DEF WriteTemp
<1>3. /\ Append(proc[p].tmp, Head(Left(p))) \in Content
      /\ Tail(Left(p)) \in Content
  <2>1. proc[p].tmp \in Content BY ProcFacts
  <2> QED BY <1>2, <2>1 DEF Content
<1>5. proc[p] \in ProcType /\ proc \in [Procs -> ProcType] BY ProcFacts DEF Base, TypeInv
<1>6. /\ Updated(p, proc'[p])
      /\ proc'[p] = [proc[p] EXCEPT !.tmp = Append(proc[p].tmp, Head(Left(p))), !.src = Tail(Left(p))]
  BY <1>5 DEF WriteTemp, Updated
<1>7. /\ proc'[p] \in ProcType /\ proc'[p].at = "writing" /\ proc'[p].todo = proc[p].todo
      /\ proc'[p].op = proc[p].op /\ proc'[p].parts = proc[p].parts
  BY <1>1, <1>3, <1>5, <1>6 DEF ProcType
<1>8. proc[p].parts # {} => Task(p).do = "merge" BY ProcFacts DEF WorkInv
<1> QED BY <1>1, <1>6, <1>7, <1>8, BaseMoves DEF WriteTemp, fs, ghosts, Base, TypeInv

LEMMA BaseCloseTemp ==
  ASSUME Base, NEW p \in Procs, CloseTemp(p) PROVE Base'
<1>1. proc[p].todo # <<>> /\ Task(p).do \in {"put", "copy", "merge"} /\ proc[p].at = "writing"
  BY WritingTask DEF CloseTemp
<1>5. proc[p] \in ProcType /\ proc \in [Procs -> ProcType] BY ProcFacts DEF Base, TypeInv
<1>6. /\ Updated(p, proc'[p])
      /\ proc'[p] = [proc[p] EXCEPT !.at = "closed"]
  BY <1>5 DEF CloseTemp, Updated
<1>7. /\ proc'[p] \in ProcType /\ proc'[p].at = "closed" /\ proc'[p].todo = proc[p].todo
      /\ proc'[p].op = proc[p].op /\ proc'[p].parts = {}
  BY <1>1, <1>5, <1>6 DEF ProcType, CloseTemp
<1> QED BY <1>1, <1>6, <1>7, BaseMoves DEF CloseTemp, fs, ghosts, Base, TypeInv

LEMMA BaseOpenChunk ==
  ASSUME Base, NEW p \in Procs, OpenChunk(p) PROVE Base'
<1>1. proc[p].todo # <<>> /\ Task(p).do = "merge" /\ proc[p].at = "writing" /\ proc[p].parts # {}
  BY WritingTask, ProcFacts DEF OpenChunk, WorkInv
<1>2. NextChunk(proc[p].parts) \in Indexes
  BY <1>1, ProcFacts, NextChunkFacts
<1>3. disk[Chunk(NextChunk(proc[p].parts))] \in Content BY <1>2, LogContent, PathsThere
<1>5. proc[p] \in ProcType /\ proc \in [Procs -> ProcType] BY ProcFacts DEF Base, TypeInv
<1>6. /\ Updated(p, proc'[p])
      /\ proc'[p] = [proc[p] EXCEPT !.src = disk[Chunk(NextChunk(proc[p].parts))],
                                    !.parts = proc[p].parts \ {NextChunk(proc[p].parts)}]
  BY <1>5 DEF OpenChunk, Updated
<1>7. /\ proc'[p] \in ProcType /\ proc'[p].at = "writing" /\ proc'[p].todo = proc[p].todo
      /\ proc'[p].op = proc[p].op
  BY <1>1, <1>3, <1>5, <1>6 DEF ProcType
<1> QED BY <1>1, <1>6, <1>7, BaseMoves DEF OpenChunk, fs, ghosts, Base, TypeInv

\* The tasks that write in place.
LEMMA InPlaceTask ==
  ASSUME Base, NEW p \in Procs, proc[p].todo # <<>>, Task(p).do \in {"append", "extract"}
  PROVE  /\ Task(p).src = Pieces(proc[p].op, 2) /\ Task(p).src \in Content
         /\ Task(p).do = "append" => Task(p).path = Log
         /\ Task(p).do = "extract" => Task(p).path[1] = "a"
<1>1. Task(p) \in Tasks(proc[p].op) /\ proc[p].op \in Nat BY TaskOf
<1>2. Pieces(proc[p].op, 2) \in Content BY <1>1 DEF Pieces, Content
<1> QED BY <1>1, <1>2, TaskFacts DEF AppendTo

LEMMA BaseOpenInPlace ==
  ASSUME Base, NEW p \in Procs, OpenInPlace(p) PROVE Base'
<1>1. proc[p].todo # <<>> /\ Task(p).do \in {"append", "extract"} /\ proc[p].at = "next"
      /\ proc[p].parts = {}
  BY WritingTask DEF OpenInPlace, Doing
<1>2. Task(p).src \in Content BY <1>1, InPlaceTask
<1>3. disk' \in [Paths -> Content]
  <2>1. <<>> \in Content BY DEF Content
  <2> QED BY <2>1, LogContent DEF OpenInPlace
<1>5. proc[p] \in ProcType /\ proc \in [Procs -> ProcType] BY ProcFacts DEF Base, TypeInv
<1>6. /\ Updated(p, proc'[p])
      /\ proc'[p] = [proc[p] EXCEPT !.at = "inPlace", !.src = Task(p).src]
  BY <1>5 DEF OpenInPlace, Updated
<1>7. /\ proc'[p] \in ProcType /\ proc'[p].at = "inPlace" /\ proc'[p].todo = proc[p].todo
      /\ proc'[p].op = proc[p].op /\ proc'[p].parts = {}
  BY <1>1, <1>2, <1>5, <1>6 DEF ProcType
<1> QED BY <1>1, <1>3, <1>6, <1>7, BaseMoves DEF OpenInPlace, ghosts, Base, TypeInv

LEMMA BaseWriteInPlace ==
  ASSUME Base, NEW p \in Procs, WriteInPlace(p) PROVE Base'
<1>1. proc[p].todo # <<>> /\ Task(p).do \in {"append", "extract"} /\ proc[p].at = "inPlace"
      /\ proc[p].parts = {} /\ proc[p].src # <<>>
  BY WritingTask DEF WriteInPlace
<1>2. proc[p].src \in Content BY ProcFacts
<1>3. disk' \in [Paths -> Content]
  <2>1. \A q \in Paths : Append(disk[q], Head(proc[p].src)) \in Content
    BY <1>1, <1>2, LogContent DEF Content
  <2> QED BY <2>1, LogContent DEF WriteInPlace
<1>4. Tail(proc[p].src) \in Content BY <1>1, <1>2 DEF Content
<1>5. proc[p] \in ProcType /\ proc \in [Procs -> ProcType] BY ProcFacts DEF Base, TypeInv
<1>6. /\ Updated(p, proc'[p])
      /\ proc'[p] = [proc[p] EXCEPT !.src = Tail(proc[p].src)]
  BY <1>5 DEF WriteInPlace, Updated
<1>7. /\ proc'[p] \in ProcType /\ proc'[p].at = "inPlace" /\ proc'[p].todo = proc[p].todo
      /\ proc'[p].op = proc[p].op /\ proc'[p].parts = {}
  BY <1>1, <1>4, <1>5, <1>6 DEF ProcType
<1> QED BY <1>1, <1>3, <1>6, <1>7, BaseMoves DEF WriteInPlace, ghosts, Base, TypeInv

LEMMA BaseRename ==
  ASSUME Base, NEW p \in Procs, Rename(p) PROVE Base'
<1>1. /\ proc[p].todo # <<>> /\ Task(p).do # "lock" /\ proc[p].parts = {}
      /\ proc[p].tmp \in Content
  BY WritingTask, ProcFacts DEF Rename
<1>2. disk' \in [Paths -> Content] BY <1>1, LogContent DEF Rename
<1>3. chunks' \in [Indexes -> Content] BY <1>1 DEF Rename, Base, TypeInv
<1> QED BY <1>1, <1>2, <1>3, BaseDone DEF Rename, Base, TypeInv

LEMMA BaseWroteInPlace ==
  ASSUME Base, NEW p \in Procs, WroteInPlace(p) PROVE Base'
<1>1. proc[p].todo # <<>> /\ Task(p).do # "lock" /\ proc[p].parts = {}
  BY WritingTask DEF WroteInPlace
<1> QED BY <1>1, BaseDone DEF WroteInPlace, fs, ghosts, Base, TypeInv

LEMMA BaseReadLocked ==
  ASSUME Base, NEW p \in Procs, ReadLocked(p) PROVE Base'
<1>1. proc[p].todo # <<>> /\ Task(p).do # "lock" /\ proc[p].parts = {}
  BY WritingTask DEF ReadLocked, Doing
<1> QED BY <1>1, BaseDone DEF ReadLocked, fs, Base, TypeInv

LEMMA BaseRemoveDone ==
  ASSUME Base, NEW p \in Procs, RemoveDone(p) PROVE Base'
<1>1. proc[p].todo # <<>> /\ Task(p).do # "lock" /\ proc[p].parts = {}
  BY WritingTask DEF RemoveDone, Doing
<1> QED BY <1>1, BaseDone DEF RemoveDone, fs, ghosts, Base, TypeInv

LEMMA BaseOpenFails ==
  ASSUME Base, NEW p \in Procs, OpenFails(p) PROVE Base'
BY BaseFails DEF OpenFails, fs, ghosts, Base, TypeInv

LEMMA BaseWriteTempFails ==
  ASSUME Base, NEW p \in Procs, WriteTempFails(p) PROVE Base'
BY BaseFails DEF WriteTempFails, fs, ghosts, Base, TypeInv

LEMMA BaseRemoveFails ==
  ASSUME Base, NEW p \in Procs, RemoveFails(p) PROVE Base'
BY BaseFails DEF RemoveFails, fs, ghosts, Base, TypeInv

LEMMA BaseWriteInPlaceFails ==
  ASSUME Base, NEW p \in Procs, WriteInPlaceFails(p) PROVE Base'
<1>1. proc[p].op \in Nat BY WritingTask, TaskOf DEF WriteInPlaceFails
<1>2. torn' \subseteq Nat BY <1>1 DEF WriteInPlaceFails, Base, TypeInv
<1> QED BY <1>2, BaseFails DEF WriteInPlaceFails, fs, ghosts

LEMMA BaseTakeLock ==
  ASSUME Base, NEW p \in Procs, TakeLock(p) PROVE Base'
<1>1. proc[p].todo # <<>> /\ Task(p).do = "lock" /\ proc[p].parts = {}
  BY WritingTask DEF TakeLock, Doing
<1>2. PICK l0 \in Locks : Task(p) = Lock(l0) BY <1>1, TaskOf, TaskFacts
<1>3. Task(p).lock = l0 BY <1>2 DEF Lock
<1>4. /\ table[Place(l0)] = Free
      /\ table' = [table EXCEPT ![Place(l0)] = p]
  BY <1>3 DEF TakeLock
<1>5. table \in [{Place(l) : l \in Locks} -> Procs \cup {Free}] BY DEF Base, TypeInv
<1>6. proc[p].todo \in Seq(AllTasks) /\ Orderly(proc[p].todo, table, p) /\ p # Free BY ProcFacts
<1>7. Orderly(Tail(proc[p].todo), table', p)
  <2>1. Head(proc[p].todo) = Lock(l0) BY <1>2 DEF Task
  <2> QED BY <1>1, <1>4, <1>5, <1>6, <2>1, OrderlyLock
<1>8. /\ table' \in [{Place(l) : l \in Locks} -> Procs \cup {Free}]
      /\ \A r \in Procs : r # p => \A l \in Locks : table[Place(l)] = r => table'[Place(l)] = r
  BY <1>4, <1>5, FilesAssumption
<1>9. ops' \in ops..MaxOps BY FilesAssumption DEF Base, TypeInv, TakeLock
<1>10. Done(p) /\ UNCHANGED <<disk, ops, chunks, torn, suite>> BY DEF TakeLock, fs, ghosts
<1> HIDE DEF TakeLock
<1> QED BY <1>1, <1>7, <1>8, <1>9, <1>10, DoneFacts, Keep DEF Base, TypeInv

LEMMA BaseReleaseLock ==
  ASSUME Base, NEW p \in Procs, ReleaseLock(p) PROVE Base'
<1>1. proc[p].todo # <<>> /\ Task(p).do = "unlock" /\ proc[p].parts = {}
  BY WritingTask DEF ReleaseLock, Doing
<1>2. PICK l0 \in Locks : Task(p) = Unlock(l0) BY <1>1, TaskOf, TaskFacts
<1>3. Task(p).lock = l0 BY <1>2 DEF Unlock
<1>4. table' = [table EXCEPT ![Place(l0)] = Free] BY <1>3 DEF ReleaseLock
<1>5. table \in [{Place(l) : l \in Locks} -> Procs \cup {Free}] BY DEF Base, TypeInv
<1>6. proc[p].todo \in Seq(AllTasks) /\ Orderly(proc[p].todo, table, p) BY ProcFacts
<1>7. Orderly(Tail(proc[p].todo), table', p) /\ table[Place(l0)] = p
  <2>1. Head(proc[p].todo) = Unlock(l0) BY <1>2 DEF Task
  <2>2. /\ table[Place(l0)] = p
        /\ Orderly(Tail(proc[p].todo), [table EXCEPT ![Place(l0)] = Free], p)
    BY <1>1, <1>5, <1>6, <2>1, OrderlyUnlock
  <2> QED BY <1>4, <2>2
<1>8. /\ table' \in [{Place(l) : l \in Locks} -> Procs \cup {Free}]
      /\ \A r \in Procs : r # p => \A l \in Locks : table[Place(l)] = r => table'[Place(l)] = r
  BY <1>4, <1>5, <1>7
<1>9. ops' \in ops..MaxOps BY FilesAssumption DEF Base, TypeInv, ReleaseLock
<1>10. Done(p) /\ UNCHANGED <<disk, ops, chunks, torn, suite>> BY DEF ReleaseLock, fs, ghosts
<1> QED BY <1>1, <1>7, <1>8, <1>9, <1>10, DoneFacts, Keep DEF Base, TypeInv

LEMMA BaseFinish ==
  ASSUME Base, NEW p \in Procs, Finish(p) PROVE Base'
<1>1. proc \in [Procs -> ProcType] BY DEF Base, TypeInv
<1>2. /\ proc' \in [Procs -> ProcType] /\ proc'[p] = Idle
      /\ \A r \in Procs : r # p => proc'[r] = proc[r]
  BY <1>1, IdleFacts DEF Finish
<1>3. ops' \in ops..MaxOps BY FilesAssumption DEF Base, TypeInv, Finish
<1>4. WorkInv(p)' /\ Orderly(proc'[p].todo, table', p)
  BY <1>2, IdleFacts, OrderlyEmpty DEF WorkInv
<1> QED BY <1>2, <1>3, <1>4, IdleFacts, Keep DEF Base, TypeInv, Finish, fs, ghosts

LEMMA ConsFacts ==
  ASSUME NEW S, NEW u \in Seq(S), NEW t \in S, NEW s, s = <<t>> \o u
  PROVE  /\ s \in Seq(S) /\ DOMAIN s = 1..(Len(u) + 1) /\ s[1] = t
         /\ \A k \in DOMAIN s : (k = 1 /\ s[k] = t) \/ (k - 1 \in 1..Len(u) /\ s[k] = u[k - 1])
<1>1. s \in Seq(S) /\ Len(s) = Len(u) + 1 /\ s[1] = t OBVIOUS
<1>2. DOMAIN s = 1..(Len(u) + 1) BY <1>1
<1>3. \A k \in 1..(Len(u) + 1) : k # 1 => k - 1 \in 1..Len(u) /\ s[k] = u[k - 1] OBVIOUS
<1> QED BY <1>1, <1>2, <1>3

LEMMA BaseListChunks ==
  ASSUME Base, NEW p \in Procs, ListChunks(p) PROVE Base'
<1> DEFINE s == proc[p].todo
           s2 == IF Task(p).path = <<>> THEN Tail(s) ELSE <<Merge(Task(p).path, Present)>> \o Tail(s)
<1>1. proc[p].todo # <<>> /\ Task(p).do = "chunks" /\ proc[p].parts = {} /\ proc[p].at = "next"
  BY WritingTask DEF ListChunks, Doing
<1>2. UNCHANGED <<disk, ops, chunks, torn, suite>> BY DEF ListChunks, fs, ghosts
<1>3. CASE Fails(p) BY <1>2, <1>3, BaseFails DEF Base, TypeInv
<1>4. CASE proc' = [proc EXCEPT ![p].todo = s2] /\ UNCHANGED table
  <2>1. s \in Seq(AllTasks) /\ Orderly(s, table, p) BY ProcFacts
  <2>2. Task(p) \in Tasks(proc[p].op) /\ proc[p].op \in 1..MaxOps /\ proc[p].op \in 1..ops
    BY <1>1, TaskOf
  <2>3. Task(p).path # <<>> => Merge(Task(p).path, Present) \in Tasks(proc[p].op)
    <3>1. Task(p).path # <<>> => Task(p).path = Merged(proc[p].op)
      BY <1>1, <2>2, TaskFacts DEF ReadChunks
    <3>2. Present \in SUBSET Indexes BY DEF Present
    <3> QED BY <3>1, <3>2 DEF Tasks
  <2>4. Task(p).path # <<>> => Merge(Task(p).path, Present) \in AllTasks
    BY <2>2, <2>3, FilesAssumption DEF AllTasks
  <2>5. Merge(Task(p).path, Present).do = "merge" BY DEF Merge
  <2>6. s2 \in Seq(AllTasks) /\ Orderly(s2, table, p)
    <3>1. Head(s).do = "chunks" BY <1>1 DEF Task
    <3>2. CASE Task(p).path = <<>> BY <1>1, <2>1, <3>1, <3>2, OrderlyTail, TailFacts
    <3>3. CASE Task(p).path # <<>>
      <4>1. Orderly(s2, table, p) BY <1>1, <2>1, <2>4, <2>5, <3>1, <3>3, OrderlyMerge
      <4>2. s2 \in Seq(AllTasks) BY <1>1, <2>1, <2>4, <3>3
      <4> QED BY <4>1, <4>2
    <3> QED BY <3>2, <3>3
  <2>7. \A k \in DOMAIN s2 : s2[k] \in Tasks(proc[p].op)
    <3>1. \A k \in DOMAIN s : s[k] \in Tasks(proc[p].op) BY ProcFacts DEF WorkInv
    <3>2. \A k \in 1..(Len(s) - 1) : Tail(s)[k] \in Tasks(proc[p].op)
      <4>1. \A k \in 1..(Len(s) - 1) : k + 1 \in DOMAIN s /\ Tail(s)[k] = s[k + 1]
        BY <1>1, <2>1, TailFacts
      <4> QED BY <3>1, <4>1
    <3>3. Len(Tail(s)) = Len(s) - 1 /\ DOMAIN Tail(s) = 1..(Len(s) - 1) /\ Tail(s) \in Seq(AllTasks)
      BY <1>1, <2>1, TailFacts
    <3>4. CASE Task(p).path = <<>> BY <3>2, <3>3, <3>4
    <3>5. CASE Task(p).path # <<>>
      <4>1. \A k \in DOMAIN s2 : \/ k = 1 /\ s2[k] = Merge(Task(p).path, Present)
                                 \/ k - 1 \in 1..(Len(s) - 1) /\ s2[k] = Tail(s)[k - 1]
        BY <2>4, <3>3, <3>5, ConsFacts
      <4> QED BY <2>3, <3>2, <3>5, <4>1
    <3> QED BY <3>4, <3>5
  <2> HIDE DEF s2
  <2>8. /\ proc'[p] = [proc[p] EXCEPT !.todo = s2]
        /\ \A r \in Procs : r # p => proc'[r] = proc[r]
        /\ DOMAIN proc' = Procs /\ proc' = [r \in Procs |-> proc'[r]]
    BY <1>4 DEF Base, TypeInv
  <2>9. /\ proc'[p] \in ProcType /\ proc'[p].at = "next" /\ proc'[p].todo = s2
        /\ proc'[p].op = proc[p].op /\ proc'[p].src = proc[p].src /\ proc'[p].tmp = proc[p].tmp
        /\ proc'[p].parts = {}
    <3>1. proc[p] \in ProcType BY ProcFacts
    <3> QED BY <1>1, <2>6, <2>8, <3>1 DEF ProcType
  <2>10. proc' \in [Procs -> ProcType]
    <3>1. \A r \in Procs : proc'[r] \in ProcType BY <2>8, <2>9 DEF Base, TypeInv
    <3> QED BY <2>8, <3>1
  <2>11. WorkInv(p)'
    <3>1. (\A k \in DOMAIN proc[p].todo : proc[p].todo[k] \in Tasks(proc[p].op))'
      BY <1>2, <2>7, <2>9, SameSuite
    <3>2. proc[p].src = <<>> /\ proc[p].tmp = <<>> BY <1>1, ProcFacts DEF WorkInv
    <3> QED BY <1>2, <2>2, <2>9, <3>1, <3>2 DEF WorkInv
  <2>12. ops' \in ops..MaxOps BY <1>2, FilesAssumption DEF Base, TypeInv
  <2>13. Orderly(proc'[p].todo, table', p) BY <1>4, <2>6, <2>9
  <2> QED BY <1>1, <1>2, <1>4, <2>8, <2>9, <2>10, <2>11, <2>12, <2>13, Keep DEF Base, TypeInv
<1> QED BY <1>3, <1>4 DEF ListChunks

LEMMA BaseRemoveChunk ==
  ASSUME Base, NEW p \in Procs, RemoveChunk(p) PROVE Base'
<1>1. disk' \in [Paths -> Content]
  <2>1. Missing \in Content BY DEF Missing, Content
  <2> QED BY <2>1, LogContent DEF RemoveChunk
<1>2. ops' \in ops..MaxOps BY FilesAssumption DEF Base, TypeInv, RemoveChunk
<1>3. UNCHANGED <<table, proc, ops, chunks, torn, suite>> BY DEF RemoveChunk, ghosts
<1>4. proc[p].at # "idle" BY DEF RemoveChunk, Doing
<1>5. WorkInv(p)' BY <1>3, ProcFacts, SameSuite DEF WorkInv, Task
<1>6. Orderly(proc'[p].todo, table', p) BY <1>3, ProcFacts
<1> QED BY <1>1, <1>2, <1>3, <1>4, <1>5, <1>6, Keep DEF Base, TypeInv

\* Nothing happens that Base speaks of.
LEMMA BaseStutters ==
  ASSUME Base, UNCHANGED <<disk, table, proc, ops, chunks, torn, suite>>
  PROVE  Base'
<1>1. TypeInv' BY SameSuite DEF Base, TypeInv
<1>2. \A p \in Procs : WorkInv(p)' BY SameSuite DEF Base, WorkInv, Task
<1>3. \A p \in Procs : Orderly(proc[p].todo, table, p)'
  <2>1. \A p \in Procs : Orderly(proc'[p].todo, table', p) BY DEF Base
  <2> QED BY <2>1, OrderlySame
<1> QED BY <1>1, <1>2, <1>3 DEF Base

LEMMA BaseCrash ==
  ASSUME Base, Crash PROVE Base'
<1>1. \A p \in Procs : proc'[p] = Idle BY DEF Crash
<1>2. TypeInv'
  <2>1. proc' \in [Procs -> ProcType] BY IdleFacts DEF Crash
  <2>2. table' \in [{Place(l) : l \in Locks} -> Procs \cup {Free}]
    BY DEF Crash, Base, TypeInv
  <2>3. torn' \subseteq Nat
    <3>1. \A p \in Procs : proc[p].op \in Nat BY FilesAssumption DEF Base, TypeInv, ProcType
    <3> QED BY <3>1 DEF Crash, Base, TypeInv
  <2>4. suite' = suite /\ disk' = disk /\ ops' = ops /\ chunks' = chunks BY DEF Crash
  <2>5. {Place(l) : l \in Locks}' = {Place(l) : l \in Locks} BY <2>4, SameSuite
  <2> QED BY <2>1, <2>2, <2>3, <2>4, <2>5, SameSuite DEF Base, TypeInv
<1>3. \A p \in Procs : WorkInv(p)' BY <1>1, IdleFacts DEF WorkInv
<1>4. \A p \in Procs : Orderly(proc[p].todo, table, p)' BY <1>1, IdleFacts DEF Orderly
<1> QED BY <1>1, <1>2, <1>3, <1>4, IdleFacts DEF Base

-----------------------------------------------------------------------------
(* Operations begin with tasks that are in order.                          *)

Plan(s) ==
  /\ s \in Seq(Tasks(ops + 1)) /\ s # <<>> /\ s[1].do = "lock"
  /\ \A p \in Procs : Orderly(s, table, p)
  /\ WritesLast(s) /\ MergeOnce(s) /\ RemoveMerged(s)

Around(S, l, ts, s) ==
  /\ s \in Seq(S) /\ Len(s) = Len(ts) + 2 /\ DOMAIN s = 1..(Len(ts) + 2)
  /\ s[1] = Lock(l) /\ s[Len(ts) + 2] = Unlock(l)
  /\ \A k \in 1..Len(ts) : s[k + 1] = ts[k]

LEMMA LockedTasks ==
  ASSUME NEW S, NEW ts \in Seq(S), NEW l, Lock(l) \in S, Unlock(l) \in S,
         NEW s, s = Locked(l, ts)
  PROVE  Around(S, l, ts, s)
BY LockedFacts DEF Around

LEMMA PlanLocked ==
  ASSUME NEW ts \in Seq(Tasks(ops + 1)), NEW l0 \in Locks,
         \A k \in 1..Len(ts) : /\ ts[k].do \notin {"lock", "unlock", "merge"}
                               /\ ts[k].do \in {"append", "put"} => Len(ts) = 1
                               /\ ts[k].do = "chunks" => k = 1
                               /\ ts[k].do = "remove" =>
                                    k = 2 /\ ts[1].do = "chunks" /\ ts[1].path # <<>>
                               /\ \A l \in Locks : Needs(ts[k], l) => l = l0
  PROVE  Plan(Locked(l0, ts))
<1> DEFINE s == Locked(l0, ts)
<1>0. Lock(l0) \in Tasks(ops + 1) /\ Unlock(l0) \in Tasks(ops + 1) BY DEF Tasks
<1>1. /\ Len(ts) \in Nat /\ DOMAIN s = 1..(Len(ts) + 2) /\ s[1] = Lock(l0)
      /\ s[Len(ts) + 2] = Unlock(l0) /\ s \in Seq(Tasks(ops + 1))
      /\ \A k \in DOMAIN s : k = 1 \/ k = Len(ts) + 2 \/ (k - 1 \in 1..Len(ts) /\ s[k] = ts[k - 1])
  BY <1>0, LockedFacts
<1>2. \A p \in Procs : Orderly(s, table, p) BY OrderlyLocked
<1> HIDE DEF s
<1>3. Lock(l0).do = "lock" /\ Unlock(l0).do = "unlock" BY DEF Lock, Unlock
<1>4. MergeOnce(s)
  <2>1. \A k \in DOMAIN s : s[k].do # "merge" BY <1>1, <1>3
  <2>2. \A k \in DOMAIN s : s[k].do = "chunks" => k = 2 BY <1>1, <1>3
  <2> QED BY <2>1, <2>2 DEF MergeOnce
<1>40. RemoveMerged(s)
  <2>1. ASSUME NEW k \in DOMAIN s, s[k].do = "remove"
        PROVE  s[k - 1].do = "chunks" /\ s[k - 1].path # <<>>
    <3>1. k - 1 \in 1..Len(ts) /\ s[k] = ts[k - 1] BY <1>1, <1>3, <2>1
    <3>2. k - 1 = 2 /\ ts[1].do = "chunks" /\ ts[1].path # <<>> BY <2>1, <3>1
    <3>3. 2 \in DOMAIN s /\ 2 # Len(ts) + 2 BY <1>1, <3>1, <3>2
    <3>4. s[2] = ts[2 - 1] BY <1>1, <3>3
    <3>5. k - 1 = 2 BY <3>2
    <3> QED BY <3>2, <3>4, <3>5
  <2> QED BY <2>1 DEF RemoveMerged
<1>5. ASSUME NEW k \in DOMAIN s, NEW m \in DOMAIN s, k < m, s[k].do \in {"append", "put"}
      PROVE  s[m].do = "unlock"
  <2>1. k # 1 /\ k # Len(ts) + 2 BY <1>1, <1>3, <1>5
  <2>2. k - 1 \in 1..Len(ts) /\ ts[k - 1].do \in {"append", "put"} BY <1>1, <1>5, <2>1
  <2>3. Len(ts) = 1 BY <2>2
  <2>4. m = Len(ts) + 2 BY <1>1, <1>5, <2>1, <2>3
  <2> QED BY <1>1, <1>3, <2>4
<1>6. s # <<>> BY <1>1
<1>7. Plan(s) BY <1>1, <1>2, <1>3, <1>4, <1>40, <1>5, <1>6 DEF Plan, WritesLast
<1> QED BY <1>7 DEF s

\* An operation with one task.
LEMMA PlanOne ==
  ASSUME NEW t \in Tasks(ops + 1), NEW l0 \in Locks, t.do \notin {"lock", "unlock", "merge", "remove"},
         \A l \in Locks : Needs(t, l) => l = l0
  PROVE  Plan(Locked(l0, <<t>>))
<1> DEFINE ts == <<t>>
<1>1. ts \in Seq(Tasks(ops + 1)) /\ Len(ts) = 1 /\ ts[1] = t OBVIOUS
<1> HIDE DEF ts
<1>2. Plan(Locked(l0, ts)) BY <1>1, PlanLocked
<1> QED BY <1>2 DEF ts

LEMMA PlanUpload ==
  ASSUME Base, ops < MaxOps
  PROVE  /\ \A k \in 1..Limit + 1 :
              /\ Plan(Locked("upload", <<Store(Out(ops + 1), Pieces(ops + 1, k))>>))
              /\ \A i \in Indexes : Plan(Locked("upload", <<Store(Chunk(i), Pieces(ops + 1, k))>>))
         /\ Plan(Locked("upload", <<ReadChunks(<<>>)>>))
         /\ Plan(Locked("upload", <<ReadChunks(Merged(ops + 1)), RemoveChunks>>))
<1>1. ASSUME NEW k \in 1..Limit + 1
      PROVE  Plan(Locked("upload", <<Store(Out(ops + 1), Pieces(ops + 1, k))>>))
  <2>1. Store(Out(ops + 1), Pieces(ops + 1, k)) \in Tasks(ops + 1) BY DEF Tasks
  <2>2. /\ Store(Out(ops + 1), Pieces(ops + 1, k)).do = "put"
        /\ Store(Out(ops + 1), Pieces(ops + 1, k)).path = Out(ops + 1) BY DEF Store
  <2>3. Out(ops + 1)[1] = "out" BY PathFacts
  <2> QED BY <2>1, <2>2, <2>3, LocksThere, PlanOne DEF Needs
<1>2. ASSUME NEW k \in 1..Limit + 1, NEW i \in Indexes
      PROVE  Plan(Locked("upload", <<Store(Chunk(i), Pieces(ops + 1, k))>>))
  <2>1. Store(Chunk(i), Pieces(ops + 1, k)) \in Tasks(ops + 1) BY DEF Tasks
  <2>2. Store(Chunk(i), Pieces(ops + 1, k)).do = "put" BY DEF Store
  <2> QED BY <2>1, <2>2, LocksThere, PlanOne DEF Needs
<1>3. Plan(Locked("upload", <<ReadChunks(<<>>)>>))
  <2>1. ReadChunks(<<>>) \in Tasks(ops + 1) BY DEF Tasks
  <2>2. ReadChunks(<<>>).do = "chunks" BY DEF ReadChunks
  <2> QED BY <2>1, <2>2, LocksThere, PlanOne DEF Needs
<1>4. Plan(Locked("upload", <<ReadChunks(Merged(ops + 1)), RemoveChunks>>))
  <2> DEFINE a == ReadChunks(Merged(ops + 1))
             ts == <<a, RemoveChunks>>
  <2>1. a \in Tasks(ops + 1) /\ RemoveChunks \in Tasks(ops + 1) BY DEF Tasks
  <2>2. a.do = "chunks" /\ a.path # <<>> /\ RemoveChunks.do = "remove"
    BY PathFacts DEF ReadChunks, RemoveChunks
  <2> HIDE DEF a
  <2>3. ts \in Seq(Tasks(ops + 1)) /\ Len(ts) = 2 /\ ts[1] = a /\ ts[2] = RemoveChunks BY <2>1
  <2> HIDE DEF ts
  <2>4. \A k \in 1..Len(ts) : (k = 1 /\ ts[k].do = "chunks") \/ (k = 2 /\ ts[k].do = "remove")
    BY <2>2, <2>3
  <2>5. \A k \in 1..Len(ts) : \A l \in Locks : Needs(ts[k], l) => l = "upload"
    BY <2>4 DEF Needs
  <2>6. Plan(Locked("upload", ts)) BY <2>2, <2>3, <2>4, <2>5, LocksThere, PlanLocked
  <2> QED BY <2>6 DEF ts, a
<1> QED BY <1>1, <1>2, <1>3, <1>4

LEMMA PlanFiles ==
  ASSUME Base, ops < MaxOps
  PROVE  /\ Plan(Locked("file", <<Put(File, New)>>))
         /\ Plan(Locked("log", <<AppendTo(Log, New)>>))
         /\ Plan(Locked("file", <<ReadFile(File)>>))
         /\ Plan(Locked("log", <<ReadFile(Log)>>))
         /\ Plan(Locked("file", <<>>))
         /\ "Copy" \in suite.ops => Plan(Locked("file", <<PutCopy(File, Log)>>))
<1>1. Plan(Locked("file", <<Put(File, New)>>))
  <2>1. Put(File, New) \in Tasks(ops + 1) BY DEF Tasks, New
  <2>2. Put(File, New).do = "put" /\ Put(File, New).path[1] = "file" BY PathFacts DEF Put
  <2> QED BY <2>1, <2>2, LocksThere, PlanOne DEF Needs
<1>2. Plan(Locked("log", <<AppendTo(Log, New)>>))
  <2>1. AppendTo(Log, New) \in Tasks(ops + 1) BY DEF Tasks, New
  <2>2. AppendTo(Log, New).do = "append" BY DEF AppendTo
  <2> QED BY <2>1, <2>2, LocksThere, PlanOne DEF Needs
<1>3. Plan(Locked("file", <<ReadFile(File)>>))
  <2>1. ReadFile(File) \in Tasks(ops + 1) BY DEF Tasks
  <2>2. ReadFile(File).do = "read" /\ ReadFile(File).path # Log BY PathFacts DEF ReadFile
  <2> QED BY <2>1, <2>2, LocksThere, PlanOne DEF Needs
<1>4. Plan(Locked("log", <<ReadFile(Log)>>))
  <2>1. ReadFile(Log) \in Tasks(ops + 1) BY DEF Tasks
  <2>2. ReadFile(Log).do = "read" BY DEF ReadFile
  <2> QED BY <2>1, <2>2, LocksThere, PlanOne DEF Needs
<1>5. Plan(Locked("file", <<>>))
  <2> DEFINE ts == <<>>
  <2>1. ts \in Seq(Tasks(ops + 1)) /\ \A k \in 1..Len(ts) : FALSE OBVIOUS
  <2> HIDE DEF ts
  <2>2. Plan(Locked("file", ts)) BY <2>1, LocksThere, PlanLocked
  <2> QED BY <2>2 DEF ts
<1>6. ASSUME "Copy" \in suite.ops PROVE Plan(Locked("file", <<PutCopy(File, Log)>>))
  <2>1. PutCopy(File, Log) \in Tasks(ops + 1) BY <1>6 DEF Tasks
  <2>2. PutCopy(File, Log).do = "copy" BY DEF PutCopy
  <2> QED BY <2>1, <2>2, LocksThere, PlanOne DEF Needs
<1> QED BY <1>1, <1>2, <1>3, <1>4, <1>5, <1>6

\* One lock inside the other.
LEMMA PlanNested ==
  ASSUME Base, NEW d \in Locks, NEW e \in Locks, d # e,
         NEW a \in Tasks(ops + 1), a.do \in {"copy", "read"}, \A l \in Locks : Needs(a, l) => l = d,
         NEW b \in Tasks(ops + 1), b.do \in {"copy", "put"}, \A l \in Locks : ~Needs(b, l)
  PROVE  Plan(Locked(d, <<a>> \o Locked(e, <<b>>)))
<1> DEFINE T == Tasks(ops + 1)
           w == <<b>>
           v == Locked(e, w)
           u == <<a>> \o v
           s == Locked(d, u)
<1>1. d \in Locks /\ e \in Locks /\ e # d OBVIOUS
<1>2. /\ a \in T /\ b \in T /\ Lock(d) \in T /\ Lock(e) \in T
      /\ Unlock(e) \in T /\ Unlock(d) \in T
  BY <1>1 DEF Tasks
<1>3. /\ a.do \in {"copy", "read"} /\ b.do \in {"copy", "put"}
      /\ \A l : Lock(l).do = "lock" /\ Unlock(l).do = "unlock" /\ Unlock(l).lock = l /\ Lock(l).lock = l
  BY DEF Lock, Unlock
<1> HIDE DEF T
<1>4. /\ v \in Seq(T) /\ Len(v) = 3 /\ v[1] = Lock(e) /\ v[2] = b /\ v[3] = Unlock(e)
  <2>1. w \in Seq(T) /\ Len(w) = 1 /\ w[1] = b BY <1>2
  <2> HIDE DEF w
  <2>2. /\ v \in Seq(T) /\ Len(v) = Len(w) + 2 /\ DOMAIN v = 1..(Len(w) + 2)
        /\ v[1] = Lock(e) /\ v[Len(w) + 2] = Unlock(e)
        /\ \A k \in 1..Len(w) : v[k + 1] = w[k]
    <3>1. Lock(e) \in T /\ Unlock(e) \in T /\ w \in Seq(T) /\ v = Locked(e, w)
      BY <1>2, <2>1
    <3> HIDE DEF v
    <3>2. Around(T, e, w, v) BY <3>1, LockedTasks
    <3> QED BY <3>2 DEF Around
  <2> HIDE DEF v
  <2>3. v[1 + 1] = w[1] BY <2>1, <2>2
  <2> QED BY <2>1, <2>2, <2>3
<1> HIDE DEF v
<1>40. /\ u \in Seq(T) /\ Len(u) = 4 /\ u[1] = a /\ u[2] = Lock(e) /\ u[3] = b
       /\ u[4] = Unlock(e)
  <2>1. v \in Seq(T) /\ a \in T /\ u = <<a>> \o v BY <1>2, <1>4
  <2> HIDE DEF u
  <2>2. /\ u \in Seq(T) /\ DOMAIN u = 1..(Len(v) + 1) /\ u[1] = a
        /\ \A k \in DOMAIN u : (k = 1 /\ u[k] = a) \/ (k - 1 \in 1..Len(v) /\ u[k] = v[k - 1])
    BY <2>1, ConsFacts
  <2>3. DOMAIN u = 1..4 /\ Len(u) = 4 BY <1>4, <2>2
  <2>4. 2 \in DOMAIN u /\ 3 \in DOMAIN u /\ 4 \in DOMAIN u BY <2>3
  <2>5. \A k \in DOMAIN u : k # 1 => u[k] = v[k - 1] BY <2>2
  <2>6. u[2] = v[1] /\ u[3] = v[2] /\ u[4] = v[3] BY <2>4, <2>5
  <2> QED BY <1>4, <2>2, <2>3, <2>6
<1> HIDE DEF u
<1>5. /\ s \in Seq(T) /\ Len(s) = 6 /\ DOMAIN s = 1..6
      /\ s[1] = Lock(d) /\ s[2] = a /\ s[3] = Lock(e) /\ s[4] = b
      /\ s[5] = Unlock(e) /\ s[6] = Unlock(d)
  <2>1. /\ s \in Seq(T) /\ Len(s) = Len(u) + 2 /\ DOMAIN s = 1..(Len(u) + 2)
        /\ s[1] = Lock(d) /\ s[Len(u) + 2] = Unlock(d)
        /\ \A k \in 1..Len(u) : s[k + 1] = u[k]
    <3>1. Lock(d) \in T /\ Unlock(d) \in T /\ u \in Seq(T) /\ s = Locked(d, u)
      BY <1>2, <1>40
    <3> HIDE DEF s
    <3>2. Around(T, d, u, s) BY <3>1, LockedTasks
    <3> QED BY <3>2 DEF Around
  <2> HIDE DEF s
  <2>2. s[1 + 1] = u[1] /\ s[2 + 1] = u[2] /\ s[3 + 1] = u[3] /\ s[4 + 1] = u[4] BY <1>40, <2>1
  <2> QED BY <1>40, <2>1, <2>2
<1> HIDE DEF s
<1>6. \A k \in DOMAIN s : k \in {1, 2, 3, 4, 5, 6} BY <1>5
<1>7. /\ Pending(s, 2, d) /\ Pending(s, 5, e) /\ Pending(s, 6, d)
  <2>1. 1 \in 1..(2 - 1) /\ 3 \in 1..(5 - 1) /\ 1 \in 1..(6 - 1) OBVIOUS
  <2> QED BY <1>5, <2>1 DEF Pending
<1>8. \A k \in DOMAIN s, l \in Locks : Needs(s[k], l) => k = 2 /\ l = d
  <2>1. \A k \in DOMAIN s : k = 2 \/ k = 4 \/ s[k].do \in {"lock", "unlock"} BY <1>3, <1>5, <1>6
  <2>2. \A k \in DOMAIN s, l \in Locks : s[k].do \in {"lock", "unlock"} => ~Needs(s[k], l) BY DEF Needs
  <2> QED BY <1>5, <2>1, <2>2
<1>9. \A k \in DOMAIN s, l \in Locks :
        s[k] = Unlock(l) => (k = 5 /\ l = e) \/ (k = 6 /\ l = d)
  <2>1. \A k \in DOMAIN s : s[k].do = "unlock" => k = 5 \/ k = 6 BY <1>3, <1>5, <1>6
  <2> QED BY <1>3, <1>5, <2>1
<1>10. \A k, m \in DOMAIN s : k < m /\ s[k].do = "unlock" => s[m].do = "unlock" /\ s[m] # s[k]
  <2>1. \A k \in DOMAIN s : s[k].do = "unlock" => k = 5 \/ k = 6 BY <1>3, <1>5, <1>6
  <2> QED BY <1>1, <1>3, <1>5, <2>1
<1>11. \A p \in Procs : Orderly(s, table, p)
  BY <1>7, <1>8, <1>9, <1>10 DEF Orderly
<1>12. \A k \in DOMAIN s : /\ s[k].do \notin {"merge", "append", "chunks", "remove"}
                           /\ s[k].do = "put" => k = 4
  BY <1>3, <1>5, <1>6
<1>14. \A k \in DOMAIN s : k > 4 => s[k].do = "unlock"
  BY <1>3, <1>5, <1>6
<1>13. Plan(s)
  <2>1. s # <<>> /\ s[1].do = "lock"
    <3>1. s \in Seq(T) /\ Len(s) # 0 BY <1>5
    <3>2. s[1].do = "lock" BY <1>3, <1>5
    <3> QED BY <3>1, <3>2, EmptySeq
  <2>2. WritesLast(s)
    <3>1. \A k, m \in DOMAIN s : k < m /\ k = 4 => m > 4 BY <1>5
    <3> QED BY <1>12, <1>14, <3>1 DEF WritesLast
  <2>3. MergeOnce(s) /\ RemoveMerged(s) BY <1>12 DEF MergeOnce, RemoveMerged
  <2> QED BY <1>5, <1>11, <2>1, <2>2, <2>3 DEF Plan, T
<1> QED BY <1>13 DEF s, u, v, w

LEMMA PlanCopyDir ==
  ASSUME Base, NEW d \in Dirs
  PROVE  Plan(Locked(d, <<PutCopy(DirFile(d), Log)>>
                        \o Locked(Sub(d), <<PutCopy(SubFile(d), Log)>>)))
<1>1. /\ PutCopy(DirFile(d), Log) \in Tasks(ops + 1) /\ PutCopy(SubFile(d), Log) \in Tasks(ops + 1)
  BY DEF Tasks
<1>2. PutCopy(DirFile(d), Log).do = "copy" /\ PutCopy(SubFile(d), Log).do = "copy"
  BY DEF PutCopy
<1>3. \A l \in Locks : /\ ~Needs(PutCopy(DirFile(d), Log), l)
                      /\ ~Needs(PutCopy(SubFile(d), Log), l)
  BY <1>2 DEF Needs
<1> QED BY <1>1, <1>2, <1>3, LocksThere, PlanNested

\* A reader whose caller writes to another file.
LEMMA PlanReadLines ==
  ASSUME Base, NEW inside \in Callbacks, ops < MaxOps
  PROVE  Plan(Locked("log", <<ReadFile(Log)>> \o inside))
<1>1. CASE inside = <<>>
  <2>1. <<ReadFile(Log)>> \o inside = <<ReadFile(Log)>> BY <1>1
  <2> QED BY <2>1, PlanFiles
<1>2. CASE inside = Locked("file", <<Put(File, New)>>)
  <2>1. ReadFile(Log) \in Tasks(ops + 1) /\ Put(File, New) \in Tasks(ops + 1) BY DEF Tasks, New
  <2>2. /\ ReadFile(Log).do = "read"
        /\ Put(File, New).do = "put" /\ Put(File, New).path[1] = "file"
    BY PathFacts DEF Put, ReadFile
  <2>3. \A l \in Locks : (Needs(ReadFile(Log), l) => l = "log") /\ ~Needs(Put(File, New), l)
    BY <2>2 DEF Needs
  <2> QED BY <1>2, <2>1, <2>2, <2>3, LocksThere, PlanNested
<1> QED BY <1>1, <1>2 DEF Callbacks

\* Unpacking: nothing outside of the directory.
LEMMA PlanUnpack ==
  ASSUME Base, NEW names \in Entries
  PROVE  Plan(Unpack(names))
<1> DEFINE target == [k \in DOMAIN names |-> ArchiveTarget(<<"a">>, names[k])]
           Inside(k) == IsPrefix(<<"a">>, target[k])
           good == CHOOSE n \in 0..Len(names) : /\ \A k \in 1..n : Inside(k)
                                                /\ n < Len(names) => ~Inside(n + 1)
           ts == [k \in 1..good |-> Extract(target[k], New)]
<1>1. Len(names) = 2 /\ DOMAIN names = 1..2 BY DEF Entries
<1>2. good \in 0..2 /\ \A k \in 1..good : Inside(k)
  <2>1. \E n \in 0..Len(names) : /\ \A k \in 1..n : Inside(k)
                                 /\ n < Len(names) => ~Inside(n + 1)
    <3> HIDE DEF Inside
    <3>1. CASE ~Inside(1)
      <4>1. 0 \in 0..Len(names) /\ 1..0 = {} /\ 0 + 1 = 1 BY <1>1
      <4> QED BY <3>1, <4>1
    <3>2. CASE Inside(1) /\ ~Inside(2)
      <4>1. 1 \in 0..Len(names) /\ 1..1 = {1} /\ 1 + 1 = 2 BY <1>1
      <4> QED BY <3>2, <4>1
    <3>3. CASE Inside(1) /\ Inside(2)
      <4>1. 2 \in 0..Len(names) /\ 1..2 = {1, 2} /\ ~(2 < Len(names)) BY <1>1
      <4> QED BY <3>3, <4>1
    <3> QED BY <3>1, <3>2, <3>3
  <2> HIDE DEF Inside
  <2> QED BY <1>1, <2>1
<1> HIDE DEF good
<1>3. ASSUME NEW k \in 1..good
      PROVE  /\ k \in DOMAIN names /\ names[k] \in EntryNames
             /\ target[k] = ArchiveTarget(<<"a">>, names[k])
             /\ target[k][1] = "a"
  <2>1. k \in 1..2 BY <1>2
  <2>2. names[k] \in EntryNames BY <1>1, <2>1 DEF EntryNames, ToSet
  <2>3. IsPrefix(<<"a">>, target[k]) BY <1>2
  <2> HIDE DEF target
  <2>4. target[k][1] = "a" BY <2>3 DEF IsPrefix
  <2> QED BY <1>1, <2>1, <2>2, <2>4 DEF target
<1>4. \A k \in 1..good : Extract(target[k], New) \in Tasks(ops + 1)
  <2>1. ASSUME NEW k \in 1..good PROVE Extract(target[k], New) \in Tasks(ops + 1)
    <3>1. Extract(target[k], New) \in {Extract(ArchiveTarget(<<"a">>, e), Pieces(ops + 1, 2)) : e \in EntryNames}
      BY <1>3 DEF New
    <3>2. Extract(target[k], New).path[1] = "a" BY <1>3 DEF Extract
    <3> QED BY <3>1, <3>2 DEF Tasks
  <2> QED BY <2>1
<1> HIDE DEF target
<1>5. ts \in Seq(Tasks(ops + 1)) /\ Len(ts) = good BY <1>2, <1>4
<1>6. \A k \in 1..Len(ts) : ts[k].do = "extract" BY <1>5 DEF Extract
<1>7. "a" \in Locks BY LocksThere DEF Dirs
<1>8. Unpack(names) = Locked("a", ts) BY DEF Unpack, good, target
<1> HIDE DEF ts
<1>9. \A k \in 1..Len(ts), l \in Locks : ~Needs(ts[k], l) BY <1>6 DEF Needs
<1>10. Plan(Locked("a", ts)) BY <1>5, <1>6, <1>7, <1>9, PlanLocked
<1> QED BY <1>8, <1>10

\* Every operation begins with a plan.
LEMMA OperationPlan ==
  ASSUME Base, NEW p \in Procs, Operation(p)
  PROVE  \E name, tasks : Begin(p, name, tasks) /\ Plan(tasks)
<1>0. ops < MaxOps
  BY DEF Operation, Begin, Save, ChunkSave, ChunkList, ChunkMerge, JSONWrite, JSONLineWrite, TXTWrite,
         TXTLineWrite, CSVWrite, JSONLineAppend, CSVAppend, JSONRead, TXTRead, JSONLineRead,
         TXTLineRead, CSVRead, ReadLines, CopyFile, ZipPackDir, ZipPackFile, TarPack, TarGzPack, CopyDir,
         ZipUnpack, TarUnpack, TarGzUnpack
<1>1. CASE Save(p) BY <1>0, <1>1, PlanUpload DEF Save
<1>2. CASE ChunkSave(p) BY <1>0, <1>2, PlanUpload DEF ChunkSave
<1>3. CASE ChunkList(p) \/ ChunkMerge(p) BY <1>0, <1>3, PlanUpload DEF ChunkList, ChunkMerge
<1>4. CASE JSONWrite(p) \/ JSONLineWrite(p) \/ TXTWrite(p) \/ TXTLineWrite(p) \/ CSVWrite(p)
  BY <1>0, <1>4, PlanFiles DEF JSONWrite, JSONLineWrite, TXTWrite, TXTLineWrite, CSVWrite
<1>5. CASE JSONLineAppend(p) \/ CSVAppend(p)
  BY <1>0, <1>5, PlanFiles DEF JSONLineAppend, CSVAppend
<1>6. CASE JSONRead(p) \/ TXTRead(p)
  BY <1>0, <1>6, PlanFiles DEF JSONRead, TXTRead
<1>11. CASE JSONLineRead(p) \/ TXTLineRead(p) \/ CSVRead(p)
  <2>1. PICK inside \in Callbacks : Begin(p, "Read", Locked("log", <<ReadFile(Log)>> \o inside))
    BY <1>11 DEF JSONLineRead, TXTLineRead, CSVRead, ReadLines
  <2> QED BY <1>0, <2>1, PlanReadLines
<1>7. CASE CopyFile(p)
  <2>1. PICK from \in {Log, File} :
          Begin(p, "Copy", Locked("file", IF from = File THEN <<>> ELSE <<PutCopy(File, from)>>))
    BY <1>7 DEF CopyFile
  <2>2. "Copy" \in suite.ops BY <2>1 DEF Begin
  <2> QED BY <1>0, <2>1, <2>2, PlanFiles
<1>8. CASE ZipPackDir(p) \/ ZipPackFile(p) \/ TarPack(p) \/ TarGzPack(p)
  <2>1. Begin(p, "Copy", Locked("file", <<PutCopy(File, Log)>>))
    BY <1>8 DEF ZipPackDir, ZipPackFile, TarPack, TarGzPack
  <2>2. "Copy" \in suite.ops BY <2>1 DEF Begin
  <2> QED BY <1>0, <2>1, <2>2, PlanFiles
<1>9. CASE CopyDir(p) BY <1>9, PlanCopyDir DEF CopyDir
<1>10. CASE ZipUnpack(p) \/ TarUnpack(p) \/ TarGzUnpack(p)
  BY <1>10, PlanUnpack DEF ZipUnpack, TarUnpack, TarGzUnpack
<1> QED BY <1>1, <1>2, <1>3, <1>4, <1>5, <1>6, <1>7, <1>8, <1>9, <1>10, <1>11 DEF Operation

\* What a beginning does.
LEMMA BeginFacts ==
  ASSUME Base, NEW p \in Procs, NEW name, NEW tasks, Begin(p, name, tasks), Plan(tasks)
  PROVE  /\ proc' \in [Procs -> ProcType]
         /\ \A r \in Procs : r # p => proc'[r] = proc[r]
         /\ proc'[p].at = "next" /\ proc'[p].todo = tasks /\ proc'[p].op = ops + 1
         /\ proc'[p].src = <<>> /\ proc'[p].tmp = <<>> /\ proc'[p].parts = {}
         /\ ops' = ops + 1 /\ ops' \in ops..MaxOps /\ ops + 1 \in 1..MaxOps
         /\ UNCHANGED <<disk, litter, table, chunks, torn, seen, ranges, suite>>
<1>1. ops' = ops + 1 /\ ops' \in ops..MaxOps /\ ops + 1 \in 1..MaxOps
  BY FilesAssumption DEF Begin, Base, TypeInv
<1>2. tasks \in Seq(AllTasks)
  <2>1. Tasks(ops + 1) \subseteq AllTasks BY <1>1, FilesAssumption DEF AllTasks
  <2> QED BY <2>1 DEF Plan
<1>3. /\ proc'[p] = [Idle EXCEPT !.at = "next", !.todo = tasks, !.op = ops + 1]
      /\ \A r \in Procs : r # p => proc'[r] = proc[r]
      /\ DOMAIN proc' = Procs /\ proc' = [r \in Procs |-> proc'[r]]
  BY DEF Begin, Base, TypeInv
<1>4. /\ proc'[p] \in ProcType /\ proc'[p].at = "next" /\ proc'[p].todo = tasks
      /\ proc'[p].op = ops + 1 /\ proc'[p].src = <<>> /\ proc'[p].tmp = <<>> /\ proc'[p].parts = {}
  <2>1. ops + 1 \in 0..MaxOps BY <1>1, FilesAssumption
  <2>2. <<>> \in Content BY DEF Content
  <2> QED BY <1>2, <1>3, <2>1, <2>2 DEF Idle, ProcType
<1>5. proc' \in [Procs -> ProcType]
  <2>1. \A r \in Procs : proc'[r] \in ProcType BY <1>3, <1>4 DEF Base, TypeInv
  <2> QED BY <1>3, <2>1
<1> QED BY <1>1, <1>3, <1>4, <1>5 DEF Begin, fs, ghosts

LEMMA BaseBegin ==
  ASSUME Base, NEW p \in Procs, NEW name, NEW tasks, Begin(p, name, tasks), Plan(tasks)
  PROVE  Base'
<1>1. /\ proc'[p].at = "next" /\ proc'[p].todo = tasks /\ proc'[p].op = ops + 1
      /\ proc'[p].src = <<>> /\ proc'[p].tmp = <<>> /\ proc'[p].parts = {}
      /\ ops' = ops + 1 /\ ops' \in ops..MaxOps /\ ops + 1 \in 1..MaxOps
      /\ UNCHANGED <<disk, table, chunks, torn, suite>>
  BY BeginFacts
<1>2. WorkInv(p)'
  <2>1. \A k \in DOMAIN tasks : tasks[k] \in Tasks(ops + 1) BY DEF Plan
  <2>2. (\A k \in DOMAIN proc[p].todo : proc[p].todo[k] \in Tasks(proc[p].op))'
    BY <1>1, <2>1, SameSuite
  <2>3. proc'[p].op \in 1..ops' BY <1>1, FilesAssumption
  <2> QED BY <1>1, <2>2, <2>3 DEF WorkInv
<1>3. Orderly(proc'[p].todo, table', p) BY <1>1 DEF Plan
<1> QED BY <1>1, <1>2, <1>3, BeginFacts, Keep DEF Base, TypeInv

\* The cases of a step, for every invariant below.
LEMMA Steps ==
  ASSUME [Next]_vars
  PROVE  \/ \E p \in Procs :
            \/ Operation(p)
            \/ TakeLock(p) \/ ReleaseLock(p) \/ Finish(p) \/ CreateTemp(p) \/ WriteTemp(p)
            \/ CloseTemp(p) \/ Rename(p) \/ WriteTempFails(p) \/ OpenInPlace(p) \/ WriteInPlace(p)
            \/ WroteInPlace(p) \/ ReadLocked(p) \/ ListChunks(p) \/ OpenChunk(p) \/ RemoveChunk(p)
            \/ RemoveDone(p) \/ OpenFails(p) \/ WriteInPlaceFails(p) \/ RemoveFails(p)
         \/ ReadStream \/ Crash \/ UNCHANGED vars
BY DEF Next, Works, Breaks

LEMMA BaseNext == Base /\ [Next]_vars => Base'
<1> SUFFICES ASSUME Base, [Next]_vars PROVE Base' OBVIOUS
<1>1. ASSUME NEW p \in Procs, Operation(p) PROVE Base'
  <2>1. PICK name, tasks : Begin(p, name, tasks) /\ Plan(tasks) BY <1>1, OperationPlan
  <2> QED BY <2>1, BaseBegin
<1>2. CASE ReadStream BY <1>2, BaseStutters DEF ReadStream, fs, ghosts
<1>3. CASE UNCHANGED vars BY <1>3, BaseStutters DEF vars, fs, ghosts
<1>4. ASSUME NEW p \in Procs,
             \/ TakeLock(p) \/ ReleaseLock(p) \/ Finish(p) \/ CreateTemp(p) \/ WriteTemp(p)
             \/ CloseTemp(p) \/ Rename(p) \/ WriteTempFails(p) \/ OpenInPlace(p) \/ WriteInPlace(p)
      PROVE  Base'
  BY <1>4, BaseTakeLock, BaseReleaseLock, BaseFinish, BaseCreateTemp, BaseWriteTemp, BaseCloseTemp,
     BaseRename, BaseWriteTempFails, BaseOpenInPlace, BaseWriteInPlace
<1>5. ASSUME NEW p \in Procs,
             \/ WroteInPlace(p) \/ ReadLocked(p) \/ ListChunks(p) \/ OpenChunk(p) \/ RemoveChunk(p)
             \/ RemoveDone(p) \/ OpenFails(p) \/ WriteInPlaceFails(p) \/ RemoveFails(p)
      PROVE  Base'
  BY <1>5, BaseWroteInPlace, BaseReadLocked, BaseListChunks, BaseOpenChunk, BaseRemoveChunk,
     BaseRemoveDone, BaseOpenFails, BaseWriteInPlaceFails, BaseRemoveFails
<1> QED BY <1>1, <1>2, <1>3, <1>4, <1>5, BaseCrash, Steps

-----------------------------------------------------------------------------
(* What the files hold.                                                    *)

LEMMA PrefixFacts ==
  ASSUME NEW s \in Content, NEW t \in Content
  PROVE  IsPrefix(s, t) <=> Len(s) <= Len(t) /\ \A k \in 1..Len(s) : s[k] = t[k]
<1>1. Len(s) \in Nat /\ Len(t) \in Nat /\ Len(s) <= Len(s) BY DEF Content
<1> DEFINE u == SubSeq(s, 1, Len(s))
           v == SubSeq(t, 1, Len(s))
<1>2. u \in Content /\ Len(u) = Len(s) /\ \A k \in 1..Len(s) : u[k] = s[k] BY <1>1 DEF Content
<1>3. ASSUME Len(s) <= Len(t)
      PROVE  v \in Content /\ Len(v) = Len(s) /\ \A k \in 1..Len(s) : v[k] = t[k]
  BY <1>1, <1>3 DEF Content
<1> HIDE DEF u, v
<1>4. ASSUME Len(s) <= Len(t), \A k \in 1..Len(s) : s[k] = t[k] PROVE u = v
  <2>1. \A k \in 1..Len(u) : u[k] = v[k] BY <1>2, <1>3, <1>4
  <2> QED BY <1>2, <1>3, <1>4, <2>1, SeqEqual DEF Content
<1>5. ASSUME Len(s) <= Len(t), u = v PROVE \A k \in 1..Len(s) : s[k] = t[k]
  BY <1>2, <1>3, <1>5
<1> QED BY <1>4, <1>5 DEF IsPrefix, u, v

\* The log grows by a piece.
LEMMA GrowFacts ==
  ASSUME NEW s \in Content, NEW x \in Nat \X Nat, NEW t, t = Append(s, x)
  PROVE  /\ t \in Content /\ Len(t) = Len(s) + 1 /\ t[Len(s) + 1] = x
         /\ DOMAIN s = 1..Len(s) /\ DOMAIN t = 1..(Len(s) + 1) /\ Len(s) \in Nat
         /\ \A k \in 1..Len(s) : t[k] = s[k]
         /\ \A u \in Content : IsPrefix(u, s) => IsPrefix(u, t)
<1>1. /\ t \in Content /\ Len(t) = Len(s) + 1 /\ t[Len(s) + 1] = x
      /\ DOMAIN s = 1..Len(s) /\ DOMAIN t = 1..(Len(s) + 1) /\ Len(s) \in Nat
      /\ \A k \in 1..Len(s) : t[k] = s[k]
  BY DEF Content
<1>2. ASSUME NEW u \in Content, IsPrefix(u, s) PROVE IsPrefix(u, t)
  <2>1. Len(u) <= Len(s) /\ Len(u) \in Nat /\ \A k \in 1..Len(u) : u[k] = s[k]
    BY <1>2, PrefixFacts DEF Content
  <2>2. Len(u) <= Len(t) /\ \A k \in 1..Len(u) : u[k] = t[k] BY <1>1, <2>1
  <2> QED BY <1>1, <2>2, PrefixFacts
<1> QED BY <1>1, <1>2

LEMMA WholeFacts ==
  ASSUME NEW c, NEW cut
  PROVE  Whole(c, cut) <=> \A k \in DOMAIN c : c[k][1] \in cut \/ WholeAt(c, k)
BY DEF Whole, WholeAt

\* What a write leaves is whole.
LEMMA PiecesWhole ==
  ASSUME NEW n
  PROVE  Whole(Pieces(n, 2), {}) /\ Len(Pieces(n, 2)) = 2
<1> DEFINE c == Pieces(n, 2)
<1>1. DOMAIN c = 1..2 /\ Len(c) = 2 /\ c[1] = <<n, 1>> /\ c[2] = <<n, 2>> BY DEF Pieces
<1> HIDE DEF c
<1>2. WholeAt(c, 1) BY <1>1 DEF WholeAt
<1>3. WholeAt(c, 2) BY <1>1 DEF WholeAt
<1>4. \A k \in DOMAIN c : WholeAt(c, k) BY <1>1, <1>2, <1>3
<1>5. Whole(c, {}) BY <1>4, WholeFacts
<1> QED BY <1>1, <1>5 DEF c

\* ReadStream's answer.
LEMMA RangeFacts ==
  ASSUME NEW total \in Nat, NEW s \in Int, NEW e \in Int, NEW r, r = FileRange(total, s, e)
  PROVE  0 <= r.start /\ r.start <= total /\ r.end < total /\ r.n = r.end - r.start + 1
<1>1. CASE total = 0 BY <1>1 DEF FileRange
<1>2. CASE total > 0 /\ (IF s < 0 THEN 0 ELSE s) >= total BY <1>2 DEF FileRange
<1>3. CASE total > 0 /\ ~((IF s < 0 THEN 0 ELSE s) >= total)
  <2> DEFINE b == IF s < 0 THEN 0 ELSE s
             f == IF e <= 0 \/ e >= total THEN total - 1 ELSE e
             a == IF b > f THEN f ELSE b
  <2>1. r = [start |-> a, end |-> f, n |-> (IF f < total THEN f + 1 ELSE total) - a]
    BY <1>3 DEF FileRange
  <2>2. f < total /\ 0 <= f /\ f \in Int BY <1>3
  <2>3. 0 <= b /\ b < total /\ b \in Int BY <1>3
  <2> HIDE DEF f, b
  <2>4. 0 <= a /\ a <= total /\ a \in Int BY <2>2, <2>3
  <2> HIDE DEF a
  <2> QED BY <2>1, <2>2, <2>4
<1> QED BY <1>1, <1>2, <1>3

\* Who does a task holds its lock, so that nobody else does one that needs it.
LEMMA HoldsLock ==
  ASSUME Base, NEW p \in Procs, proc[p].todo # <<>>, NEW l \in Locks, Needs(Task(p), l)
  PROVE  table[Place(l)] = p
<1>1. Task(p) = proc[p].todo[1] /\ 1 \in DOMAIN proc[p].todo BY TaskOf
<1>2. ~Pending(proc[p].todo, 1, l) BY DEF Pending
<1> QED BY <1>1, <1>2, ProcFacts DEF Orderly

LEMMA OneAppender ==
  ASSUME Base, NEW p \in Procs, NEW r \in Procs, proc[p].todo # <<>>, Needs(Task(p), "log"),
         Appending(r)
  PROVE  r = p
<1>1. proc[r].todo # <<>> BY WritingTask DEF Appending
<1>2. Needs(Task(r), "log") BY DEF Appending, Needs
<1> QED BY <1>1, <1>2, HoldsLock, LocksThere

\* The files that NoTornFiles speaks of are as they were.
LEMMA SameFiles ==
  ASSUME NoTornFiles, suite' = suite, seen' = seen, ranges' = ranges, torn \subseteq torn',
         disk'[File] = disk[File], disk'[Log] = disk[Log], disk'[Outside] = disk[Outside],
         \A n \in 1..MaxOps : disk'[Out(n)] = disk[Out(n)]
  PROVE  NoTornFiles'
<1>1. \A s \in seen : Whole(s, torn) => Whole(s, torn') BY WholeFacts
<1>2. ("Copy" \notin suite.ops => \A s \in seen : Whole(s, torn))' BY <1>1 DEF NoTornFiles
<1>3. (Whole(disk[File], {}) \/ ("Copy" \in suite.ops /\ IsPrefix(disk[File], disk[Log])))'
  BY DEF NoTornFiles
<1>4. (\A n \in 1..MaxOps : disk[Out(n)] # Missing => Len(disk[Out(n)]) <= Limit)'
  BY DEF NoTornFiles
<1> QED BY <1>2, <1>3, <1>4 DEF NoTornFiles

\* A step of p that does not write to the log.
LEMMA SameLog ==
  ASSUME Base, Base', DiskInv, NEW p \in Procs, torn \subseteq torn', disk'[Log] = disk[Log],
         ops <= ops',
         \A r \in Procs : r # p => proc'[r] = proc[r],
         NoTornFiles', TempInv(p)', AppendInv(p)',
         Appending(p) /\ proc[p].src # <<>> =>
           \/ proc[p].op \in torn'
           \/ Appending(p)' /\ proc'[p].src # <<>> /\ proc'[p].op = proc[p].op
  PROVE  DiskInv'
<1>1. ASSUME NEW r \in Procs, r # p
      PROVE  TempInv(r)' /\ AppendInv(r)' /\ (Appending(r)' <=> Appending(r))
  <2>1. proc'[r] = proc[r] /\ Task(r)' = Task(r) BY <1>1 DEF Task
  <2>2. TempInv(r) /\ AppendInv(r) BY DEF DiskInv
  <2>3. Appending(r)' <=> Appending(r) BY <2>1 DEF Appending
  <2>4. TempInv(r)' BY <2>1, <2>2 DEF TempInv
  <2>5. AppendInv(r)' BY <2>1, <2>2, <2>3 DEF AppendInv
  <2> QED BY <2>3, <2>4, <2>5
<1>2. LogInv'
  <2>1. ASSUME NEW k \in DOMAIN disk[Log]
        PROVE  /\ disk[Log][k][1] <= ops'
               /\ \/ disk[Log][k][1] \in torn'
                  \/ WholeAt(disk[Log], k)
                  \/ \E r \in Procs : Appending(r)' /\ proc'[r].src # <<>> /\ disk[Log][k][1] = proc'[r].op
    <3>1. disk[Log][k][1] <= ops /\ disk[Log][k] \in Nat \X Nat
      BY LogContent DEF DiskInv, LogInv, Content
    <3>2. disk[Log][k][1] <= ops' BY <3>1, FilesAssumption DEF Base, TypeInv
    <3>3. CASE \E r \in Procs : Appending(r) /\ proc[r].src # <<>> /\ disk[Log][k][1] = proc[r].op
      <4>1. PICK r \in Procs : Appending(r) /\ proc[r].src # <<>> /\ disk[Log][k][1] = proc[r].op
        BY <3>3
      <4>2. CASE r = p BY <3>2, <4>1, <4>2
      <4>3. CASE r # p BY <1>1, <3>2, <4>1, <4>3
      <4> QED BY <4>2, <4>3
    <3> QED BY <3>2, <3>3 DEF DiskInv, LogInv
  <2>2. \A k : WholeAt(disk[Log], k)' <=> WholeAt(disk[Log], k) BY DEF WholeAt
  <2> QED BY <2>1, <2>2 DEF DiskInv, LogInv
<1> QED BY <1>1, <1>2 DEF DiskInv

LEMMA AppendTail ==
  ASSUME NEW S, NEW s \in Seq(S), s # <<>>, WritesLast(s)
  PROVE  /\ WritesLast(Tail(s))
         /\ WillAppend(Tail(s)) => WillAppend(s) /\ Head(s).do # "append"
<1>1. \A k \in DOMAIN Tail(s) : k + 1 \in DOMAIN s /\ Tail(s)[k] = s[k + 1] BY TailFacts
<1>2. 1 \in DOMAIN s /\ Head(s) = s[1] /\ \A k \in DOMAIN Tail(s) : k \in Nat /\ 1 < k + 1
  BY TailFacts
<1>3. WritesLast(Tail(s))
  <2>1. \A k, m \in DOMAIN Tail(s) : k < m => k + 1 < m + 1 BY <1>2
  <2> QED BY <1>1, <2>1 DEF WritesLast
<1>4. ASSUME NEW k \in DOMAIN Tail(s), Tail(s)[k].do = "append"
      PROVE  WillAppend(s) /\ Head(s).do # "append"
  <2>1. k + 1 \in DOMAIN s /\ s[k + 1].do = "append" /\ 1 < k + 1 BY <1>1, <1>2, <1>4
  <2> QED BY <1>2, <2>1 DEF WillAppend, WritesLast
<1> QED BY <1>3, <1>4 DEF WillAppend

\* The task is done; what is left is as it was.
LEMMA DiskDone ==
  ASSUME Base, Base', DiskInv, NEW p \in Procs, proc[p].todo # <<>>, Done(p),
         proc[p].parts = {}, suite' = suite, ops' = ops, disk'[Log] = disk[Log],
         torn \subseteq torn', NoTornFiles', Appending(p) => proc[p].src = <<>>
  PROVE  DiskInv'
<1>1. /\ \A r \in Procs : r # p => proc'[r] = proc[r]
      /\ proc'[p].todo = Tail(proc[p].todo) /\ proc'[p].at = "next"
      /\ proc'[p].op = proc[p].op
  BY DoneFacts
<1>2. proc[p].todo \in Seq(AllTasks) /\ WritesLast(proc[p].todo) BY ProcFacts DEF DiskInv, AppendInv
<1>3. WritesLast(proc'[p].todo) BY <1>1, <1>2, AppendTail
<1>4. WillAppend(proc'[p].todo) => ~Has(disk[Log], proc[p].op)
  <2>1. WillAppend(proc'[p].todo) => WillAppend(proc[p].todo) /\ Task(p).do # "append"
    BY <1>1, <1>2, AppendTail DEF Task
  <2> QED BY <2>1 DEF DiskInv, AppendInv, Appending
<1>5. TempInv(p)' /\ AppendInv(p)'
  <2>1. WritesLast(proc[p].todo)' BY <1>3 DEF WritesLast
  <2>2. (WillAppend(proc[p].todo) => ~Has(disk[Log], proc[p].op))' BY <1>1, <1>4 DEF WillAppend, Has
  <2> QED BY <1>1, <2>1, <2>2 DEF TempInv, AppendInv, Appending
<1>6. ops <= ops' BY FilesAssumption DEF Base, TypeInv
<1> QED BY <1>1, <1>5, <1>6, SameLog

\* The task fails.
LEMMA DiskFails ==
  ASSUME Base, Base', DiskInv, NEW p \in Procs, Fails(p), UNCHANGED <<disk, ops, seen, ranges, suite>>,
         torn \subseteq torn', Appending(p) => proc[p].op \in torn'
  PROVE  DiskInv'
<1>1. proc'[p] = Idle /\ \A r \in Procs : r # p => proc'[r] = proc[r] BY FailsFacts
<1>2. NoTornFiles' BY SameFiles DEF DiskInv
<1>3. TempInv(p)' /\ AppendInv(p)'
  BY <1>1, IdleFacts DEF TempInv, AppendInv, Appending, WillAppend, WritesLast
<1>4. ops <= ops' BY FilesAssumption DEF Base, TypeInv
<1> QED BY <1>1, <1>2, <1>3, <1>4, SameLog

LEMMA ConcatFacts ==
  ASSUME NEW a \in Content, NEW b \in Content, NEW s, s = a \o b
  PROVE  /\ s \in Content /\ Len(s) = Len(a) + Len(b) /\ Len(a) \in Nat /\ Len(b) \in Nat
         /\ \A k \in 1..Len(a) : s[k] = a[k]
         /\ \A k \in 1..Len(b) : s[Len(a) + k] = b[k]
         /\ \A k \in 1..Len(s) : k <= Len(a) \/ k - Len(a) \in 1..Len(b)
<1>1. Len(a) \in Nat /\ Len(b) \in Nat BY DEF Content
<1>2. s \in Content /\ Len(s) = Len(a) + Len(b) BY DEF Content
<1>3. \A k \in 1..Len(a) : s[k] = a[k] BY DEF Content
<1>4. ASSUME NEW k \in 1..Len(b) PROVE s[Len(a) + k] = b[k]
  <2>1. Len(a) + k \in 1..(Len(a) + Len(b)) /\ ~(Len(a) + k <= Len(a)) /\ Len(a) + k - Len(a) = k
    BY <1>1
  <2> QED BY <2>1 DEF Content
<1>5. \A k \in 1..(Len(a) + Len(b)) : k <= Len(a) \/ k - Len(a) \in 1..Len(b) BY <1>1
<1> QED BY <1>1, <1>2, <1>3, <1>4, <1>5

\* A piece moves from what is left to the temporary file.
LEMMA MoveHead ==
  ASSUME NEW a \in Content, NEW b \in Content, b # <<>>
  PROVE  /\ Append(a, Head(b)) \o Tail(b) = a \o b
         /\ Append(a, Head(b)) \in Content /\ Tail(b) \in Content
<1> DEFINE u == Append(a, Head(b))
           v == Tail(b)
           s == u \o v
           t == a \o b
<1>1. /\ Len(a) \in Nat /\ Len(b) \in Nat \ {0} /\ Head(b) = b[1] /\ Head(b) \in Nat \X Nat
      /\ v \in Content /\ Len(v) = Len(b) - 1 /\ \A k \in 1..(Len(b) - 1) : v[k] = b[k + 1]
  BY DEF Content
<1>2. /\ u \in Content /\ Len(u) = Len(a) + 1 /\ u[Len(a) + 1] = b[1]
      /\ \A k \in 1..Len(a) : u[k] = a[k]
  BY <1>1 DEF Content
<1>3. s = u \o v /\ t = a \o b OBVIOUS
<1> HIDE DEF u, v, s, t
<1>30. u \in Content /\ v \in Content BY <1>1, <1>2
<1>4. s \in Content /\ Len(s) = Len(u) + Len(v) BY <1>3, <1>30, ConcatFacts
<1>40. \A k \in 1..Len(u) : s[k] = u[k] BY <1>3, <1>30, ConcatFacts
<1>41. \A k \in 1..Len(v) : s[Len(u) + k] = v[k] BY <1>3, <1>30, ConcatFacts
<1>5. t \in Content /\ Len(t) = Len(a) + Len(b) BY <1>3, ConcatFacts
<1>50. \A k \in 1..Len(a) : t[k] = a[k] BY <1>3, ConcatFacts
<1>51. \A k \in 1..Len(b) : t[Len(a) + k] = b[k] BY <1>3, ConcatFacts
<1>6. ASSUME NEW k \in 1..Len(t) PROVE s[k] = t[k]
  <2>1. CASE k <= Len(a)
    <3>1. k \in 1..Len(a) /\ k \in 1..Len(u) BY <1>1, <1>2, <2>1
    <3> QED BY <1>2, <1>40, <1>50, <3>1
  <2>2. CASE k = Len(a) + 1
    <3>1. k \in 1..Len(u) /\ 1 \in 1..Len(b) BY <1>1, <1>2, <2>2
    <3> QED BY <1>2, <1>40, <1>51, <2>2, <3>1
  <2>3. CASE k > Len(a) + 1
    <3> DEFINE j == k - (Len(a) + 1)
    <3>1. j \in 1..(Len(b) - 1) /\ j + 1 \in 1..Len(b) /\ Len(u) + j = k /\ Len(a) + (j + 1) = k
      BY <1>1, <1>2, <1>5, <2>3
    <3> HIDE DEF j
    <3>2. s[Len(u) + j] = v[j] /\ t[Len(a) + (j + 1)] = b[j + 1] /\ v[j] = b[j + 1]
      BY <1>1, <1>41, <1>51, <3>1
    <3> QED BY <3>1, <3>2
  <2> QED BY <1>1, <1>5, <2>1, <2>2, <2>3
<1>7. Len(s) = Len(t) BY <1>1, <1>2, <1>4, <1>5
<1>8. s = t BY <1>4, <1>5, <1>6, <1>7, SeqEqual DEF Content
<1> QED BY <1>1, <1>2, <1>8 DEF s, t, u, v

LEMMA EmptyFacts ==
  ASSUME NEW a \in Content
  PROVE  <<>> \o a = a /\ a \o <<>> = a /\ <<>> \in Content /\ IsPrefix(<<>>, a)
<1>1. <<>> \o a = a /\ a \o <<>> = a /\ <<>> \in Content BY DEF Content
<1>2. Len(<<>>) <= Len(a) /\ \A k \in 1..Len(<<>>) : <<>>[k] = a[k] BY DEF Content
<1> QED BY <1>1, <1>2, PrefixFacts

\* A step on a temporary file.
LEMMA DiskMoves ==
  ASSUME Base, Base', DiskInv, NEW p \in Procs, proc[p].todo # <<>>,
         Task(p).do \in {"put", "copy", "merge"}, UNCHANGED <<disk, ops, seen, ranges, torn, suite>>,
         \A r \in Procs : r # p => proc'[r] = proc[r],
         proc'[p].todo = proc[p].todo, proc'[p].op = proc[p].op, TempInv(p)'
  PROVE  DiskInv'
<1>1. NoTornFiles' BY SameFiles DEF DiskInv
<1>2. Task(p)' = Task(p) BY DEF Task
<1>3. ~Appending(p) /\ ~Appending(p)' BY <1>2 DEF Appending
<1>4. AppendInv(p)'
  <2>1. WritesLast(proc[p].todo)' BY DEF DiskInv, AppendInv, WritesLast
  <2>2. (WillAppend(proc[p].todo) => ~Has(disk[Log], proc[p].op))'
    BY <1>3 DEF DiskInv, AppendInv, WillAppend, Has
  <2> QED BY <1>3, <2>1, <2>2 DEF AppendInv
<1>5. ops <= ops' BY FilesAssumption DEF Base, TypeInv
<1> QED BY <1>1, <1>3, <1>4, <1>5, SameLog

\* The fields of p that a step changes.
LEMMA FieldFacts ==
  ASSUME Base, NEW p \in Procs, NEW r \in ProcType, proc' = [proc EXCEPT ![p] = r]
  PROVE  proc'[p] = r /\ \A q \in Procs : q # p => proc'[q] = proc[q]
BY DEF Base, TypeInv

LEMMA CreateTempFacts ==
  ASSUME Base, NEW p \in Procs, CreateTemp(p)
  PROVE  /\ proc[p].todo # <<>> /\ Task(p).do \in {"put", "copy", "merge"} /\ Task(p)' = Task(p)
         /\ \A r \in Procs : r # p => proc'[r] = proc[r]
         /\ proc'[p].todo = proc[p].todo /\ proc'[p].op = proc[p].op /\ proc'[p].at = "writing"
         /\ proc'[p].tmp = <<>>
         /\ Task(p).do = "put" => proc'[p].src = Task(p).src /\ Task(p).src \in Content
         /\ Task(p).do # "put" => proc'[p].src = <<>>
         /\ Task(p).do = "merge" => proc'[p].parts = Task(p).parts
<1>1. proc[p].todo # <<>> /\ Task(p).do \in {"put", "copy", "merge"} /\ proc[p].at = "next"
  BY DEF CreateTemp, Doing
<1>2. proc[p].tmp = <<>> BY <1>1, ProcFacts DEF WorkInv
<1>3. Task(p).do = "put" => Task(p).src \in Content
  <2>1. Task(p) \in Tasks(proc[p].op) /\ proc[p].op \in Nat BY <1>1, TaskOf
  <2>2. \A k \in Nat : Pieces(proc[p].op, k) \in Content BY <2>1 DEF Pieces, Content
  <2>3. Task(p).do = "put" => \E k \in Nat : Task(p).src = Pieces(proc[p].op, k)
    BY <2>1, TaskFacts, FilesAssumption DEF Put, Store
  <2> QED BY <2>2, <2>3
<1>5. proc[p] \in ProcType /\ proc \in [Procs -> ProcType] BY ProcFacts DEF Base, TypeInv
<1>6. /\ \A r \in Procs : r # p => proc'[r] = proc[r]
      /\ proc'[p] = [proc[p] EXCEPT !.at = "writing",
                                    !.src = IF Task(p).do = "put" THEN Task(p).src ELSE <<>>,
                                    !.parts = IF Task(p).do = "merge" THEN Task(p).parts ELSE {}]
  BY <1>5 DEF CreateTemp
<1>7. /\ proc'[p].at = "writing" /\ proc'[p].todo = proc[p].todo
      /\ proc'[p].op = proc[p].op /\ proc'[p].tmp = proc[p].tmp
      /\ proc'[p].src = IF Task(p).do = "put" THEN Task(p).src ELSE <<>>
      /\ proc'[p].parts = IF Task(p).do = "merge" THEN Task(p).parts ELSE {}
  BY <1>5, <1>6 DEF ProcType
<1>8. Task(p)' = Task(p) BY <1>7 DEF Task
<1> QED BY <1>1, <1>2, <1>3, <1>6, <1>7, <1>8

LEMMA DiskCreateTemp ==
  ASSUME Base, Base', DiskInv, NEW p \in Procs, CreateTemp(p) PROVE DiskInv'
<1>1. UNCHANGED <<disk, ops, seen, ranges, torn, suite>> BY DEF CreateTemp, fs, ghosts
<1>2. TempInv(p)'
  <2>1. IsPrefix(<<>>, disk[Log]) BY LogContent, EmptyFacts
  <2>2. Task(p).do = "put" => <<>> \o Task(p).src = Task(p).src BY CreateTempFacts, EmptyFacts
  <2> QED BY <1>1, <2>1, <2>2, CreateTempFacts DEF TempInv
<1> QED BY <1>1, <1>2, CreateTempFacts, DiskMoves

LEMMA WriteTempFacts ==
  ASSUME Base, NEW p \in Procs, WriteTemp(p)
  PROVE  /\ proc[p].todo # <<>> /\ Task(p).do \in {"put", "copy", "merge"} /\ Task(p)' = Task(p)
         /\ proc[p].at = "writing"
         /\ \A r \in Procs : r # p => proc'[r] = proc[r]
         /\ proc'[p].todo = proc[p].todo /\ proc'[p].op = proc[p].op /\ proc'[p].at = "writing"
         /\ proc'[p].parts = proc[p].parts
         /\ proc'[p].tmp = Append(proc[p].tmp, Head(Left(p)))
         /\ Left(p) # <<>>
         /\ Task(p).do # "copy" => proc'[p].tmp \o proc'[p].src = proc[p].tmp \o proc[p].src
<1>1. /\ proc[p].todo # <<>> /\ Task(p).do \in {"put", "copy", "merge"} /\ proc[p].at = "writing"
      /\ Left(p) # <<>>
  BY WritingTask DEF WriteTemp
<1>2. Left(p) \in Content /\ (Task(p).do # "copy" => Left(p) = proc[p].src) BY <1>1, LeftFacts
<1>5. proc[p] \in ProcType /\ proc \in [Procs -> ProcType] BY ProcFacts DEF Base, TypeInv
<1>6. /\ \A r \in Procs : r # p => proc'[r] = proc[r]
      /\ proc'[p] = [proc[p] EXCEPT !.tmp = Append(proc[p].tmp, Head(Left(p))), !.src = Tail(Left(p))]
  BY <1>5 DEF WriteTemp
<1>7. /\ proc'[p].at = proc[p].at /\ proc'[p].todo = proc[p].todo
      /\ proc'[p].op = proc[p].op /\ proc'[p].parts = proc[p].parts
      /\ proc'[p].tmp = Append(proc[p].tmp, Head(Left(p))) /\ proc'[p].src = Tail(Left(p))
  BY <1>5, <1>6 DEF ProcType
<1>8. Task(p)' = Task(p) BY <1>7 DEF Task
<1>9. proc[p].tmp \in Content BY ProcFacts
<1>10. proc'[p].tmp \o proc'[p].src = proc[p].tmp \o Left(p) BY <1>1, <1>2, <1>7, <1>9, MoveHead
<1> QED BY <1>1, <1>2, <1>6, <1>7, <1>8, <1>10

LEMMA DiskWriteTemp ==
  ASSUME Base, Base', DiskInv, NEW p \in Procs, WriteTemp(p) PROVE DiskInv'
<1>1. UNCHANGED <<disk, ops, seen, ranges, torn, suite>> BY DEF WriteTemp, fs, ghosts
<1>2. ASSUME Task(p).do = "copy"
      PROVE  IsPrefix(proc'[p].tmp, disk[Log])
  <2> DEFINE t == proc[p].tmp
             u == disk[Log]
             l == Left(p)
  <2>1. t \in Content /\ u \in Content /\ IsPrefix(t, u)
    BY <1>2, WriteTempFacts, ProcFacts, LogContent DEF DiskInv, TempInv
  <2>2. l = SubSeq(u, Len(t) + 1, Len(u)) /\ l # <<>> /\ l \in Content
    BY <1>2, WriteTempFacts, LeftFacts
  <2>3. proc'[p].tmp = Append(t, Head(l)) BY WriteTempFacts
  <2> HIDE DEF t, u, l
  <2>4. Len(t) \in Nat /\ Len(u) \in Nat /\ Len(t) <= Len(u) /\ \A k \in 1..Len(t) : t[k] = u[k]
    BY <2>1, PrefixFacts DEF Content
  <2>5. Len(t) < Len(u) /\ Head(l) = u[Len(t) + 1]
    <3>1. Len(t) = Len(u) => l = <<>> BY <2>1, <2>2, <2>4 DEF Content
    <3>2. Len(t) < Len(u) BY <2>2, <2>4, <3>1
    <3>3. l[1] = u[Len(t) + 1] /\ Head(l) = l[1] BY <2>1, <2>2, <2>4, <3>2 DEF Content
    <3> QED BY <3>2, <3>3
  <2>6. Head(l) \in Nat \X Nat BY <2>2 DEF Content
  <2> DEFINE v == Append(t, Head(l))
  <2>70. v = Append(t, Head(l)) OBVIOUS
  <2> HIDE DEF v
  <2>71. \A k \in 1..Len(t) : v[k] = t[k] BY <2>1, <2>6, <2>70, GrowFacts
  <2>7. v \in Content /\ Len(v) = Len(t) + 1 /\ v[Len(t) + 1] = Head(l)
    BY <2>1, <2>6, <2>70, GrowFacts
  <2>8. Len(v) <= Len(u) /\ \A k \in 1..Len(v) : v[k] = u[k] BY <2>4, <2>5, <2>7, <2>71
  <2>9. IsPrefix(v, u) BY <2>1, <2>7, <2>8, PrefixFacts
  <2> QED BY <2>3, <2>9 DEF v, u
<1>3. TempInv(p)'
  <2>1. Task(p).do = "put" => proc'[p].tmp \o proc'[p].src = Task(p).src
    BY WriteTempFacts DEF DiskInv, TempInv
  <2> QED BY <1>1, <1>2, <2>1, WriteTempFacts DEF TempInv
<1> QED BY <1>1, <1>3, WriteTempFacts, DiskMoves

LEMMA CloseTempFacts ==
  ASSUME Base, NEW p \in Procs, CloseTemp(p)
  PROVE  /\ proc[p].todo # <<>> /\ Task(p).do \in {"put", "copy", "merge"} /\ Task(p)' = Task(p)
         /\ proc[p].at = "writing" /\ Left(p) = <<>> /\ proc[p].parts = {}
         /\ \A r \in Procs : r # p => proc'[r] = proc[r]
         /\ proc'[p].todo = proc[p].todo /\ proc'[p].op = proc[p].op /\ proc'[p].at = "closed"
         /\ proc'[p].parts = proc[p].parts /\ proc'[p].tmp = proc[p].tmp /\ proc'[p].src = proc[p].src
<1>1. /\ proc[p].todo # <<>> /\ Task(p).do \in {"put", "copy", "merge"} /\ proc[p].at = "writing"
      /\ Left(p) = <<>> /\ proc[p].parts = {}
  BY WritingTask DEF CloseTemp
<1>5. proc[p] \in ProcType /\ proc \in [Procs -> ProcType] BY ProcFacts DEF Base, TypeInv
<1>6. /\ \A r \in Procs : r # p => proc'[r] = proc[r]
      /\ proc'[p] = [proc[p] EXCEPT !.at = "closed"]
  BY <1>5 DEF CloseTemp
<1>7. /\ proc'[p].at = "closed" /\ proc'[p].todo = proc[p].todo
      /\ proc'[p].op = proc[p].op /\ proc'[p].parts = proc[p].parts
      /\ proc'[p].tmp = proc[p].tmp /\ proc'[p].src = proc[p].src
  BY <1>5, <1>6 DEF ProcType
<1>8. Task(p)' = Task(p) BY <1>7 DEF Task
<1> QED BY <1>1, <1>6, <1>7, <1>8

LEMMA DiskCloseTemp ==
  ASSUME Base, Base', DiskInv, NEW p \in Procs, CloseTemp(p) PROVE DiskInv'
<1>1. UNCHANGED <<disk, ops, seen, ranges, torn, suite>> BY DEF CloseTemp, fs, ghosts
<1>2. ASSUME Task(p).do = "copy" PROVE Len(proc[p].tmp) >= 2
  <2> DEFINE t == proc[p].tmp
             u == disk[Log]
  <2>1. t \in Content /\ u \in Content /\ Len(u) >= 2
    BY ProcFacts, LogContent DEF DiskInv, LogInv
  <2>2. SubSeq(u, Len(t) + 1, Len(u)) = <<>> BY <1>2, CloseTempFacts, LeftFacts
  <2> HIDE DEF t, u
  <2>3. ASSUME Len(t) < Len(u) PROVE FALSE
    <3> DEFINE w == SubSeq(u, Len(t) + 1, Len(u))
    <3>1. Len(t) \in Nat /\ Len(u) \in Nat BY <2>1 DEF Content
    <3>2. Len(w) = Len(u) - Len(t) BY <2>1, <2>3, <3>1 DEF Content
    <3>3. w = <<>> BY <2>2
    <3> HIDE DEF w
    <3>4. Len(w) = 0 BY <3>3
    <3> QED BY <2>3, <3>1, <3>2, <3>4
  <2>4. Len(t) \in Nat /\ Len(u) \in Nat BY <2>1 DEF Content
  <2>5. Len(t) >= 2 BY <2>1, <2>3, <2>4
  <2> QED BY <2>5 DEF t
<1>3. Task(p).do = "put" => proc[p].src = <<>> BY CloseTempFacts, LeftFacts
<1>4. TempInv(p)'
  <2>1. TempInv(p) BY DEF DiskInv
  <2> QED BY <1>1, <1>2, <1>3, <2>1, CloseTempFacts DEF TempInv
<1> QED BY <1>1, <1>4, CloseTempFacts, DiskMoves

LEMMA OpenChunkFacts ==
  ASSUME Base, NEW p \in Procs, OpenChunk(p), NEW i, i = NextChunk(proc[p].parts)
  PROVE  /\ proc[p].todo # <<>> /\ Task(p).do = "merge" /\ Task(p)' = Task(p)
         /\ proc[p].at = "writing" /\ proc[p].src = <<>> /\ proc[p].parts # {}
         /\ i \in Indexes /\ i \in proc[p].parts
         /\ \A r \in Procs : r # p => proc'[r] = proc[r]
         /\ proc'[p].todo = proc[p].todo /\ proc'[p].op = proc[p].op /\ proc'[p].at = "writing"
         /\ proc'[p].parts = proc[p].parts \ {i} /\ proc'[p].tmp = proc[p].tmp
         /\ proc'[p].src = disk[Chunk(i)] /\ disk[Chunk(i)] \in Content
<1>1. /\ proc[p].todo # <<>> /\ Task(p).do = "merge" /\ proc[p].at = "writing" /\ proc[p].parts # {}
      /\ proc[p].src = <<>>
  BY WritingTask, ProcFacts DEF OpenChunk, WorkInv
<1>2. i \in Indexes /\ i \in proc[p].parts BY <1>1, ProcFacts, NextChunkFacts
<1>5. proc[p] \in ProcType /\ proc \in [Procs -> ProcType] BY ProcFacts DEF Base, TypeInv
<1>6. /\ \A r \in Procs : r # p => proc'[r] = proc[r]
      /\ proc'[p] = [proc[p] EXCEPT !.src = disk[Chunk(i)], !.parts = proc[p].parts \ {i}]
  BY <1>5 DEF OpenChunk
<1>7. /\ proc'[p].at = proc[p].at /\ proc'[p].todo = proc[p].todo
      /\ proc'[p].op = proc[p].op /\ proc'[p].parts = proc[p].parts \ {i}
      /\ proc'[p].tmp = proc[p].tmp /\ proc'[p].src = disk[Chunk(i)]
  BY <1>5, <1>6 DEF ProcType
<1>8. Task(p)' = Task(p) BY <1>7 DEF Task
<1>9. disk[Chunk(i)] \in Content BY <1>2, LogContent, PathsThere
<1> QED BY <1>1, <1>2, <1>6, <1>7, <1>8, <1>9

LEMMA DiskOpenChunk ==
  ASSUME Base, Base', DiskInv, NEW p \in Procs, OpenChunk(p) PROVE DiskInv'
<1>1. UNCHANGED <<disk, ops, seen, ranges, torn, suite>> BY DEF OpenChunk, fs, ghosts
<1>2. TempInv(p)' BY OpenChunkFacts DEF TempInv
<1> QED BY <1>1, <1>2, OpenChunkFacts, DiskMoves

\* What is renamed, and to which path.
LEMMA RenameFacts ==
  ASSUME Base, NEW p \in Procs, Rename(p)
  PROVE  /\ proc[p].at = "closed" /\ proc[p].todo # <<>> /\ proc[p].parts = {}
         /\ proc[p].tmp \in Content /\ proc[p].src \in Content /\ proc[p].op \in 1..MaxOps
         /\ disk' = [disk EXCEPT ![Task(p).path] = proc[p].tmp]
         /\ \/ Task(p) = Put(File, Pieces(proc[p].op, 2))
            \/ Task(p).do = "copy" /\ Task(p).path = File /\ "Copy" \in suite.ops
            \/ Task(p).do = "copy" /\ Task(p).path[1] \in Dirs
            \/ \E k \in 1..Limit + 1 :
                 /\ Task(p) = Store(Out(proc[p].op), Pieces(proc[p].op, k))
                 /\ Len(proc[p].tmp) <= Limit
            \/ \E i \in Indexes, k \in 1..Limit + 1 : Task(p) = Store(Chunk(i), Pieces(proc[p].op, k))
            \/ Task(p).do = "merge" /\ Task(p).path = Merged(proc[p].op)
<1>1. /\ proc[p].todo # <<>> /\ Task(p).do \in {"put", "copy", "merge"} /\ proc[p].parts = {}
      /\ proc[p].tmp \in Content /\ proc[p].src \in Content /\ proc[p].at = "closed"
  BY WritingTask, ProcFacts DEF Rename
<1>2. Task(p) \in Tasks(proc[p].op) /\ proc[p].op \in 1..MaxOps BY <1>1, TaskOf
<1>3. Task(p).do = "put" => Len(proc[p].tmp) <= Task(p).limit
  <2>1. Len(proc[p].tmp) \in Nat BY <1>1 DEF Content
  <2>2. Task(p).do = "put" => Task(p).limit \in Nat
    <3>1. Len(Pieces(proc[p].op, 2)) = 2 BY DEF Pieces
    <3> QED BY <1>2, <3>1, TaskFacts, FilesAssumption DEF Put, Store
  <2> QED BY <1>1, <2>1, <2>2 DEF Rename, TooLong
<1>4. CASE Task(p).do = "put"
  <2>1. CASE \E k \in 1..Limit + 1 : Task(p) = Store(Out(proc[p].op), Pieces(proc[p].op, k))
    BY <1>1, <1>2, <1>3, <1>4, <2>1 DEF Store, Rename
  <2> QED BY <1>1, <1>2, <1>4, <2>1, TaskFacts DEF Rename
<1>5. CASE Task(p).do = "copy"
  <2>1. \A d \in Dirs : DirFile(d)[1] \in Dirs /\ SubFile(d)[1] \in Dirs BY PathFacts
  <2>2. \/ Task(p) = PutCopy(File, Log) /\ "Copy" \in suite.ops
        \/ \E d \in Dirs : Task(p) = PutCopy(DirFile(d), Log) \/ Task(p) = PutCopy(SubFile(d), Log)
    BY <1>2, <1>5, TaskFacts
  <2>3. \A q : PutCopy(q, Log).path = q BY DEF PutCopy
  <2> QED BY <1>1, <1>2, <1>5, <2>1, <2>2, <2>3 DEF Rename
<1>6. CASE Task(p).do = "merge"
  BY <1>1, <1>2, <1>6, TaskFacts DEF Rename, Merge
<1> QED BY <1>1, <1>4, <1>5, <1>6

LEMMA DiskRename ==
  ASSUME Base, Base', DiskInv, NEW p \in Procs, Rename(p) PROVE DiskInv'
<1> DEFINE q == Task(p).path
           c == proc[p].tmp
<1>0. UNCHANGED <<litter, ops, seen, ranges, torn, suite>> BY DEF Rename
<1>1. /\ proc[p].at = "closed" /\ proc[p].todo # <<>> /\ proc[p].parts = {}
      /\ c \in Content /\ proc[p].src \in Content /\ proc[p].op \in 1..MaxOps
      /\ disk' = [disk EXCEPT ![q] = c]
  BY RenameFacts
<1>2. \A x \in Paths : x # q => disk'[x] = disk[x] BY <1>1, LogContent
<1>3. q # Log /\ q # Outside
  BY RenameFacts, PathFacts DEF Put, Store
<1>4. disk'[Log] = disk[Log] /\ disk'[Outside] = disk[Outside] BY <1>2, <1>3, PathsThere
<1>5. /\ Whole(disk'[File], {}) \/ ("Copy" \in suite.ops /\ IsPrefix(disk'[File], disk[Log]))
      /\ Len(disk'[File]) >= 2
  <2>1. CASE q # File BY <1>2, <2>1, PathsThere DEF DiskInv, NoTornFiles
  <2>2. CASE q = File
    <3>1. disk'[File] = c BY <1>1, <2>2, PathsThere, LogContent
    <3>2. TempInv(p) BY DEF DiskInv
    <3>3. \/ Task(p) = Put(File, Pieces(proc[p].op, 2))
          \/ Task(p).do = "copy" /\ "Copy" \in suite.ops
      BY <2>2, RenameFacts, PathFacts DEF Store
    <3>4. CASE Task(p) = Put(File, Pieces(proc[p].op, 2))
      <4>1. Task(p).do = "put" /\ Task(p).src = Pieces(proc[p].op, 2) BY <3>4 DEF Put
      <4>2. c \o proc[p].src = Pieces(proc[p].op, 2) /\ proc[p].src = <<>>
        BY <1>1, <3>2, <4>1 DEF TempInv
      <4>3. c = Pieces(proc[p].op, 2) BY <1>1, <4>2, EmptyFacts
      <4>4. disk'[File] = Pieces(proc[p].op, 2) BY <3>1, <4>3
      <4>5. Whole(disk'[File], {}) /\ Len(disk'[File]) = 2 BY <4>4, PiecesWhole
      <4> QED BY <4>5
    <3>5. CASE Task(p).do = "copy" /\ "Copy" \in suite.ops
      BY <1>1, <3>1, <3>2, <3>5 DEF TempInv
    <3> QED BY <3>3, <3>4, <3>5
  <2> QED BY <2>1, <2>2
<1>6. ASSUME NEW n \in 1..MaxOps, disk'[Out(n)] # Missing PROVE Len(disk'[Out(n)]) <= Limit
  <2>1. CASE q # Out(n) BY <1>2, <1>6, <2>1, PathsThere DEF DiskInv, NoTornFiles
  <2>2. CASE q = Out(n)
    <3>1. disk'[Out(n)] = c BY <1>1, <2>2, PathsThere, LogContent
    <3>2. Len(c) <= Limit BY <2>2, RenameFacts, PathFacts DEF Put, Store
    <3> QED BY <3>1, <3>2
  <2> QED BY <2>1, <2>2
<1>7. NoTornFiles'
  <2>1. (Whole(disk[File], {}) \/ ("Copy" \in suite.ops /\ IsPrefix(disk[File], disk[Log])))'
    BY <1>0, <1>4, <1>5
  <2>2. ("Copy" \notin suite.ops => \A s \in seen : Whole(s, torn))'
    BY <1>0 DEF DiskInv, NoTornFiles
  <2>3. (\A n \in 1..MaxOps : disk[Out(n)] # Missing => Len(disk[Out(n)]) <= Limit)'
    BY <1>6
  <2> QED BY <1>0, <1>4, <1>5, <2>1, <2>2, <2>3 DEF DiskInv, NoTornFiles
<1>8. ~Appending(p) /\ Done(p) BY <1>1 DEF Appending, Rename
<1> QED BY <1>0, <1>1, <1>4, <1>7, <1>8, DiskDone

LEMMA InPlaceFacts ==
  ASSUME Base, NEW p \in Procs, proc[p].todo # <<>>, Task(p).do \in {"append", "extract"},
         NEW c, disk' = [disk EXCEPT ![Task(p).path] = c]
  PROVE  /\ disk'[File] = disk[File] /\ disk'[Outside] = disk[Outside]
         /\ \A n \in 1..MaxOps : disk'[Out(n)] = disk[Out(n)] /\ disk'[Merged(n)] = disk[Merged(n)]
         /\ \A i \in Indexes : disk'[Chunk(i)] = disk[Chunk(i)]
         /\ Task(p).do = "extract" => disk'[Log] = disk[Log]
         /\ Task(p).do = "append" => disk'[Log] = c /\ Task(p).path = Log
<1>1. \A x \in Paths : x # Task(p).path => disk'[x] = disk[x] BY LogContent
<1>2. Task(p).path[1] \in {"a", "log"} BY InPlaceTask, PathFacts
<1>3. File # Task(p).path /\ Outside # Task(p).path BY <1>2, PathFacts
<1>4. \A n : Out(n) # Task(p).path /\ Merged(n) # Task(p).path /\ Chunk(n) # Task(p).path
  BY <1>2, PathFacts
<1>5. Task(p).do = "extract" => disk'[Log] = disk[Log]
  BY <1>1, InPlaceTask, PathFacts, PathsThere
<1>6. Task(p).do = "append" => disk'[Log] = c /\ Task(p).path = Log
  BY InPlaceTask, PathsThere, LogContent
<1> QED BY <1>1, <1>3, <1>4, <1>5, <1>6, PathsThere

LEMMA OpenInPlaceFacts ==
  ASSUME Base, NEW p \in Procs, OpenInPlace(p)
  PROVE  /\ proc[p].todo # <<>> /\ Task(p).do \in {"append", "extract"} /\ proc[p].at = "next"
         /\ Task(p)' = Task(p)
         /\ \A r \in Procs : r # p => proc'[r] = proc[r]
         /\ proc'[p].todo = proc[p].todo /\ proc'[p].op = proc[p].op /\ proc'[p].at = "inPlace"
         /\ proc'[p].src = Pieces(proc[p].op, 2)
<1>1. proc[p].todo # <<>> /\ Task(p).do \in {"append", "extract"} /\ proc[p].at = "next"
  BY DEF OpenInPlace, Doing
<1>2. Task(p).src = Pieces(proc[p].op, 2) BY <1>1, InPlaceTask
<1>5. proc[p] \in ProcType /\ proc \in [Procs -> ProcType] BY ProcFacts DEF Base, TypeInv
<1>6. /\ \A r \in Procs : r # p => proc'[r] = proc[r]
      /\ proc'[p] = [proc[p] EXCEPT !.at = "inPlace", !.src = Task(p).src]
  BY <1>5 DEF OpenInPlace
<1>7. /\ proc'[p].at = "inPlace" /\ proc'[p].todo = proc[p].todo
      /\ proc'[p].op = proc[p].op /\ proc'[p].src = Task(p).src
  BY <1>5, <1>6 DEF ProcType
<1>8. Task(p)' = Task(p) BY <1>7 DEF Task
<1> QED BY <1>1, <1>2, <1>6, <1>7, <1>8

LEMMA DiskOpenInPlace ==
  ASSUME Base, Base', DiskInv, NEW p \in Procs, OpenInPlace(p) PROVE DiskInv'
<1> DEFINE c == IF Task(p).do = "append" /\ disk[Task(p).path] # Missing
                THEN disk[Task(p).path] ELSE <<>>
<1>1. UNCHANGED <<ops, seen, ranges, torn, suite>> BY DEF OpenInPlace, ghosts
<1>2. disk' = [disk EXCEPT ![Task(p).path] = c] BY DEF OpenInPlace
<1>3. Task(p).do = "append" => c = disk[Log]
  <2>1. disk[Log] # Missing BY DEF DiskInv, LogInv, Missing
  <2> QED BY <2>1, OpenInPlaceFacts, InPlaceTask
<1> HIDE DEF c
<1>4. disk'[Log] = disk[Log] BY ZenonT(60), <1>2, <1>3, OpenInPlaceFacts, InPlaceFacts
<1>5. NoTornFiles' BY <1>1, <1>2, <1>4, OpenInPlaceFacts, InPlaceFacts, SameFiles DEF DiskInv
<1>6. TempInv(p)' BY OpenInPlaceFacts DEF TempInv
<1>7. AppendInv(p)'
  <2>1. WritesLast(proc[p].todo)' BY OpenInPlaceFacts DEF DiskInv, AppendInv, WritesLast
  <2>2. WillAppend(proc[p].todo) => ~Has(disk[Log], proc[p].op)
    BY OpenInPlaceFacts DEF DiskInv, AppendInv, Appending
  <2>3. Task(p).do = "append" => WillAppend(proc[p].todo)
    BY OpenInPlaceFacts, TaskOf DEF WillAppend
  <2>4. (WillAppend(proc[p].todo) => ~Has(disk[Log], proc[p].op))'
    BY <1>4, <2>2, OpenInPlaceFacts DEF WillAppend, Has
  <2>5. Appending(p)' => ~Has(disk[Log], proc[p].op)'
    BY <1>4, <2>2, <2>3, OpenInPlaceFacts DEF Appending, Has
  <2>6. (proc[p].src = Pieces(proc[p].op, 2))' BY OpenInPlaceFacts
  <2> QED BY <2>1, <2>4, <2>5, <2>6 DEF AppendInv
<1>8. ops <= ops' BY <1>1, FilesAssumption DEF Base, TypeInv
<1>9. ~Appending(p) BY OpenInPlaceFacts DEF Appending
<1> QED BY <1>1, <1>4, <1>5, <1>6, <1>7, <1>8, <1>9, OpenInPlaceFacts, SameLog

LEMMA WriteInPlaceFacts ==
  ASSUME Base, NEW p \in Procs, WriteInPlace(p)
  PROVE  /\ proc[p].todo # <<>> /\ Task(p).do \in {"append", "extract"} /\ proc[p].at = "inPlace"
         /\ Task(p)' = Task(p) /\ proc[p].src # <<>> /\ proc[p].src \in Content
         /\ \A r \in Procs : r # p => proc'[r] = proc[r]
         /\ proc'[p].todo = proc[p].todo /\ proc'[p].op = proc[p].op /\ proc'[p].at = "inPlace"
         /\ proc'[p].src = Tail(proc[p].src)
<1>1. /\ proc[p].todo # <<>> /\ Task(p).do \in {"append", "extract"} /\ proc[p].at = "inPlace"
      /\ proc[p].src # <<>>
  BY WritingTask DEF WriteInPlace
<1>5. /\ proc[p] \in ProcType /\ proc \in [Procs -> ProcType] /\ proc[p].src \in Content
  BY ProcFacts DEF Base, TypeInv
<1>6. /\ \A r \in Procs : r # p => proc'[r] = proc[r]
      /\ proc'[p] = [proc[p] EXCEPT !.src = Tail(proc[p].src)]
  BY <1>5 DEF WriteInPlace
<1>7. /\ proc'[p].at = proc[p].at /\ proc'[p].todo = proc[p].todo
      /\ proc'[p].op = proc[p].op /\ proc'[p].src = Tail(proc[p].src)
  BY <1>5, <1>6 DEF ProcType
<1>8. Task(p)' = Task(p) BY <1>7 DEF Task
<1> QED BY <1>1, <1>5, <1>6, <1>7, <1>8

\* Unpacking does not touch the log.
LEMMA DiskExtracts ==
  ASSUME Base, Base', DiskInv, NEW p \in Procs, WriteInPlace(p), Task(p).do = "extract"
  PROVE  DiskInv'
<1> DEFINE c == Append(disk[Task(p).path], Head(proc[p].src))
<1>1. UNCHANGED <<ops, seen, ranges, torn, suite>> BY DEF WriteInPlace, ghosts
<1>2. disk' = [disk EXCEPT ![Task(p).path] = c] BY DEF WriteInPlace
<1> HIDE DEF c
<1>4. disk'[Log] = disk[Log] BY <1>2, WriteInPlaceFacts, InPlaceFacts
<1>5. NoTornFiles' BY <1>1, <1>2, <1>4, WriteInPlaceFacts, InPlaceFacts, SameFiles DEF DiskInv
<1>6. TempInv(p)' BY WriteInPlaceFacts DEF TempInv
<1>7. AppendInv(p)'
  <2>1. WritesLast(proc[p].todo)' BY WriteInPlaceFacts DEF DiskInv, AppendInv, WritesLast
  <2>2. WillAppend(proc[p].todo) => ~Has(disk[Log], proc[p].op)
    BY DEF DiskInv, AppendInv, Appending
  <2>3. (WillAppend(proc[p].todo) => ~Has(disk[Log], proc[p].op))'
    BY <1>4, <2>2, WriteInPlaceFacts DEF WillAppend, Has
  <2>4. ~Appending(p)' BY WriteInPlaceFacts DEF Appending
  <2> QED BY <2>1, <2>3, <2>4 DEF AppendInv
<1>8. ops <= ops' BY <1>1, FilesAssumption DEF Base, TypeInv
<1>9. ~Appending(p) BY DEF Appending
<1> QED BY <1>1, <1>4, <1>5, <1>6, <1>7, <1>8, <1>9, WriteInPlaceFacts, SameLog

\* The state of the one appender before and after a piece is written.
LEMMA AppendStep ==
  ASSUME Base, DiskInv, NEW p \in Procs, WriteInPlace(p), Task(p).do = "append"
  PROVE  /\ \E x \in Nat \X Nat : disk'[Log] = Append(disk[Log], x) /\ x[1] = proc[p].op
         /\ \/ /\ ~Has(disk[Log], proc[p].op)
               /\ disk'[Log] = Append(disk[Log], <<proc[p].op, 1>>)
               /\ proc'[p].src = <<<<proc[p].op, 2>>>>
            \/ /\ disk[Log][Len(disk[Log])] = <<proc[p].op, 1>>
               /\ \A k \in 1..(Len(disk[Log]) - 1) : disk[Log][k][1] # proc[p].op
               /\ disk'[Log] = Append(disk[Log], <<proc[p].op, 2>>)
               /\ proc'[p].src = <<>>
<1> DEFINE n == proc[p].op
           c == Append(disk[Log], Head(proc[p].src))
<1>1. n \in Nat /\ <<n, 1>> \in Nat \X Nat /\ <<n, 2>> \in Nat \X Nat BY WriteInPlaceFacts, TaskOf
<1>2. Task(p).path = Log BY WriteInPlaceFacts, InPlaceTask
<1>3. disk' = [disk EXCEPT ![Task(p).path] = c] BY <1>2 DEF WriteInPlace
<1>4. disk'[Log] = c BY <1>3, WriteInPlaceFacts, InPlaceFacts
<1>5. Appending(p) /\ AppendInv(p) BY WriteInPlaceFacts DEF Appending, DiskInv
<1>6. CASE proc[p].src = Pieces(n, 2) /\ ~Has(disk[Log], n)
  <2>1. Head(Pieces(n, 2)) = <<n, 1>> /\ Tail(Pieces(n, 2)) = <<<<n, 2>>>>
    <3>1. Pieces(n, 2) = <<<<n, 1>>, <<n, 2>>>> BY DEF Pieces
    <3> DEFINE x == <<n, 1>>
               y == <<n, 2>>
    <3> HIDE DEF x, y
    <3>2. Head(<<x, y>>) = x /\ Tail(<<x, y>>) = <<y>> OBVIOUS
    <3> QED BY <3>1, <3>2 DEF x, y
  <2> QED BY <1>1, <1>4, <1>6, <2>1, WriteInPlaceFacts
<1>7. CASE /\ proc[p].src = <<<<n, 2>>>>
           /\ disk[Log][Len(disk[Log])] = <<n, 1>>
           /\ \A k \in 1..(Len(disk[Log]) - 1) : disk[Log][k][1] # n
  <2>1. Head(<<<<n, 2>>>>) = <<n, 2>> /\ Tail(<<<<n, 2>>>>) = <<>> OBVIOUS
  <2> QED BY <1>1, <1>4, <1>7, <2>1, WriteInPlaceFacts
<1> QED BY <1>5, <1>6, <1>7, WriteInPlaceFacts DEF AppendInv

LEMMA DiskAppends ==
  ASSUME Base, Base', DiskInv, NEW p \in Procs, WriteInPlace(p), Task(p).do = "append"
  PROVE  DiskInv'
<1> DEFINE n == proc[p].op
           u == disk[Log]
           v == disk'[Log]
<1>0. UNCHANGED <<ops, seen, ranges, torn, suite>> BY DEF WriteInPlace, ghosts
<1>1. PICK x \in Nat \X Nat : v = Append(u, x) /\ x[1] = n BY AppendStep
<1>2. u \in Content /\ Len(u) >= 2 /\ n \in 1..ops
  BY LogContent, WriteInPlaceFacts, TaskOf DEF DiskInv, LogInv
<1>3. \/ /\ ~Has(u, n)
         /\ v = Append(u, <<n, 1>>)
         /\ proc'[p].src = <<<<n, 2>>>>
      \/ /\ u[Len(u)] = <<n, 1>>
         /\ \A k \in 1..(Len(u) - 1) : u[k][1] # n
         /\ v = Append(u, <<n, 2>>)
         /\ proc'[p].src = <<>>
  BY AppendStep
<1>4. Appending(p) /\ Appending(p)' BY WriteInPlaceFacts DEF Appending
<1>5. \A r \in Procs : Appending(r) => r = p
  <2>1. Needs(Task(p), "log") BY DEF Needs
  <2> QED BY <2>1, WriteInPlaceFacts, OneAppender
<1>6. /\ \A k \in DOMAIN u : u[k][1] <= ops
      /\ \A k \in DOMAIN u : u[k][1] \in torn \/ WholeAt(u, k) \/ u[k][1] = n
  BY <1>5 DEF DiskInv, LogInv
<1>7. \A r \in Procs : r # p =>
        /\ proc'[r] = proc[r] /\ Task(r)' = Task(r)
        /\ (proc[r].at # "idle" => proc[r].op # n)
        /\ ~Appending(r) /\ ~Appending(r)'
  <2>1. proc[p].at # "idle" BY WriteInPlaceFacts
  <2>2. \A r \in Procs : r # p => proc'[r] = proc[r] BY WriteInPlaceFacts
  <2>3. \A r \in Procs : r # p => Task(r)' = Task(r) BY <2>2 DEF Task
  <2>4. \A r \in Procs : r # p => ~Appending(r) /\ ~Appending(r)' BY <1>5, <2>2, <2>3 DEF Appending
  <2>5. \A r \in Procs : r # p => (proc[r].at # "idle" => proc[r].op # n) BY <2>1 DEF Base
  <2> QED BY <2>2, <2>3, <2>4, <2>5
<1>8. v = disk'[Log] OBVIOUS
<1> HIDE DEF u, v, n
<1>9. v \in Content /\ Len(v) = Len(u) + 1 /\ v[Len(u) + 1] = x /\ Len(u) \in Nat
  BY <1>1, <1>2, GrowFacts
<1>10. DOMAIN u = 1..Len(u) /\ DOMAIN v = 1..(Len(u) + 1) BY <1>1, <1>2, GrowFacts
<1>11. \A k \in 1..Len(u) : v[k] = u[k] BY <1>1, <1>2, GrowFacts
<1>12. \A w \in Content : IsPrefix(w, u) => IsPrefix(w, v) BY <1>1, <1>2, GrowFacts
<1>13. \A k \in 1..Len(u) : WholeAt(u, k) => WholeAt(v, k)
  <2>1. ASSUME NEW k \in 1..Len(u), WholeAt(u, k) PROVE WholeAt(v, k)
    <3>1. CASE u[k][2] = 1 /\ k < Len(u) /\ u[k + 1] = <<u[k][1], 2>>
      <4>1. k + 1 \in 1..Len(u) /\ k < Len(v) BY <1>9, <3>1
      <4> QED BY <1>11, <3>1, <4>1 DEF WholeAt
    <3>2. CASE u[k][2] = 2 /\ k > 1 /\ u[k - 1] = <<u[k][1], 1>>
      <4>1. k - 1 \in 1..Len(u) BY <1>9, <3>2
      <4> QED BY <1>11, <3>2, <4>1 DEF WholeAt
    <3> QED BY <2>1, <3>1, <3>2 DEF WholeAt
  <2> QED BY <2>1
<1>14. \A k \in 1..Len(v) : k \in 1..Len(u) \/ k = Len(u) + 1 BY <1>9
<1>15. ASSUME NEW k \in DOMAIN v
       PROVE  /\ v[k][1] <= ops
              /\ v[k][1] \in torn \/ WholeAt(v, k) \/ (proc'[p].src # <<>> /\ v[k][1] = n)
  <2>0. n \in Nat /\ n <= ops BY <1>2, FilesAssumption DEF Base, TypeInv
  <2>1. CASE v = Append(u, <<n, 1>>) /\ proc'[p].src = <<<<n, 2>>>>
    <3>0. proc'[p].src # <<>> BY <2>1
    <3>1. CASE k \in 1..Len(u)
      <4>1. v[k] = u[k] /\ k \in DOMAIN u BY <1>10, <1>11, <3>1
      <4>2. WholeAt(u, k) => WholeAt(v, k) BY <1>13, <3>1
      <4> QED BY <1>6, <3>0, <4>1, <4>2
    <3>2. CASE k = Len(u) + 1 BY <1>1, <1>9, <2>0, <2>1, <3>2
    <3> QED BY <1>9, <1>10, <1>14, <3>1, <3>2
  <2>2. CASE /\ u[Len(u)] = <<n, 1>>
             /\ \A j \in 1..(Len(u) - 1) : u[j][1] # n
             /\ v = Append(u, <<n, 2>>)
    <3>0. <<n, 2>> \in Nat \X Nat BY <2>0
    <3>1. v[Len(u) + 1] = <<n, 2>> BY <1>2, <2>2, <3>0, GrowFacts
    <3>2. CASE k = Len(u) + 1
      <4>1. k - 1 = Len(u) /\ k > 1 /\ Len(u) \in 1..Len(u) BY <1>2, <1>9, <3>2
      <4>2. v[k - 1] = <<n, 1>> BY <1>11, <2>2, <4>1
      <4>3. v[k][1] = n /\ v[k][2] = 2 BY <3>1, <3>2
      <4>4. WholeAt(v, k) BY <4>1, <4>2, <4>3 DEF WholeAt
      <4> QED BY <2>0, <4>3, <4>4
    <3>3. CASE k = Len(u)
      <4>1. k \in 1..Len(u) /\ k < Len(v) BY <1>2, <1>9, <3>3
      <4>2. v[k] = <<n, 1>> /\ v[k][1] = n /\ v[k][2] = 1 BY <1>11, <2>2, <3>3, <4>1
      <4>3. v[k + 1] = <<n, 2>> BY <3>1, <3>3
      <4>4. WholeAt(v, k) BY <4>1, <4>2, <4>3 DEF WholeAt
      <4> QED BY <2>0, <4>2, <4>4
    <3>4. CASE k \in 1..(Len(u) - 1)
      <4>1. k \in 1..Len(u) BY <1>9, <3>4
      <4> QED BY <1>6, <1>10, <1>11, <1>13, <2>2, <3>4, <4>1
    <3>5. k = Len(u) + 1 \/ k = Len(u) \/ k \in 1..(Len(u) - 1) BY <1>9, <1>10
    <3> QED BY <3>2, <3>3, <3>4, <3>5
  <2> QED BY <1>3, <2>1, <2>2
<1>16. LogInv'
  <2>1. (\A k \in DOMAIN disk[Log] :
          /\ disk[Log][k][1] <= ops
          /\ disk[Log][k][1] \in torn \/ WholeAt(disk[Log], k) \/
             (Appending(p) /\ proc[p].src # <<>> /\ disk[Log][k][1] = proc[p].op))'
    <3>2. proc'[p].op = n BY WriteInPlaceFacts DEF n
    <3>3. \A k : WholeAt(disk[Log], k)' <=> WholeAt(v, k) BY <1>8 DEF WholeAt
    <3> QED BY <1>0, <1>4, <1>8, <1>15, <3>2, <3>3
  <2>2. Len(disk'[Log]) >= 2 BY <1>2, <1>8, <1>9
  <2> QED BY <2>1, <2>2 DEF LogInv
<1>17. ASSUME NEW r \in Procs PROVE TempInv(r)'
  <2>1. CASE r = p BY <2>1, WriteInPlaceFacts DEF TempInv
  <2>2. CASE r # p
    <3>1. TempInv(r) /\ proc[r].tmp \in Content BY ProcFacts DEF DiskInv
    <3>2. proc'[r] = proc[r] /\ Task(r)' = Task(r) BY <1>7, <2>2
    <3>3. IsPrefix(proc[r].tmp, disk[Log]) => IsPrefix(proc[r].tmp, disk'[Log])
      BY <1>8, <1>12, <3>1 DEF u
    <3> QED BY <3>1, <3>2, <3>3 DEF TempInv
  <2> QED BY <2>1, <2>2
<1>18. ASSUME NEW r \in Procs, r # p PROVE AppendInv(r)'
  <2>1. proc'[r] = proc[r] /\ Task(r)' = Task(r) /\ ~Appending(r) /\ ~Appending(r)' BY <1>7, <1>18
  <2>2. AppendInv(r) BY DEF DiskInv
  <2>3. WritesLast(proc[r].todo)' BY <2>1, <2>2 DEF AppendInv, WritesLast
  <2>4. ASSUME WillAppend(proc[r].todo) PROVE ~Has(v, proc[r].op)
    <3>1. ~Has(u, proc[r].op) BY <2>1, <2>2, <2>4 DEF AppendInv, u
    <3>2. proc[r].at # "idle"
      <4>1. proc[r].todo # <<>> BY <2>4 DEF WillAppend
      <4> QED BY <4>1, TaskOf
    <3>3. proc[r].op # n BY <1>7, <1>18, <3>2
    <3>4. \A k \in DOMAIN v : v[k][1] # proc[r].op
      <4>1. \A k \in 1..Len(u) : u[k][1] # proc[r].op BY <1>10, <3>1 DEF Has
      <4> QED BY <1>1, <1>9, <1>10, <1>11, <1>14, <3>3, <4>1
    <3> QED BY <3>4 DEF Has
  <2>5. (WillAppend(proc[r].todo) => ~Has(disk[Log], proc[r].op))'
    BY <1>8, <2>1, <2>4 DEF WillAppend, Has
  <2> QED BY <2>1, <2>3, <2>5 DEF AppendInv
<1>19. AppendInv(p)'
  <2>1. WritesLast(proc[p].todo)' BY WriteInPlaceFacts DEF DiskInv, AppendInv, WritesLast
  <2>2. proc'[p].op = n BY WriteInPlaceFacts DEF n
  <2>3. CASE ~Has(u, n) /\ v = Append(u, <<n, 1>>) /\ proc'[p].src = <<<<n, 2>>>>
    <3>0. <<n, 1>> \in Nat \X Nat BY <1>2
    <3>1. v[Len(u) + 1] = <<n, 1>> BY <1>2, <2>3, <3>0, GrowFacts
    <3>2. v[Len(v)] = <<n, 1>> BY <1>9, <3>1
    <3>3. \A k \in 1..(Len(v) - 1) : k \in 1..Len(u) BY <1>9
    <3>4. \A k \in 1..(Len(v) - 1) : v[k][1] # n BY <1>10, <1>11, <2>3, <3>3 DEF Has
    <3> QED BY <1>4, <1>8, <2>1, <2>2, <2>3, <3>2, <3>4 DEF AppendInv
  <2>4. CASE proc'[p].src = <<>> BY <1>4, <2>1, <2>4 DEF AppendInv
  <2> QED BY <1>3, <2>3, <2>4
<1>20. NoTornFiles'
  <2> DEFINE c == Append(disk[Task(p).path], Head(proc[p].src))
  <2>1. disk' = [disk EXCEPT ![Task(p).path] = c] BY DEF WriteInPlace
  <2> HIDE DEF c
  <2>2. /\ disk'[File] = disk[File] /\ disk'[Outside] = disk[Outside]
        /\ \A m \in 1..MaxOps : disk'[Out(m)] = disk[Out(m)]
    BY <2>1, WriteInPlaceFacts, InPlaceFacts
  <2>3. IsPrefix(disk[File], disk[Log]) => IsPrefix(disk[File], disk'[Log])
    BY <1>8, <1>12, LogContent, PathsThere DEF u
  <2>4. (Whole(disk[File], {}) \/ ("Copy" \in suite.ops /\ IsPrefix(disk[File], disk[Log])))'
    BY <1>0, <2>2, <2>3 DEF DiskInv, NoTornFiles
  <2>5. ("Copy" \notin suite.ops => \A s \in seen : Whole(s, torn))'
    BY <1>0 DEF DiskInv, NoTornFiles
  <2>6. (\A m \in 1..MaxOps : disk[Out(m)] # Missing => Len(disk[Out(m)]) <= Limit)'
    BY <2>2 DEF DiskInv, NoTornFiles
  <2> QED BY <1>0, <2>2, <2>4, <2>5, <2>6 DEF DiskInv, NoTornFiles
<1> QED BY <1>16, <1>17, <1>18, <1>19, <1>20 DEF DiskInv

\* Tasks that only take, release or end something.
LEMMA DiskPasses ==
  ASSUME Base, Base', DiskInv, NEW p \in Procs,
         TakeLock(p) \/ ReleaseLock(p) \/ RemoveDone(p) \/ WroteInPlace(p)
  PROVE  DiskInv'
<1>1. UNCHANGED <<disk, ops, seen, ranges, torn, suite>> /\ Done(p)
  BY DEF TakeLock, ReleaseLock, RemoveDone, WroteInPlace, fs, ghosts
<1>2. proc[p].todo # <<>> /\ proc[p].parts = {}
  BY WritingTask DEF TakeLock, ReleaseLock, RemoveDone, WroteInPlace, Doing
<1>3. Appending(p) => proc[p].src = <<>>
  BY DEF TakeLock, ReleaseLock, RemoveDone, WroteInPlace, Doing, Appending
<1>4. NoTornFiles' BY <1>1, SameFiles DEF DiskInv
<1> QED BY <1>1, <1>2, <1>3, <1>4, DiskDone

LEMMA DiskReadLocked ==
  ASSUME Base, Base', DiskInv, NEW p \in Procs, ReadLocked(p) PROVE DiskInv'
<1>1. UNCHANGED <<disk, ops, ranges, torn, suite>> /\ Done(p) BY DEF ReadLocked, fs
<1>2. proc[p].todo # <<>> /\ proc[p].parts = {} /\ ~Appending(p) /\ Task(p).do = "read"
      /\ proc[p].at = "next"
  BY WritingTask DEF ReadLocked, Doing, Appending
<1>3. Task(p) = ReadFile(File) \/ Task(p) = ReadFile(Log) BY <1>2, TaskOf, TaskFacts
<1>4. ASSUME "Copy" \notin suite.ops PROVE Whole(disk[Task(p).path], torn)
  <2>1. CASE Task(p) = ReadFile(File)
    <3>1. Task(p).path = File BY <2>1 DEF ReadFile
    <3>2. Whole(disk[File], {}) BY <1>4 DEF DiskInv, NoTornFiles
    <3> QED BY <3>1, <3>2, WholeFacts
  <2>2. CASE Task(p) = ReadFile(Log)
    <3>1. Task(p).path = Log BY <2>2 DEF ReadFile
    <3>2. Needs(Task(p), "log") BY <1>2, <3>1 DEF Needs
    <3>3. \A r \in Procs : ~Appending(r) BY <1>2, <3>2, OneAppender
    <3>4. \A k \in DOMAIN disk[Log] : disk[Log][k][1] \in torn \/ WholeAt(disk[Log], k)
      BY <3>3 DEF DiskInv, LogInv
    <3> QED BY <3>1, <3>4, WholeFacts
  <2> QED BY <1>3, <2>1, <2>2
<1>5. seen' = seen \cup {disk[Task(p).path]} BY DEF ReadLocked
<1>6. NoTornFiles'
  <2>1. ("Copy" \notin suite.ops => \A s \in seen : Whole(s, torn))'
    BY <1>1, <1>4, <1>5 DEF DiskInv, NoTornFiles
  <2>2. (Whole(disk[File], {}) \/ ("Copy" \in suite.ops /\ IsPrefix(disk[File], disk[Log])))'
    BY <1>1 DEF DiskInv, NoTornFiles
  <2>3. (\A n \in 1..MaxOps : disk[Out(n)] # Missing => Len(disk[Out(n)]) <= Limit)'
    BY <1>1 DEF DiskInv, NoTornFiles
  <2> QED BY <1>1, <2>1, <2>2, <2>3 DEF DiskInv, NoTornFiles
<1> QED BY <1>1, <1>2, <1>6, DiskDone

LEMMA DiskFailures ==
  ASSUME Base, Base', DiskInv, NEW p \in Procs,
         OpenFails(p) \/ WriteTempFails(p) \/ RemoveFails(p) \/ WriteInPlaceFails(p)
  PROVE  DiskInv'
<1>1. CASE OpenFails(p) \/ WriteTempFails(p) \/ RemoveFails(p)
  <2>1. Fails(p) /\ UNCHANGED <<disk, ops, seen, ranges, suite, torn>>
    BY <1>1 DEF OpenFails, WriteTempFails, RemoveFails, fs, ghosts
  <2>2. ~Appending(p) BY <1>1 DEF OpenFails, WriteTempFails, RemoveFails, Doing, Appending
  <2> QED BY <2>1, <2>2, DiskFails
<1>2. CASE WriteInPlaceFails(p)
  <2>1. Fails(p) /\ UNCHANGED <<disk, ops, seen, ranges, suite>> /\ torn' = torn \cup {proc[p].op}
    BY <1>2 DEF WriteInPlaceFails, fs
  <2> QED BY <2>1, DiskFails
<1> QED BY <1>1, <1>2

LEMMA DiskFinish ==
  ASSUME Base, Base', DiskInv, NEW p \in Procs, Finish(p) PROVE DiskInv'
<1>1. UNCHANGED <<disk, ops, seen, ranges, torn, suite>> BY DEF Finish, fs, ghosts
<1>2. proc'[p] = Idle /\ \A r \in Procs : r # p => proc'[r] = proc[r]
  BY DEF Finish, Base, TypeInv
<1>3. NoTornFiles' BY <1>1, SameFiles DEF DiskInv
<1>4. TempInv(p)' /\ AppendInv(p)'
  BY <1>2, IdleFacts DEF TempInv, AppendInv, Appending, WillAppend, WritesLast
<1>5. ops <= ops' BY <1>1, FilesAssumption DEF Base, TypeInv
<1>6. ~Appending(p) BY DEF Finish, Appending
<1> QED BY <1>1, <1>2, <1>3, <1>4, <1>5, <1>6, SameLog

\* The directory is read: the tasks become s.
LEMMA ListChunksFacts ==
  ASSUME Base, NEW p \in Procs, ListChunks(p)
  PROVE  /\ proc[p].todo # <<>> /\ Task(p).do = "chunks" /\ proc[p].at = "next"
         /\ UNCHANGED <<disk, litter, ops, seen, ranges, torn, chunks, suite>>
         /\ \/ Fails(p)
            \/ /\ \A r \in Procs : r # p => proc'[r] = proc[r]
               /\ proc'[p].at = "next" /\ proc'[p].op = proc[p].op
               /\ \/ proc'[p].todo = Tail(proc[p].todo) /\ Task(p).path = <<>>
                  \/ /\ proc'[p].todo = <<Merge(Merged(proc[p].op), Present)>> \o Tail(proc[p].todo)
                     /\ Merge(Merged(proc[p].op), Present) \in AllTasks
                     /\ Task(p).path = Merged(proc[p].op)
<1> DEFINE s2 == IF Task(p).path = <<>> THEN Tail(proc[p].todo)
                 ELSE <<Merge(Task(p).path, Present)>> \o Tail(proc[p].todo)
<1>1. proc[p].todo # <<>> /\ Task(p).do = "chunks" /\ proc[p].at = "next" BY DEF ListChunks, Doing
<1>2. UNCHANGED <<disk, litter, ops, seen, ranges, torn, chunks, suite>> BY DEF ListChunks, fs, ghosts
<1>3. CASE proc' = [proc EXCEPT ![p].todo = s2]
  <2>1. Task(p) \in Tasks(proc[p].op) /\ proc[p].op \in 0..MaxOps
    BY <1>1, TaskOf, FilesAssumption
  <2>2. Task(p).path # <<>> => Task(p).path = Merged(proc[p].op)
    BY <1>1, <2>1, TaskFacts DEF ReadChunks
  <2>3. Merge(Merged(proc[p].op), Present) \in AllTasks
    <3>1. Present \in SUBSET Indexes BY DEF Present
    <3>2. Merge(Merged(proc[p].op), Present) \in Tasks(proc[p].op) BY <3>1 DEF Tasks
    <3> QED BY <2>1, <3>2 DEF AllTasks
  <2>4. proc[p] \in ProcType BY ProcFacts
  <2>5. \/ s2 = Tail(proc[p].todo) /\ Task(p).path = <<>>
        \/ /\ s2 = <<Merge(Merged(proc[p].op), Present)>> \o Tail(proc[p].todo)
           /\ Task(p).path = Merged(proc[p].op)
    BY <2>2
  <2> HIDE DEF s2
  <2>6. /\ proc'[p] = [proc[p] EXCEPT !.todo = s2]
        /\ \A r \in Procs : r # p => proc'[r] = proc[r]
    BY <1>3 DEF Base, TypeInv
  <2>7. proc'[p].at = proc[p].at /\ proc'[p].op = proc[p].op /\ proc'[p].todo = s2
    BY <2>4, <2>6 DEF ProcType
  <2> QED BY <1>1, <1>2, <2>3, <2>5, <2>6, <2>7
<1>4. Fails(p) \/ proc' = [proc EXCEPT ![p].todo = s2] BY DEF ListChunks
<1> QED BY <1>1, <1>2, <1>3, <1>4

LEMMA DiskListChunks ==
  ASSUME Base, Base', DiskInv, NEW p \in Procs, ListChunks(p) PROVE DiskInv'
<1> DEFINE s == proc[p].todo
           t == Merge(Merged(proc[p].op), Present)
<1>1. s # <<>> /\ Task(p).do = "chunks" /\ proc[p].at = "next" /\ ~Appending(p)
  BY ListChunksFacts DEF Appending
<1>2. UNCHANGED <<disk, ops, seen, ranges, torn, suite>> BY ListChunksFacts
<1>3. CASE Fails(p) BY <1>1, <1>2, <1>3, DiskFails
<1>4. ASSUME \A r \in Procs : r # p => proc'[r] = proc[r],
             proc'[p].at = "next", proc'[p].op = proc[p].op,
             WritesLast(proc'[p].todo), WillAppend(proc'[p].todo) => WillAppend(s)
      PROVE  DiskInv'
  <2>1. WritesLast(proc[p].todo)' BY <1>4 DEF WritesLast
  <2>2. ~Has(disk[Log], proc[p].op) \/ ~WillAppend(proc'[p].todo)
    BY <1>1, <1>4 DEF DiskInv, AppendInv
  <2>3. (WillAppend(proc[p].todo) => ~Has(disk[Log], proc[p].op))'
    BY <1>2, <1>4, <2>2 DEF WillAppend, Has
  <2>4. AppendInv(p)' /\ TempInv(p)' BY <1>4, <2>1, <2>3 DEF AppendInv, TempInv, Appending
  <2>5. NoTornFiles' BY <1>2, SameFiles DEF DiskInv
  <2>6. ops <= ops' BY <1>2, FilesAssumption DEF Base, TypeInv
  <2> QED BY <1>1, <1>2, <1>4, <2>4, <2>5, <2>6, SameLog
<1>5. s \in Seq(AllTasks) /\ WritesLast(s) BY ProcFacts DEF DiskInv, AppendInv
<1>6. WritesLast(Tail(s)) /\ (WillAppend(Tail(s)) => WillAppend(s)) BY <1>1, <1>5, AppendTail
<1>7. ASSUME t \in AllTasks, proc'[p].todo = <<t>> \o Tail(s)
      PROVE  WritesLast(proc'[p].todo) /\ (WillAppend(proc'[p].todo) => WillAppend(s))
  <2> DEFINE s2 == proc'[p].todo
             v == Tail(s)
  <2>1. v \in Seq(AllTasks) BY <1>1, <1>5, TailFacts
  <2>2. t.do = "merge" BY DEF Merge
  <2>3. s2 = <<t>> \o v BY <1>7
  <2> HIDE DEF t, s2, v
  <2>4. s2 \in Seq(AllTasks) /\ DOMAIN s2 = 1..(Len(v) + 1) /\ s2[1] = t
    BY <1>7, <2>1, <2>3, ConsFacts
  <2>5. \A k \in DOMAIN s2 : (k = 1 /\ s2[k] = t) \/ (k - 1 \in 1..Len(v) /\ s2[k] = v[k - 1])
    BY <1>7, <2>1, <2>3, ConsFacts
  <2>6. DOMAIN v = 1..Len(v) BY <2>1
  <2>7. \A k \in DOMAIN s2 :
          s2[k].do \in {"append", "put"} => k - 1 \in DOMAIN v /\ v[k - 1].do = s2[k].do
    BY <2>2, <2>5, <2>6
  <2>8. WritesLast(s2)
    <3>1. ASSUME NEW k \in DOMAIN s2, NEW m \in DOMAIN s2, k < m, s2[k].do \in {"append", "put"}
          PROVE  s2[m].do = "unlock"
      <4>1. k - 1 \in DOMAIN v /\ v[k - 1].do \in {"append", "put"} BY <2>7, <3>1
      <4>2. m - 1 \in DOMAIN v /\ s2[m] = v[m - 1] /\ k - 1 < m - 1 BY <2>4, <2>5, <2>6, <3>1
      <4> QED BY <1>6, <4>1, <4>2 DEF WritesLast, v
    <3> QED BY <3>1 DEF WritesLast
  <2>9. WillAppend(s2) => WillAppend(v) BY <2>7 DEF WillAppend
  <2> QED BY <1>6, <2>8, <2>9 DEF s2, v
<1> QED BY <1>3, <1>4, <1>6, <1>7, ListChunksFacts

LEMMA RemoveChunkFacts ==
  ASSUME Base, NEW p \in Procs, RemoveChunk(p)
  PROVE  \E i \in Present : /\ i \in Indexes /\ disk'[Chunk(i)] = Missing
                            /\ \A q \in Paths : q # Chunk(i) => disk'[q] = disk[q]
<1>1. PICK i \in Present : disk' = [disk EXCEPT ![Chunk(i)] = Missing] BY DEF RemoveChunk
<1>2. i \in Indexes /\ Chunk(i) \in Paths BY PathsThere DEF Present
<1> QED BY <1>1, <1>2, LogContent

\* The goroutines are as they were, and so are the log and the files.
LEMMA DiskRests ==
  ASSUME Base, Base', DiskInv, disk'[Log] = disk[Log], UNCHANGED <<ops, torn, proc>>, NoTornFiles'
  PROVE  DiskInv'
<1>1. \A p \in Procs : Task(p)' = Task(p) /\ (Appending(p)' <=> Appending(p)) BY DEF Task, Appending
<1>2. \A p \in Procs : TempInv(p)' BY <1>1 DEF DiskInv, TempInv
<1>3. ASSUME NEW p \in Procs PROVE AppendInv(p)'
  <2>1. AppendInv(p) BY DEF DiskInv
  <2>2. WritesLast(proc[p].todo)' BY <2>1 DEF AppendInv, WritesLast
  <2>3. (WillAppend(proc[p].todo) /\ ~Appending(p) => ~Has(disk[Log], proc[p].op))'
    BY <1>1, <2>1 DEF AppendInv, WillAppend, Has
  <2> QED BY <1>1, <2>1, <2>2, <2>3 DEF AppendInv, Has
<1>4. LogInv'
  <2>1. \A k : WholeAt(disk[Log], k)' <=> WholeAt(disk[Log], k) BY DEF WholeAt
  <2> QED BY <1>1, <2>1 DEF DiskInv, LogInv
<1> QED BY <1>2, <1>3, <1>4 DEF DiskInv

LEMMA DiskRemoveChunk ==
  ASSUME Base, Base', DiskInv, NEW p \in Procs, RemoveChunk(p) PROVE DiskInv'
<1>1. UNCHANGED <<proc, ops, seen, ranges, torn, suite>> BY DEF RemoveChunk, ghosts
<1>2. PICK i \in Present : \A q \in Paths : q # Chunk(i) => disk'[q] = disk[q] BY RemoveChunkFacts
<1>3. /\ disk'[File] = disk[File] /\ disk'[Log] = disk[Log] /\ disk'[Outside] = disk[Outside]
      /\ \A n \in 1..MaxOps : disk'[Out(n)] = disk[Out(n)]
  BY <1>2, PathFacts, PathsThere
<1>4. NoTornFiles' BY <1>1, <1>3, SameFiles DEF DiskInv
<1> QED BY <1>1, <1>3, <1>4, DiskRests

LEMMA DiskReadStream ==
  ASSUME Base, Base', DiskInv, ReadStream PROVE DiskInv'
<1>1. UNCHANGED <<disk, proc, ops, seen, torn, suite>> BY DEF ReadStream, fs, ghosts
<1>2. Len(disk[Log]) \in Nat BY LogContent DEF Content
<1>3. ASSUME NEW r \in ranges'
      PROVE  /\ 0 <= r.got.start /\ r.got.start <= r.total /\ r.got.end < r.total
             /\ r.got.n = r.got.end - r.got.start + 1
  <2> DEFINE total == Len(disk[Log])
  <2>1. PICK s \in -1..total + 1, e \in -1..total + 1 :
          r = [total |-> total, got |-> FileRange(total, s, e)]
    BY <1>3 DEF ReadStream
  <2> DEFINE g == r.got
  <2>2. s \in Int /\ e \in Int /\ r.total = total /\ g = FileRange(total, s, e) /\ total \in Nat
    BY <1>2, <2>1
  <2> HIDE DEF total, g
  <2>3. 0 <= g.start /\ g.start <= total /\ g.end < total /\ g.n = g.end - g.start + 1
    BY ZenonT(60), <2>2, RangeFacts
  <2> QED BY <2>2, <2>3 DEF g
<1>4. NoTornFiles'
  <2>1. (\A r \in ranges : /\ 0 <= r.got.start /\ r.got.start <= r.total /\ r.got.end < r.total
                           /\ r.got.n = r.got.end - r.got.start + 1)'
    BY <1>3
  <2>2. ("Copy" \notin suite.ops => \A s \in seen : Whole(s, torn))'
    BY <1>1 DEF DiskInv, NoTornFiles
  <2>3. (Whole(disk[File], {}) \/ ("Copy" \in suite.ops /\ IsPrefix(disk[File], disk[Log])))'
    BY <1>1 DEF DiskInv, NoTornFiles
  <2>4. (\A n \in 1..MaxOps : disk[Out(n)] # Missing => Len(disk[Out(n)]) <= Limit)'
    BY <1>1 DEF DiskInv, NoTornFiles
  <2> QED BY <1>1, <2>1, <2>2, <2>3, <2>4 DEF DiskInv, NoTornFiles
<1> QED BY <1>1, <1>4, DiskRests

LEMMA DiskCrash ==
  ASSUME Base, Base', DiskInv, Crash PROVE DiskInv'
<1>1. \A p \in Procs : proc'[p] = Idle BY DEF Crash
<1>2. UNCHANGED <<disk, ops, seen, ranges, suite>> BY DEF Crash
<1>3. torn \subseteq torn' /\ \A p \in Procs : Appending(p) => proc[p].op \in torn'
  BY DEF Crash, Appending
<1>4. NoTornFiles' BY <1>2, <1>3, SameFiles DEF DiskInv
<1>5. ASSUME NEW p \in Procs PROVE TempInv(p)' /\ AppendInv(p)'
  <2>1. proc'[p] = Idle BY <1>1
  <2> QED BY <2>1, IdleFacts DEF TempInv, AppendInv, Appending, WillAppend, WritesLast
<1>6. LogInv'
  <2>1. \A k : WholeAt(disk[Log], k)' <=> WholeAt(disk[Log], k) BY <1>2 DEF WholeAt
  <2> QED BY <1>2, <1>3, <2>1 DEF DiskInv, LogInv
<1> QED BY <1>4, <1>5, <1>6 DEF DiskInv

LEMMA DiskBegin ==
  ASSUME Base, Base', DiskInv, NEW p \in Procs, NEW name, NEW tasks, Begin(p, name, tasks), Plan(tasks)
  PROVE  DiskInv'
<1>1. /\ proc'[p].at = "next" /\ proc'[p].todo = tasks /\ proc'[p].op = ops + 1
      /\ ops' = ops + 1 /\ \A r \in Procs : r # p => proc'[r] = proc[r]
      /\ UNCHANGED <<disk, torn, seen, ranges, suite>>
  BY BeginFacts
<1>2. ops \in Nat BY FilesAssumption DEF Base, TypeInv
<1>3. NoTornFiles' BY <1>1, SameFiles DEF DiskInv
<1>4. ~Has(disk[Log], ops + 1)
  <2>1. \A k \in DOMAIN disk[Log] : disk[Log][k][1] <= ops BY DEF DiskInv, LogInv
  <2> QED BY <1>2, <2>1 DEF Has
<1>5. AppendInv(p)' /\ TempInv(p)'
  <2>1. WritesLast(proc[p].todo)' BY <1>1 DEF Plan, WritesLast
  <2>2. ~Has(disk[Log], proc[p].op)' BY <1>1, <1>4 DEF Has
  <2> QED BY <1>1, <2>1, <2>2 DEF AppendInv, TempInv, Appending
<1>6. ~Appending(p) BY DEF Begin, Appending
<1>7. ops <= ops' BY <1>1, <1>2
<1> QED BY <1>1, <1>3, <1>5, <1>6, <1>7, SameLog

LEMMA DiskInit == Init => DiskInv
<1> SUFFICES ASSUME Init PROVE DiskInv OBVIOUS
<1> DEFINE c == <<<<0, 1>>, <<0, 2>>>>
<1>1. disk[File] = c /\ disk[Log] = c BY PathsThere DEF Init
<1>2. disk[Outside] = Missing /\ \A n \in 1..MaxOps : disk[Out(n)] = Missing
  BY PathsThere, PathFacts DEF Init
<1>3. c = Pieces(0, 2) BY DEF Pieces
<1>4. Whole(c, {}) /\ Len(c) = 2 BY <1>3, PiecesWhole
<1>5. \A k \in DOMAIN c : c[k][1] = 0 BY <1>3 DEF Pieces
<1> HIDE DEF c
<1>6. NoTornFiles
  <2>1. seen = {} /\ ranges = {} BY DEF Init
  <2>2. Len(disk[File]) >= 2 BY <1>1, <1>4
  <2> QED BY <1>1, <1>2, <1>4, <2>1, <2>2 DEF NoTornFiles
<1>7. LogInv
  <2>1. \A k \in DOMAIN c : WholeAt(c, k) BY <1>4, WholeFacts
  <2>2. ops = 0 /\ Len(disk[Log]) >= 2 BY <1>1, <1>4 DEF Init
  <2>3. \A k \in DOMAIN disk[Log] : disk[Log][k][1] <= ops /\ WholeAt(disk[Log], k)
    BY <1>1, <1>5, <2>1, <2>2
  <2> QED BY <2>2, <2>3 DEF LogInv
<1>8. ASSUME NEW p \in Procs PROVE TempInv(p) /\ AppendInv(p)
  <2>1. proc[p] = Idle BY DEF Init
  <2> QED BY <2>1, IdleFacts DEF TempInv, AppendInv, Appending, WillAppend, WritesLast
<1> QED BY <1>6, <1>7, <1>8 DEF DiskInv

LEMMA DiskNext == Base /\ DiskInv /\ [Next]_vars => DiskInv'
<1> SUFFICES ASSUME Base, DiskInv, [Next]_vars PROVE DiskInv' OBVIOUS
<1>0. Base' BY BaseNext
<1>1. ASSUME NEW p \in Procs, Operation(p) PROVE DiskInv'
  <2>1. PICK name, tasks : Begin(p, name, tasks) /\ Plan(tasks) BY <1>1, OperationPlan
  <2> QED BY <1>0, <2>1, DiskBegin
<1>2. CASE UNCHANGED vars
  <2>1. UNCHANGED <<disk, ops, torn, proc, seen, ranges, suite>> BY <1>2 DEF vars, fs, ghosts
  <2>2. NoTornFiles' BY <2>1, SameFiles DEF DiskInv
  <2> QED BY <1>0, <2>1, <2>2, DiskRests
<1>3. ASSUME NEW p \in Procs, WriteInPlace(p) PROVE DiskInv'
  BY <1>0, <1>3, WriteInPlaceFacts, DiskExtracts, DiskAppends
<1>4. ASSUME NEW p \in Procs,
             \/ TakeLock(p) \/ ReleaseLock(p) \/ Finish(p) \/ CreateTemp(p) \/ WriteTemp(p)
             \/ CloseTemp(p) \/ Rename(p) \/ WriteTempFails(p) \/ OpenInPlace(p) \/ WriteInPlace(p)
      PROVE  DiskInv'
  BY <1>0, <1>3, <1>4, DiskPasses, DiskFinish, DiskCreateTemp, DiskWriteTemp, DiskCloseTemp,
     DiskRename, DiskFailures, DiskOpenInPlace
<1>5. ASSUME NEW p \in Procs,
             \/ WroteInPlace(p) \/ ReadLocked(p) \/ ListChunks(p) \/ OpenChunk(p) \/ RemoveChunk(p)
             \/ RemoveDone(p) \/ OpenFails(p) \/ WriteInPlaceFails(p) \/ RemoveFails(p)
      PROVE  DiskInv'
  BY <1>0, <1>5, DiskPasses, DiskReadLocked, DiskListChunks, DiskOpenChunk, DiskRemoveChunk,
     DiskFailures
<1> QED BY <1>0, <1>1, <1>2, <1>4, <1>5, DiskReadStream, DiskCrash, Steps

\* No file that is replaced is ever seen or left half written, whatever fails
\* and whenever the program crashes; locked readers see whole appends; uploads
\* beyond MaxSize are not stored, nothing is unpacked outside of its directory.
THEOREM FilesNeverTorn == Spec => []NoTornFiles
<1>1. Init => Base /\ DiskInv BY BaseInit, DiskInit
<1>2. Base /\ DiskInv /\ [Next]_vars => Base' /\ DiskInv' BY BaseNext, DiskNext
<1>3. DiskInv => NoTornFiles BY DEF DiskInv
<1> QED BY <1>1, <1>2, <1>3, PTL DEF Spec

-----------------------------------------------------------------------------
(* What chunks and merged files hold.                                      *)

LEMMA HoldsAtFacts ==
  ASSUME NEW a \in Content, NEW c \in Content, NEW k \in Nat
  PROVE  HoldsAt(a, c, k) <=> k + Len(c) <= Len(a) /\ \A j \in 1..Len(c) : a[k + j] = c[j]
<1>1. Len(a) \in Nat /\ Len(c) \in Nat BY DEF Content
<1> DEFINE w == SubSeq(a, k + 1, k + Len(c))
<1>2. ASSUME k + Len(c) <= Len(a)
      PROVE  w \in Content /\ Len(w) = Len(c) /\ \A j \in 1..Len(c) : w[j] = a[k + j]
  <2> DEFINE first == k + 1
             last == k + Len(c)
  <2>1. first \in Int /\ last \in Int /\ \A i \in first..last : i \in 1..Len(a) BY <1>1, <1>2
  <2>2. \A i \in first..last : a[i] \in Nat \X Nat BY <2>1 DEF Content
  <2>3. w = SubSeq(a, first, last) OBVIOUS
  <2>4. last - first + 1 = Len(c) /\ (~(first <= last) => Len(c) = 0)
        /\ \A j \in 1..Len(c) : first + j - 1 = k + j
    BY <1>1
  <2> HIDE DEF w, first, last
  <2>5. w \in Content BY <2>1, <2>2, <2>3, SubSeqProperties DEF Content
  <2>6. Len(w) = IF first <= last THEN last - first + 1 ELSE 0
    BY <2>1, <2>2, <2>3, SubSeqProperties
  <2>7. \A j \in 1..(last - first + 1) : w[j] = a[first + j - 1]
    BY <2>1, <2>2, <2>3, SubSeqProperties
  <2>8. \A j \in 1..Len(c) : w[j] = a[k + j] BY <2>4, <2>7
  <2> QED BY <2>4, <2>5, <2>6, <2>8
<1>3. HoldsAt(a, c, k) <=> k + Len(c) <= Len(a) /\ w = c BY DEF HoldsAt
<1> HIDE DEF w
<1>4. ASSUME k + Len(c) <= Len(a), \A j \in 1..Len(c) : a[k + j] = c[j] PROVE w = c
  <2>1. \A j \in 1..Len(w) : w[j] = c[j] BY <1>2, <1>4
  <2> QED BY <1>2, <1>4, <2>1, SeqEqual DEF Content
<1>5. ASSUME k + Len(c) <= Len(a), w = c PROVE \A j \in 1..Len(c) : a[k + j] = c[j]
  BY <1>2, <1>5
<1> QED BY <1>3, <1>4, <1>5

\* What is added does not hide what was there.
LEMMA HoldsAtMore ==
  ASSUME NEW a \in Content, NEW b \in Content, NEW c \in Content, NEW k \in Nat, HoldsAt(a, c, k)
  PROVE  HoldsAt(a \o b, c, k)
<1> DEFINE s == a \o b
<1>1. s = a \o b OBVIOUS
<1> HIDE DEF s
<1>2. s \in Content /\ Len(s) = Len(a) + Len(b) BY <1>1, ConcatFacts
<1>3. \A j \in 1..Len(a) : s[j] = a[j] BY <1>1, ConcatFacts
<1>4. Len(a) \in Nat /\ Len(b) \in Nat /\ Len(c) \in Nat BY DEF Content
<1>5. k + Len(c) <= Len(a) /\ \A j \in 1..Len(c) : a[k + j] = c[j] BY HoldsAtFacts
<1>6. \A j \in 1..Len(c) : k + j \in 1..Len(a) BY <1>4, <1>5
<1>7. k + Len(c) <= Len(s) /\ \A j \in 1..Len(c) : s[k + j] = c[j] BY <1>2, <1>3, <1>4, <1>5, <1>6
<1>8. HoldsAt(s, c, k) BY <1>2, <1>7, HoldsAtFacts
<1> QED BY <1>8 DEF s

LEMMA HoldsMore ==
  ASSUME NEW a \in Content, NEW b \in Content, NEW c \in Content, Holds(a, c)
  PROVE  Holds(a \o b, c)
<1>1. PICK k \in 0..Len(a) : HoldsAt(a, c, k) BY DEF Holds
<1>2. Len(a) \in Nat /\ Len(b) \in Nat BY DEF Content
<1>3. HoldsAt(a \o b, c, k) BY <1>1, HoldsAtMore
<1>4. k \in 0..Len(a \o b)
  <2>1. Len(a \o b) = Len(a) + Len(b) BY DEF Content
  <2> QED BY <1>1, <1>2, <2>1
<1> QED BY <1>3, <1>4 DEF Holds

LEMMA HoldsAdded ==
  ASSUME NEW a \in Content, NEW c \in Content
  PROVE  HoldsAt(a \o c, c, Len(a)) /\ Len(a) \in 0..Len(a \o c) /\ Holds(a \o c, c)
<1> DEFINE s == a \o c
<1>1. s = a \o c OBVIOUS
<1> HIDE DEF s
<1>2. s \in Content /\ Len(s) = Len(a) + Len(c) BY <1>1, ConcatFacts
<1>3. \A j \in 1..Len(c) : s[Len(a) + j] = c[j] BY <1>1, ConcatFacts
<1>4. Len(a) \in Nat /\ Len(c) \in Nat BY DEF Content
<1>5. HoldsAt(s, c, Len(a)) BY <1>2, <1>3, <1>4, HoldsAtFacts
<1>6. Len(a) \in 0..Len(s) BY <1>2, <1>4
<1> QED BY <1>5, <1>6 DEF s, Holds

\* A chunk is not found in a file that is not there.
LEMMA MadeFacts ==
  ASSUME NEW c \in Content, Made(c)
  PROVE  ~Holds(Missing, c) /\ c # Missing
<1>1. Missing \in Content /\ Len(Missing) = 1 /\ Missing[1][1] = 0 BY DEF Missing, Content
<1>2. Len(c) \in Nat \ {0} /\ DOMAIN c = 1..Len(c) BY DEF Made, Content
<1>3. ASSUME NEW k \in 0..Len(Missing), HoldsAt(Missing, c, k) PROVE FALSE
  <2>1. k \in Nat BY <1>1, <1>3
  <2>2. k + Len(c) <= Len(Missing) /\ \A j \in 1..Len(c) : Missing[k + j] = c[j]
    BY <1>1, <1>3, <2>1, HoldsAtFacts
  <2>3. k = 0 /\ 1 \in 1..Len(c) /\ k + 1 = 1 BY <1>1, <1>2, <2>1, <2>2
  <2>4. c[1] = Missing[1] BY <2>2, <2>3
  <2> QED BY <1>1, <1>2, <2>3, <2>4 DEF Made
<1>4. c # Missing
  <2>1. 1 \in DOMAIN c BY <1>2
  <2>2. c[1][1] > 0 BY <2>1 DEF Made
  <2> QED BY <1>1, <2>2
<1> QED BY <1>3, <1>4 DEF Holds

LEMMA PiecesMade ==
  ASSUME NEW n \in 1..MaxOps, NEW k \in 1..Limit + 1
  PROVE  Made(Pieces(n, k)) /\ Pieces(n, k) \in Content /\ \A j \in DOMAIN Pieces(n, k) : Pieces(n, k)[j][1] = n
<1> DEFINE c == Pieces(n, k)
<1>1. k \in Nat \ {0} /\ n \in Nat /\ n > 0 BY FilesAssumption
<1>2. c \in Content /\ Len(c) = k /\ \A j \in 1..k : c[j] = <<n, j>> BY <1>1 DEF Pieces, Content
<1> HIDE DEF c
<1>3. DOMAIN c = 1..k BY <1>1, <1>2 DEF Content
<1>4. \A j \in DOMAIN c : c[j][1] = n BY <1>2, <1>3
<1>5. c # <<>> BY <1>1, <1>2
<1> QED BY <1>1, <1>2, <1>4, <1>5 DEF Made, c

LEMMA MergeTail ==
  ASSUME NEW S, NEW s \in Seq(S), s # <<>>, MergeOnce(s), RemoveMerged(s)
  PROVE  /\ MergeOnce(Tail(s)) /\ RemoveMerged(Tail(s))
         /\ \A k \in DOMAIN Tail(s) : k + 1 \in DOMAIN s /\ Tail(s)[k] = s[k + 1] /\ Tail(s)[k].do # "merge"
         /\ Head(s).do \in {"chunks", "merge"} => \A k \in DOMAIN Tail(s) : Tail(s)[k].do # "chunks"
         /\ Tail(s) # <<>> /\ Head(Tail(s)).do = "remove" =>
              Head(s).do = "merge" \/ (Head(s).do = "chunks" /\ Head(s).path # <<>>)
<1>1. \A k \in DOMAIN Tail(s) : k + 1 \in DOMAIN s /\ Tail(s)[k] = s[k + 1] /\ k + 1 # 1 /\ 1 < k + 1
  BY TailFacts
<1>2. 1 \in DOMAIN s /\ Head(s) = s[1] BY TailFacts
<1>3. \A k \in DOMAIN Tail(s) : Tail(s)[k].do # "merge" BY <1>1 DEF MergeOnce
<1>4. Head(s).do \in {"chunks", "merge"} => \A k \in DOMAIN Tail(s) : Tail(s)[k].do # "chunks"
  BY <1>1, <1>2 DEF MergeOnce
<1>5. MergeOnce(Tail(s))
  <2>1. \A k, m \in DOMAIN Tail(s) : k < m => k + 1 < m + 1 BY TailFacts
  <2> QED BY <1>1, <1>3, <2>1 DEF MergeOnce
<1>6. RemoveMerged(Tail(s))
  <2>1. ASSUME NEW k \in DOMAIN Tail(s), k # 1, Tail(s)[k].do = "remove"
        PROVE  \/ Tail(s)[k - 1].do = "merge"
               \/ Tail(s)[k - 1].do = "chunks" /\ Tail(s)[k - 1].path # <<>>
    <3>1. k - 1 \in DOMAIN Tail(s) /\ (k + 1) - 1 = k /\ (k - 1) + 1 = k BY <2>1, TailFacts
    <3>2. s[(k + 1) - 1] = Tail(s)[k - 1] BY <1>1, <3>1
    <3> QED BY <1>1, <2>1, <3>2 DEF RemoveMerged
  <2> QED BY <2>1 DEF RemoveMerged
<1>7. ASSUME Tail(s) # <<>>, Head(Tail(s)).do = "remove"
      PROVE  Head(s).do = "merge" \/ (Head(s).do = "chunks" /\ Head(s).path # <<>>)
  <2>1. Tail(s) \in Seq(S) BY TailFacts
  <2>2. 1 \in DOMAIN Tail(s) /\ Head(Tail(s)) = Tail(s)[1] BY <1>7, <2>1
  <2>3. 1 + 1 \in DOMAIN s /\ s[1 + 1].do = "remove" /\ 1 + 1 # 1 /\ (1 + 1) - 1 = 1
    BY <1>1, <1>7, <2>2
  <2> QED BY <1>2, <2>3 DEF RemoveMerged
<1> QED BY <1>1, <1>3, <1>4, <1>5, <1>6, <1>7

\* Chunks and merged files are as they were.
SameUploads ==
  /\ \A i \in Indexes : disk'[Chunk(i)] = disk[Chunk(i)]
  /\ \A n \in 1..MaxOps : disk'[Merged(n)] = disk[Merged(n)]
  /\ chunks' = chunks

LEMMA SameUploadFacts ==
  ASSUME SameUploads
  PROVE  /\ Present' = Present
         /\ \A n : Unused(n)' <=> Unused(n)
<1>1. Present' = Present BY DEF SameUploads, Present
<1>2. \A n : Unused(n)' <=> Unused(n) BY DEF SameUploads, Unused, Has
<1> QED BY <1>1, <1>2

\* Another goroutine, when no task changes what it has.
LEMMA UploadOther ==
  ASSUME Base, SameUploads, NEW r \in Procs, proc'[r] = proc[r],
         CopyInv(r), PutInv(r), MergeInv(r)
  PROVE  CopyInv(r)' /\ PutInv(r)' /\ MergeInv(r)'
<1>1. Task(r)' = Task(r) /\ Copied(r)' = Copied(r) BY DEF Task, Copied
<1>2. Present' = Present /\ \A n : Unused(n)' <=> Unused(n) BY SameUploadFacts
<1>3. \A i \in Present : i \in Indexes /\ disk'[Chunk(i)] = disk[Chunk(i)] BY DEF Present, SameUploads
<1>4. proc[r].todo # <<>> => disk'[Merged(proc[r].op)] = disk[Merged(proc[r].op)]
  BY TaskOf DEF SameUploads
<1>5. CopyInv(r)' BY <1>1, <1>2, <1>3 DEF CopyInv
<1>6. PutInv(r)' BY <1>1, <1>2 DEF PutInv, WillPut, WritesLast
<1>7. MergeInv(r)'
  <2>1. proc[r].todo # <<>> /\ Task(r).do = "merge" => Task(r).parts = Present BY DEF MergeInv
  <2>2. \A k \in DOMAIN proc[r].todo :
          proc[r].todo[k].do \in {"merge", "chunks"} => disk'[Merged(proc[r].op)] = Missing
    <3>1. \A k \in DOMAIN proc[r].todo : proc[r].todo # <<>> OBVIOUS
    <3> QED BY <1>4, <3>1 DEF MergeInv
  <2>3. (MergeOnce(proc[r].todo) /\ RemoveMerged(proc[r].todo))'
    BY DEF MergeInv, MergeOnce, RemoveMerged
  <2>4. proc[r].todo # <<>> /\ Task(r).do = "remove" =>
          \A i \in Present : Holds(disk'[Merged(proc[r].op)], disk'[Chunk(i)])
    BY <1>3, <1>4 DEF MergeInv
  <2> QED BY <1>1, <1>2, <2>1, <2>2, <2>3, <2>4 DEF MergeInv
<1> QED BY <1>5, <1>6, <1>7

\* What UploadInv says of chunks and merged files.
StoreInv ==
  /\ ChunksKept
  /\ \A i \in Indexes : disk[Chunk(i)] # Missing => disk[Chunk(i)] = chunks[i]
  /\ \A i \in Indexes : chunks[i] # Missing => Made(chunks[i])
  /\ \A i, j \in Indexes : i # j /\ chunks[i] # Missing /\ chunks[j] # Missing =>
       chunks[i][1][1] # chunks[j][1][1]
  /\ \A n \in 1..MaxOps : n > ops => disk[Merged(n)] = Missing /\ Unused(n)

LEMMA SameStore ==
  ASSUME Base, StoreInv, SameUploads, ops' \in Nat, ops <= ops'
  PROVE  StoreInv'
<1>1. \A n : Unused(n)' <=> Unused(n) BY SameUploadFacts
<1>2. ChunksKept' BY DEF StoreInv, ChunksKept, SameUploads
<1>3. \A n \in 1..MaxOps : n > ops' => n > ops BY FilesAssumption DEF Base, TypeInv
<1> QED BY <1>1, <1>2, <1>3 DEF StoreInv, SameUploads

LEMMA UploadSame ==
  ASSUME Base, UploadInv, NEW p \in Procs, SameUploads, ops' \in Nat, ops <= ops',
         \A r \in Procs : r # p => proc'[r] = proc[r],
         CopyInv(p)', PutInv(p)', MergeInv(p)'
  PROVE  UploadInv'
<1>1. StoreInv' BY SameStore DEF UploadInv, StoreInv
<1>2. \A r \in Procs : CopyInv(r)' /\ PutInv(r)' /\ MergeInv(r)' BY UploadOther DEF UploadInv
<1> QED BY <1>1, <1>2 DEF UploadInv, StoreInv

LEMMA PutTail ==
  ASSUME NEW S, NEW s \in Seq(S), s # <<>>, WritesLast(s)
  PROVE  /\ WritesLast(Tail(s))
         /\ WillPut(Tail(s)) => WillPut(s) /\ Head(s).do # "put"
<1>1. \A k \in DOMAIN Tail(s) : k + 1 \in DOMAIN s /\ Tail(s)[k] = s[k + 1] BY TailFacts
<1>2. 1 \in DOMAIN s /\ Head(s) = s[1] /\ \A k \in DOMAIN Tail(s) : k \in Nat /\ 1 < k + 1
  BY TailFacts
<1>4. ASSUME NEW k \in DOMAIN Tail(s), Tail(s)[k].do = "put"
      PROVE  WillPut(s) /\ Head(s).do # "put"
  <2>1. k + 1 \in DOMAIN s /\ s[k + 1].do = "put" /\ 1 < k + 1 BY <1>1, <1>2, <1>4
  <2> QED BY <1>2, <2>1 DEF WillPut, WritesLast
<1> QED BY <1>4, AppendTail DEF WillPut

\* The task of p is done, which neither lists nor merges.
LEMMA DoneTasks ==
  ASSUME Base, UploadInv, NEW p \in Procs, proc[p].todo # <<>>, Done(p),
         proc[p].parts = {}, suite' = suite, ops' = ops, Task(p).do \notin {"chunks", "merge"},
         disk'[Merged(proc[p].op)] = disk[Merged(proc[p].op)],
         WillPut(proc[p].todo) /\ Task(p).do # "put" => Unused(proc[p].op)'
  PROVE  CopyInv(p)' /\ PutInv(p)' /\ MergeInv(p)'
<1> DEFINE s == proc[p].todo
<1>1. /\ proc'[p].todo = Tail(s) /\ proc'[p].at = "next" /\ proc'[p].op = proc[p].op
  BY DoneFacts
<1>2. s \in Seq(AllTasks) /\ WritesLast(s) /\ MergeOnce(s) /\ RemoveMerged(s) /\ s # <<>>
      /\ Head(s) = Task(p)
  BY ProcFacts DEF UploadInv, PutInv, MergeInv, Task
<1>3. CopyInv(p)' BY <1>1 DEF CopyInv
<1> HIDE DEF s
<1>4. PutInv(p)'
  <2>1. WritesLast(Tail(s)) BY <1>2, PutTail
  <2>2. WritesLast(proc[p].todo)' BY <1>1, <2>1 DEF WritesLast
  <2>3. WillPut(Tail(s)) => WillPut(s) /\ Task(p).do # "put" BY <1>2, PutTail
  <2>4. WillPut(proc[p].todo)' => WillPut(Tail(s)) BY <1>1 DEF WillPut
  <2>5. WillPut(proc[p].todo)' => Unused(proc[p].op)' BY <2>3, <2>4 DEF s
  <2> QED BY <1>1, <2>2, <2>5 DEF PutInv
<1>5. MergeInv(p)'
  <2>1. MergeOnce(Tail(s)) /\ RemoveMerged(Tail(s)) BY <1>2, MergeTail
  <2>2. \A k \in DOMAIN Tail(s) : k + 1 \in DOMAIN s /\ Tail(s)[k] = s[k + 1] /\ Tail(s)[k].do # "merge"
    BY <1>2, MergeTail
  <2>3. Tail(s) # <<>> => Head(Tail(s)).do # "remove" BY <1>2, MergeTail
  <2>4. Task(p)' = Head(Tail(s)) BY <1>1 DEF Task
  <2>5. Tail(s) # <<>> => Head(Tail(s)).do # "merge"
    <3>1. Tail(s) \in Seq(AllTasks) BY <1>2, TailFacts
    <3>2. Tail(s) # <<>> => 1 \in DOMAIN Tail(s) /\ Head(Tail(s)) = Tail(s)[1] BY <3>1
    <3> QED BY <2>2, <3>2
  <2>6. \A k \in DOMAIN s : s[k].do \in {"merge", "chunks"} => disk[Merged(proc[p].op)] = Missing
    BY DEF UploadInv, MergeInv, s
  <2>7. (\A k \in DOMAIN proc[p].todo :
          proc[p].todo[k].do \in {"merge", "chunks"} => disk[Merged(proc[p].op)] = Missing)'
    BY <1>1, <2>2, <2>6
  <2>8. (MergeOnce(proc[p].todo) /\ RemoveMerged(proc[p].todo))'
    BY <1>1, <2>1 DEF MergeOnce, RemoveMerged
  <2> QED BY <1>1, <2>3, <2>4, <2>5, <2>7, <2>8 DEF MergeInv
<1> QED BY <1>3, <1>4, <1>5

LEMMA IdleUploads ==
  ASSUME NEW p \in Procs, proc'[p] = Idle
  PROVE  CopyInv(p)' /\ PutInv(p)' /\ MergeInv(p)'
<1>1. proc'[p].at = "idle" /\ proc'[p].todo = <<>> /\ DOMAIN proc'[p].todo = {}
  BY IdleFacts
<1>2. CopyInv(p)' BY <1>1 DEF CopyInv
<1>3. PutInv(p)' BY <1>1 DEF PutInv, WillPut, WritesLast
<1>4. MergeInv(p)' BY <1>1 DEF MergeInv, MergeOnce, RemoveMerged
<1> QED BY <1>2, <1>3, <1>4

LEMMA UploadFails ==
  ASSUME Base, UploadInv, NEW p \in Procs, Fails(p) \/ Finish(p),
         UNCHANGED <<disk, ops, chunks, suite>>
  PROVE  UploadInv'
<1>1. proc'[p] = Idle /\ \A r \in Procs : r # p => proc'[r] = proc[r]
  <2>1. CASE Fails(p) BY <2>1, FailsFacts
  <2>2. CASE Finish(p) BY <2>2, IdleFacts, FieldFacts DEF Finish
  <2> QED BY <2>1, <2>2
<1>2. SameUploads BY DEF SameUploads
<1>3. ops' \in Nat /\ ops <= ops' BY FilesAssumption DEF Base, TypeInv
<1> QED BY <1>1, <1>2, <1>3, IdleUploads, UploadSame

LEMMA UploadFailures ==
  ASSUME Base, UploadInv, NEW p \in Procs,
         Finish(p) \/ WriteTempFails(p) \/ OpenFails(p) \/ WriteInPlaceFails(p) \/ RemoveFails(p)
  PROVE  UploadInv'
<1>1. Fails(p) \/ Finish(p)
  BY DEF WriteTempFails, OpenFails, WriteInPlaceFails, RemoveFails
<1>2. UNCHANGED <<disk, ops, chunks, suite>>
  BY DEF WriteTempFails, OpenFails, WriteInPlaceFails, RemoveFails, Finish, fs, ghosts
<1> QED BY <1>1, <1>2, UploadFails

LEMMA UploadCrash ==
  ASSUME Base, UploadInv, Crash
  PROVE  UploadInv'
<1>1. \A p \in Procs : proc'[p] = Idle BY DEF Crash
<1>2. SameUploads BY DEF Crash, SameUploads
<1>3. ops' \in Nat /\ ops <= ops' BY FilesAssumption DEF Crash, Base, TypeInv
<1>4. StoreInv' BY <1>2, <1>3, SameStore DEF UploadInv, StoreInv
<1> QED BY <1>1, <1>4, IdleUploads DEF UploadInv, StoreInv

LEMMA UploadRests ==
  ASSUME Base, UploadInv, ReadStream \/ UNCHANGED vars
  PROVE  UploadInv'
<1>1. disk' = disk /\ proc' = proc /\ ops' = ops /\ chunks' = chunks
  BY DEF ReadStream, vars, fs, ghosts
<1>2. SameUploads BY <1>1 DEF SameUploads
<1>3. ops' \in Nat /\ ops <= ops' BY <1>1, FilesAssumption DEF Base, TypeInv
<1>4. StoreInv' BY <1>2, <1>3, SameStore DEF UploadInv, StoreInv
<1>5. \A r \in Procs : CopyInv(r)' /\ PutInv(r)' /\ MergeInv(r)'
  BY <1>1, <1>2, UploadOther DEF UploadInv
<1> QED BY <1>4, <1>5 DEF UploadInv, StoreInv

LEMMA UploadBegin ==
  ASSUME Base, UploadInv, NEW p \in Procs, Operation(p)
  PROVE  UploadInv'
<1>1. PICK name, tasks : Begin(p, name, tasks) /\ Plan(tasks) BY OperationPlan
<1>2. /\ \A r \in Procs : r # p => proc'[r] = proc[r]
      /\ proc'[p].at = "next" /\ proc'[p].todo = tasks /\ proc'[p].op = ops + 1
  BY <1>1, BeginFacts
<1>3. ops' = ops + 1 /\ ops + 1 \in 1..MaxOps /\ disk' = disk /\ chunks' = chunks
  BY <1>1, BeginFacts
<1>4. SameUploads BY <1>3 DEF SameUploads
<1>5. ops \in Nat /\ ops' \in Nat /\ ops <= ops' /\ ops + 1 > ops
  BY <1>3, FilesAssumption DEF Base, TypeInv
<1>6. disk[Merged(ops + 1)] = Missing /\ Unused(ops + 1) BY <1>3, <1>5 DEF UploadInv
<1>7. disk'[Merged(ops + 1)] = Missing BY <1>3, <1>6
<1>13. Unused(proc'[p].op)
  BY <1>2, <1>6
<1>14. Unused(proc[p].op)' BY <1>4, <1>13, SameUploadFacts
<1>8. WritesLast(tasks) /\ MergeOnce(tasks) /\ RemoveMerged(tasks) /\ tasks # <<>>
      /\ tasks \in Seq(Tasks(ops + 1)) /\ tasks[1].do = "lock"
  BY <1>1 DEF Plan
<1>9. Task(p)'.do = "lock" BY <1>2, <1>8 DEF Task
<1>10. CopyInv(p)' BY <1>2 DEF CopyInv
<1>11. PutInv(p)' BY <1>2, <1>8, <1>14 DEF PutInv, WritesLast
<1>12. MergeInv(p)' BY <1>2, <1>7, <1>8, <1>9 DEF MergeInv, MergeOnce, RemoveMerged
<1> QED BY <1>2, <1>4, <1>5, <1>10, <1>11, <1>12, UploadSame

LEMMA UploadPasses ==
  ASSUME Base, UploadInv, NEW p \in Procs, proc[p].todo # <<>>, Done(p), proc[p].parts = {},
         UNCHANGED <<disk, ops, chunks, suite>>, Task(p).do \notin {"chunks", "merge"}
  PROVE  UploadInv'
<1>1. \A r \in Procs : r # p => proc'[r] = proc[r] BY DoneFacts
<1>2. SameUploads BY DEF SameUploads
<1>3. ops' \in Nat /\ ops <= ops' BY FilesAssumption DEF Base, TypeInv
<1>4. WillPut(proc[p].todo) => Unused(proc[p].op)'
  <2>1. proc'[p].op = proc[p].op BY DoneFacts
  <2> QED BY <1>2, <2>1, SameUploadFacts DEF UploadInv, PutInv
<1>5. CopyInv(p)' /\ PutInv(p)' /\ MergeInv(p)' BY <1>4, DoneTasks
<1> QED BY <1>1, <1>2, <1>3, <1>5, UploadSame

LEMMA UploadDone ==
  ASSUME Base, UploadInv, NEW p \in Procs,
         TakeLock(p) \/ ReleaseLock(p) \/ WroteInPlace(p) \/ ReadLocked(p) \/ RemoveDone(p)
  PROVE  UploadInv'
<1>1. proc[p].todo # <<>> /\ Task(p).do \notin {"chunks", "merge"}
  BY WritingTask DEF TakeLock, ReleaseLock, WroteInPlace, ReadLocked, RemoveDone, Doing
<1>2. proc[p].parts = {}
  BY WritingTask DEF TakeLock, ReleaseLock, WroteInPlace, ReadLocked, RemoveDone, Doing
<1>3. Done(p) /\ UNCHANGED <<disk, ops, chunks, suite>>
  BY DEF TakeLock, ReleaseLock, WroteInPlace, ReadLocked, RemoveDone, fs, ghosts
<1> QED BY <1>1, <1>2, <1>3, UploadPasses

\* The task of p goes on.
LEMMA UploadMoves ==
  ASSUME Base, UploadInv, NEW p \in Procs, SameUploads, ops' = ops, proc[p].todo # <<>>,
         \A r \in Procs : r # p => proc'[r] = proc[r],
         proc'[p].todo = proc[p].todo, proc'[p].op = proc[p].op, CopyInv(p)',
         proc'[p].at \in {"writing", "closed"} /\ Task(p).do = "put" =>
           proc'[p].tmp \o proc'[p].src = Task(p).src /\ (proc'[p].at = "closed" => proc'[p].src = <<>>)
  PROVE  UploadInv'
<1>1. Task(p)' = Task(p) /\ Copied(p)' = proc'[p].tmp \o proc'[p].src BY DEF Task, Copied
<1>2. ops' \in Nat /\ ops <= ops' BY FilesAssumption DEF Base, TypeInv
<1>3. Present' = Present /\ \A n : Unused(n)' <=> Unused(n) BY SameUploadFacts
<1>4. \A i \in Present : i \in Indexes /\ disk'[Chunk(i)] = disk[Chunk(i)] BY DEF Present, SameUploads
<1>5. disk'[Merged(proc[p].op)] = disk[Merged(proc[p].op)] BY TaskOf DEF SameUploads
<1>6. PutInv(p)'
  <2>1. WillPut(proc[p].todo) => Unused(proc[p].op)' BY <1>3 DEF UploadInv, PutInv
  <2>2. WritesLast(proc[p].todo)' BY DEF UploadInv, PutInv, WritesLast
  <2> QED BY <1>1, <2>1, <2>2 DEF PutInv, WillPut
<1>7. MergeInv(p)'
  <2>1. Task(p).do = "merge" => Task(p).parts = Present BY DEF UploadInv, MergeInv
  <2>2. \A k \in DOMAIN proc[p].todo :
          proc[p].todo[k].do \in {"merge", "chunks"} => disk'[Merged(proc[p].op)] = Missing
    BY <1>5 DEF UploadInv, MergeInv
  <2>3. (MergeOnce(proc[p].todo) /\ RemoveMerged(proc[p].todo))'
    BY DEF UploadInv, MergeInv, MergeOnce, RemoveMerged
  <2>4. Task(p).do = "remove" =>
          \A i \in Present : Holds(disk'[Merged(proc[p].op)], disk'[Chunk(i)])
    BY <1>4, <1>5 DEF UploadInv, MergeInv
  <2> QED BY <1>1, <1>3, <2>1, <2>2, <2>3, <2>4 DEF MergeInv
<1> QED BY <1>2, <1>6, <1>7, UploadSame

LEMMA UploadInPlace ==
  ASSUME Base, UploadInv, NEW p \in Procs, OpenInPlace(p) \/ WriteInPlace(p)
  PROVE  UploadInv'
<1>1. /\ proc[p].todo # <<>> /\ Task(p).do \in {"append", "extract"}
      /\ \A r \in Procs : r # p => proc'[r] = proc[r]
      /\ proc'[p].todo = proc[p].todo /\ proc'[p].op = proc[p].op /\ proc'[p].at = "inPlace"
  BY OpenInPlaceFacts, WriteInPlaceFacts
<1>2. \E c : disk' = [disk EXCEPT ![Task(p).path] = c]
  <2>1. CASE OpenInPlace(p)
    <3>1. disk' = [disk EXCEPT ![Task(p).path] =
                     IF Task(p).do = "append" /\ disk[Task(p).path] # Missing
                     THEN disk[Task(p).path] ELSE <<>>]
      BY <2>1 DEF OpenInPlace
    <3> QED BY <3>1
  <2>2. CASE WriteInPlace(p)
    <3>1. disk' = [disk EXCEPT ![Task(p).path] = Append(disk[Task(p).path], Head(proc[p].src))]
      BY <2>2 DEF WriteInPlace
    <3> QED BY <3>1
  <2> QED BY <2>1, <2>2
<1>3. chunks' = chunks /\ ops' = ops BY DEF OpenInPlace, WriteInPlace, ghosts
<1>4. SameUploads BY <1>1, <1>2, <1>3, InPlaceFacts DEF SameUploads
<1>5. CopyInv(p)' BY <1>1 DEF CopyInv
<1> QED BY <1>1, <1>3, <1>4, <1>5, UploadMoves

LEMMA UploadWriteTemp ==
  ASSUME Base, UploadInv, NEW p \in Procs, WriteTemp(p)
  PROVE  UploadInv'
<1>1. /\ proc[p].todo # <<>> /\ Task(p)' = Task(p) /\ proc[p].at = "writing"
      /\ \A r \in Procs : r # p => proc'[r] = proc[r]
      /\ proc'[p].todo = proc[p].todo /\ proc'[p].op = proc[p].op /\ proc'[p].at = "writing"
      /\ proc'[p].parts = proc[p].parts
      /\ Task(p).do # "copy" => proc'[p].tmp \o proc'[p].src = proc[p].tmp \o proc[p].src
  BY WriteTempFacts
<1>2. ops' = ops /\ disk' = disk /\ chunks' = chunks BY DEF WriteTemp, fs, ghosts
<1>3. SameUploads BY <1>2 DEF SameUploads
<1>4. Present' = Present BY <1>3, SameUploadFacts
<1>5. Task(p).do # "copy" => Copied(p)' = Copied(p) BY <1>1 DEF Copied
<1>6. CopyInv(p)' BY <1>1, <1>2, <1>4, <1>5 DEF CopyInv, UploadInv
<1>7. Task(p).do = "put" => proc'[p].tmp \o proc'[p].src = Task(p).src
  BY <1>1 DEF PutInv, UploadInv, Copied
<1> QED BY <1>1, <1>2, <1>3, <1>6, <1>7, UploadMoves

LEMMA UploadCloseTemp ==
  ASSUME Base, UploadInv, NEW p \in Procs, CloseTemp(p)
  PROVE  UploadInv'
<1>1. /\ proc[p].todo # <<>> /\ Task(p)' = Task(p) /\ proc[p].at = "writing"
      /\ Left(p) = <<>> /\ proc[p].parts = {}
      /\ \A r \in Procs : r # p => proc'[r] = proc[r]
      /\ proc'[p].todo = proc[p].todo /\ proc'[p].op = proc[p].op /\ proc'[p].at = "closed"
      /\ proc'[p].parts = proc[p].parts /\ proc'[p].tmp = proc[p].tmp /\ proc'[p].src = proc[p].src
  BY CloseTempFacts
<1>2. ops' = ops /\ disk' = disk /\ chunks' = chunks BY DEF CloseTemp, fs, ghosts
<1>3. SameUploads BY <1>2 DEF SameUploads
<1>4. Present' = Present BY <1>3, SameUploadFacts
<1>5. Copied(p)' = Copied(p) BY <1>1 DEF Copied
<1>6. Task(p).do # "copy" => proc[p].src = <<>> BY <1>1, LeftFacts
<1>7. CopyInv(p)' BY <1>1, <1>2, <1>4, <1>5, <1>6 DEF CopyInv, UploadInv
<1>8. Task(p).do = "put" => proc'[p].tmp \o proc'[p].src = Task(p).src /\ proc'[p].src = <<>>
  BY <1>1, <1>6 DEF PutInv, UploadInv, Copied
<1> QED BY <1>1, <1>2, <1>3, <1>7, <1>8, UploadMoves

LEMMA UploadCreateTemp ==
  ASSUME Base, UploadInv, NEW p \in Procs, CreateTemp(p)
  PROVE  UploadInv'
<1>1. /\ proc[p].todo # <<>> /\ Task(p)' = Task(p)
      /\ \A r \in Procs : r # p => proc'[r] = proc[r]
      /\ proc'[p].todo = proc[p].todo /\ proc'[p].op = proc[p].op /\ proc'[p].at = "writing"
      /\ proc'[p].tmp = <<>>
      /\ Task(p).do = "put" => proc'[p].src = Task(p).src /\ Task(p).src \in Content
      /\ Task(p).do # "put" => proc'[p].src = <<>>
      /\ Task(p).do = "merge" => proc'[p].parts = Task(p).parts
  BY CreateTempFacts
<1>2. ops' = ops /\ disk' = disk /\ chunks' = chunks BY DEF CreateTemp, fs, ghosts
<1>3. SameUploads BY <1>2 DEF SameUploads
<1>4. Present' = Present BY <1>3, SameUploadFacts
<1>5. Task(p).do = "merge" => Task(p).parts = Present BY <1>1 DEF MergeInv, UploadInv
<1>6. Task(p).do = "merge" => DOMAIN Copied(p)' = {}
  <2>1. <<>> \o <<>> = <<>> BY EmptyFacts
  <2> QED BY <1>1, <2>1 DEF Copied
<1>7. CopyInv(p)'
  <2>1. ASSUME Task(p).do = "merge" PROVE Present' \ proc'[p].parts = {}
    BY <1>1, <1>4, <1>5, <2>1
  <2> QED BY <1>1, <1>4, <1>5, <1>6, <2>1 DEF CopyInv
<1>8. Task(p).do = "put" => proc'[p].tmp \o proc'[p].src = Task(p).src
  BY <1>1, EmptyFacts
<1> QED BY <1>1, <1>2, <1>3, <1>7, <1>8, UploadMoves

LEMMA InOrderMore ==
  ASSUME NEW a \in Content, NEW b \in Content, NEW c \in Content, NEW d \in Content,
         InOrder(a, c, d)
  PROVE  InOrder(a \o b, c, d)
<1>1. PICK k \in 0..Len(a), l \in 0..Len(a) :
        k + Len(c) <= l /\ HoldsAt(a, c, k) /\ HoldsAt(a, d, l)
  BY DEF InOrder
<1>2. Len(a) \in Nat /\ Len(b) \in Nat BY DEF Content
<1>3. Len(a \o b) = Len(a) + Len(b) BY DEF Content
<1>4. k \in 0..Len(a \o b) /\ l \in 0..Len(a \o b) BY <1>1, <1>2, <1>3
<1>5. HoldsAt(a \o b, c, k) BY <1>1, HoldsAtMore
<1>6. HoldsAt(a \o b, d, l) BY <1>1, HoldsAtMore
<1> QED BY <1>1, <1>4, <1>5, <1>6 DEF InOrder

LEMMA InOrderAdded ==
  ASSUME NEW a \in Content, NEW c \in Content, NEW d \in Content, Holds(a, c)
  PROVE  InOrder(a \o d, c, d)
<1>1. PICK k \in 0..Len(a) : HoldsAt(a, c, k) BY DEF Holds
<1>2. Len(a) \in Nat /\ Len(d) \in Nat /\ Len(c) \in Nat BY DEF Content
<1>3. Len(a \o d) = Len(a) + Len(d) BY DEF Content
<1>4. k \in 0..Len(a \o d) /\ k \in Nat BY <1>1, <1>2, <1>3
<1>5. HoldsAt(a \o d, c, k) BY <1>1, <1>4, HoldsAtMore
<1>6. HoldsAt(a \o d, d, Len(a)) /\ Len(a) \in 0..Len(a \o d) BY HoldsAdded
<1>7. k + Len(c) <= Len(a) BY <1>1 DEF HoldsAt
<1> QED BY <1>4, <1>5, <1>6, <1>7 DEF InOrder

LEMMA PresentFacts ==
  ASSUME Base, UploadInv, NEW i \in Present
  PROVE  /\ i \in Indexes /\ i \in Nat /\ Chunk(i) \in Paths /\ disk[Chunk(i)] \in Content
         /\ disk[Chunk(i)] = chunks[i] /\ chunks[i] # Missing /\ Made(disk[Chunk(i)])
         /\ \A k \in 1..Len(disk[Chunk(i)]) : disk[Chunk(i)][k][1] = disk[Chunk(i)][1][1]
<1>1. i \in Indexes /\ i \in Nat /\ disk[Chunk(i)] # Missing BY FilesAssumption DEF Present
<1>2. Chunk(i) \in Paths /\ disk[Chunk(i)] \in Content BY <1>1, PathsThere, LogContent
<1>3. disk[Chunk(i)] = chunks[i] /\ Made(disk[Chunk(i)]) BY <1>1 DEF UploadInv
<1>4. DOMAIN disk[Chunk(i)] = 1..Len(disk[Chunk(i)]) BY <1>2 DEF Content
<1> QED BY <1>1, <1>2, <1>3, <1>4 DEF Made

LEMMA UploadOpenChunk ==
  ASSUME Base, UploadInv, NEW p \in Procs, OpenChunk(p)
  PROVE  UploadInv'
<1> DEFINE i == NextChunk(proc[p].parts)
           a == proc[p].tmp
           c == disk[Chunk(i)]
           s == Copied(p)'
           had == Present \ proc[p].parts
           has == Present' \ proc'[p].parts
<1>1. /\ proc[p].todo # <<>> /\ Task(p).do = "merge" /\ Task(p)' = Task(p)
      /\ proc[p].at = "writing" /\ proc[p].src = <<>> /\ proc[p].parts # {}
      /\ i \in Indexes /\ i \in proc[p].parts
      /\ \A r \in Procs : r # p => proc'[r] = proc[r]
      /\ proc'[p].todo = proc[p].todo /\ proc'[p].op = proc[p].op /\ proc'[p].at = "writing"
      /\ proc'[p].parts = proc[p].parts \ {i} /\ proc'[p].tmp = proc[p].tmp
      /\ proc'[p].src = disk[Chunk(i)] /\ disk[Chunk(i)] \in Content
  BY OpenChunkFacts
<1>2. ops' = ops /\ disk' = disk /\ chunks' = chunks BY DEF OpenChunk, fs, ghosts
<1>3. SameUploads BY <1>2 DEF SameUploads
<1>4. Present' = Present BY <1>3, SameUploadFacts
<1>5. a \in Content /\ proc[p].parts \subseteq Indexes BY ProcFacts
<1>6. CopyInv(p) BY DEF UploadInv
<1>7. i \in Present /\ proc[p].parts \subseteq Present BY <1>1, <1>6 DEF CopyInv
<1>8. \A j \in proc[p].parts : i <= j BY <1>1, <1>5, NextChunkFacts
<1>9. has = had \cup {i} BY <1>1, <1>4, <1>7
<1>10. Copied(p) = a BY <1>1, <1>5, EmptyFacts DEF Copied
<1>11. s = a \o c BY <1>1 DEF Copied
<1>12. c \in Content BY <1>1
<1> HIDE DEF s, a, c, i
<1>13. \A x \in had : /\ x \in Present /\ x \in Nat /\ disk[Chunk(x)] \in Content
                      /\ Holds(a, disk[Chunk(x)])
                      /\ \A j \in proc[p].parts : x < j
                      /\ \A y \in had : x < y => InOrder(a, disk[Chunk(x)], disk[Chunk(y)])
  BY <1>1, <1>6, <1>10, PresentFacts DEF CopyInv
<1>14. i \in Nat /\ \A x \in Indexes : x \in Nat BY <1>1, FilesAssumption
<1>15. \A x \in has : Holds(s, disk[Chunk(x)])
  <2>1. ASSUME NEW x \in had PROVE Holds(s, disk[Chunk(x)])
    BY <1>5, <1>11, <1>12, <1>13, HoldsMore
  <2>2. Holds(s, c) BY <1>5, <1>11, <1>12, HoldsAdded
  <2> QED BY <1>9, <2>1, <2>2 DEF c
<1>16. \A x \in has : \A j \in proc'[p].parts : x < j
  <2>1. ASSUME NEW j \in proc'[p].parts PROVE i < j
    <3>1. j \in proc[p].parts /\ j # i BY <1>1, <2>1
    <3>2. j \in Nat BY <1>5, <1>14, <3>1
    <3> QED BY <1>8, <1>14, <3>1, <3>2
  <2>2. ASSUME NEW x \in had, NEW j \in proc'[p].parts PROVE x < j BY <1>1, <1>13
  <2> QED BY <1>9, <2>1, <2>2
<1>17. \A x \in has : \A y \in has : x < y => InOrder(s, disk[Chunk(x)], disk[Chunk(y)])
  <2>1. ASSUME NEW x \in had, NEW y \in had, x < y
        PROVE  InOrder(s, disk[Chunk(x)], disk[Chunk(y)])
    BY <1>5, <1>11, <1>12, <1>13, <2>1, InOrderMore
  <2>2. ASSUME NEW x \in had PROVE InOrder(s, disk[Chunk(x)], c)
    BY <1>5, <1>11, <1>12, <1>13, InOrderAdded
  <2>3. ASSUME NEW y \in had, i < y PROVE FALSE
    <3>1. y < i /\ y \in Nat BY <1>1, <1>13
    <3> QED BY <1>14, <2>3, <3>1
  <2>4. ~(i < i) BY <1>14
  <2> QED BY <1>9, <2>1, <2>2, <2>3, <2>4 DEF c
<1>18. \A k \in DOMAIN s : \E x \in has : s[k][1] = disk[Chunk(x)][1][1]
  <2>1. s \in Content BY <1>5, <1>11, <1>12, ConcatFacts
  <2>2. DOMAIN s = 1..Len(s) /\ DOMAIN a = 1..Len(a) BY <1>5, <2>1 DEF Content
  <2>3. \A k \in 1..Len(a) : s[k] = a[k] BY <1>5, <1>11, <1>12, ConcatFacts
  <2>4. \A k \in 1..Len(c) : s[Len(a) + k] = c[k] BY <1>5, <1>11, <1>12, ConcatFacts
  <2>5. \A k \in 1..Len(s) : k <= Len(a) \/ k - Len(a) \in 1..Len(c)
    BY <1>5, <1>11, <1>12, ConcatFacts
  <2>6. Len(a) \in Nat BY <1>5 DEF Content
  <2>7. ASSUME NEW k \in DOMAIN s PROVE \E x \in has : s[k][1] = disk[Chunk(x)][1][1]
    <3>1. CASE k <= Len(a)
      <4>1. k \in DOMAIN a /\ s[k] = a[k] BY <2>2, <2>3, <2>6, <3>1
      <4>2. \E x \in had : a[k][1] = disk[Chunk(x)][1][1] BY <1>1, <1>6, <1>10, <4>1 DEF CopyInv
      <4> QED BY <1>9, <4>1, <4>2
    <3>2. CASE k - Len(a) \in 1..Len(c)
      <4>1. k = Len(a) + (k - Len(a)) BY <2>2, <2>6
      <4>2. s[k] = c[k - Len(a)] BY <2>4, <3>2, <4>1
      <4>3. c[k - Len(a)][1] = c[1][1] BY <1>7, <3>2, PresentFacts DEF c
      <4> QED BY <1>9, <4>2, <4>3 DEF c
    <3> QED BY <2>2, <2>5, <3>1, <3>2
  <2> QED BY <2>7
<1>19. CopyInv(p)'
  <2>1. (proc[p].parts \subseteq Present)' BY <1>1, <1>4, <1>7
  <2>2. (\A x \in Present \ proc[p].parts :
           /\ Holds(Copied(p), disk[Chunk(x)])
           /\ \A j \in proc[p].parts : x < j
           /\ \A y \in Present \ proc[p].parts :
                x < y => InOrder(Copied(p), disk[Chunk(x)], disk[Chunk(y)]))'
    BY <1>2, <1>15, <1>16, <1>17 DEF s
  <2>3. (\A k \in DOMAIN Copied(p) : \E x \in Present \ proc[p].parts :
           Copied(p)[k][1] = disk[Chunk(x)][1][1])'
    BY <1>2, <1>18 DEF s
  <2> QED BY <1>1, <2>1, <2>2, <2>3 DEF CopyInv
<1> QED BY <1>1, <1>2, <1>3, <1>19, UploadMoves

LEMMA UploadListChunks ==
  ASSUME Base, UploadInv, NEW p \in Procs, ListChunks(p)
  PROVE  UploadInv'
<1>1. /\ proc[p].todo # <<>> /\ Task(p).do = "chunks" /\ proc[p].at = "next"
      /\ UNCHANGED <<disk, litter, ops, seen, ranges, torn, chunks, suite>>
      /\ \/ Fails(p)
         \/ /\ \A r \in Procs : r # p => proc'[r] = proc[r]
            /\ proc'[p].at = "next" /\ proc'[p].op = proc[p].op
            /\ \/ proc'[p].todo = Tail(proc[p].todo) /\ Task(p).path = <<>>
               \/ /\ proc'[p].todo = <<Merge(Merged(proc[p].op), Present)>> \o Tail(proc[p].todo)
                  /\ Merge(Merged(proc[p].op), Present) \in AllTasks
                  /\ Task(p).path = Merged(proc[p].op)
  BY ListChunksFacts
<1>2. CASE Fails(p) BY <1>1, <1>2, UploadFails
<1>3. CASE /\ \A r \in Procs : r # p => proc'[r] = proc[r]
           /\ proc'[p].at = "next" /\ proc'[p].op = proc[p].op
           /\ \/ proc'[p].todo = Tail(proc[p].todo) /\ Task(p).path = <<>>
              \/ /\ proc'[p].todo = <<Merge(Merged(proc[p].op), Present)>> \o Tail(proc[p].todo)
                 /\ Merge(Merged(proc[p].op), Present) \in AllTasks
                 /\ Task(p).path = Merged(proc[p].op)
  <2> DEFINE s == proc[p].todo
             u == proc'[p].todo
             m == Merge(Merged(proc[p].op), Present)
  <2>1. SameUploads BY <1>1 DEF SameUploads
  <2>2. Present' = Present /\ \A n : Unused(n)' <=> Unused(n) BY <2>1, SameUploadFacts
  <2>3. s \in Seq(AllTasks) /\ WritesLast(s) /\ MergeOnce(s) /\ RemoveMerged(s) /\ s # <<>>
        /\ Head(s) = Task(p)
    BY <1>1, ProcFacts DEF UploadInv, PutInv, MergeInv, Task
  <2>4. disk[Merged(proc[p].op)] = Missing BY <1>1, TaskOf DEF UploadInv, MergeInv
  <2>5. WillPut(s) => Unused(proc[p].op) BY DEF UploadInv, PutInv
  <2>6. m.do = "merge" /\ m.parts = Present BY DEF Merge
  <2>7. (u = Tail(s) /\ Task(p).path = <<>>) \/ (u = <<m>> \o Tail(s) /\ m \in AllTasks)
    BY <1>3
  <2>8. Task(p)' = Head(u) BY DEF Task
  <2>9. proc'[p].op = proc[p].op /\ proc'[p].at = "next" BY <1>3
  <2> HIDE DEF s, u, m
  <2>10. /\ Tail(s) \in Seq(AllTasks) /\ WritesLast(Tail(s))
         /\ WillPut(Tail(s)) => WillPut(s)
    BY <2>3, TailFacts, PutTail
  <2>11. /\ MergeOnce(Tail(s)) /\ RemoveMerged(Tail(s))
         /\ \A k \in DOMAIN Tail(s) : Tail(s)[k].do \notin {"merge", "chunks"}
    BY <1>1, <2>3, MergeTail
  <2>12. DOMAIN Tail(s) = 1..Len(Tail(s)) /\ Len(Tail(s)) \in Nat BY <2>10
  <2>13. /\ u # <<>> => /\ Head(u).do = "merge" => Head(u).parts = Present
                        /\ Head(u).do # "remove"
         /\ WritesLast(u) /\ MergeOnce(u) /\ RemoveMerged(u)
         /\ WillPut(u) => WillPut(s)
    <3>1. CASE u = Tail(s) /\ Task(p).path = <<>>
      <4>1. u # <<>> => 1 \in DOMAIN Tail(s) /\ Head(u) = Tail(s)[1] BY <2>10, <2>12, <3>1
      <4>2. u # <<>> => Head(u).do # "merge" BY <2>11, <4>1
      <4>3. u # <<>> => Head(u).do # "remove" BY <1>1, <2>3, <3>1, MergeTail
      <4> QED BY <2>10, <2>11, <3>1, <4>2, <4>3
    <3>2. CASE u = <<m>> \o Tail(s) /\ m \in AllTasks
      <4> DEFINE t == Tail(s)
      <4>1. t \in Seq(AllTasks) /\ WritesLast(t) /\ RemoveMerged(t) /\ (WillPut(t) => WillPut(s))
            /\ \A k \in DOMAIN t : t[k].do \notin {"merge", "chunks"}
        BY <2>10, <2>11
      <4>3. u = <<m>> \o t BY <3>2
      <4>4. DOMAIN t = 1..Len(t) /\ Len(t) \in Nat BY <2>12
      <4> HIDE DEF t
      <4>5. u \in Seq(AllTasks) BY <3>2, <4>1, <4>3, ConsFacts
      <4>6. DOMAIN u = 1..(Len(t) + 1) BY <3>2, <4>1, <4>3, ConsFacts
      <4>7. u[1] = m BY <3>2, <4>1, <4>3, ConsFacts
      <4>8. \A k \in DOMAIN u : (k = 1 /\ u[k] = m) \/ (k - 1 \in 1..Len(t) /\ u[k] = t[k - 1])
        BY <3>2, <4>1, <4>3, ConsFacts
      <4>9. Head(u) = m BY <4>5, <4>6, <4>7
      <4>10. \A k \in DOMAIN u : k # 1 => k - 1 \in DOMAIN t /\ u[k] = t[k - 1] BY <4>4, <4>8
      <4>11. WritesLast(u)
        <5>1. ASSUME NEW k \in DOMAIN u, NEW l \in DOMAIN u, k < l, u[k].do \in {"append", "put"}
              PROVE  u[l].do = "unlock"
          <6>1. k # 1 BY <2>6, <4>7, <5>1
          <6>2. l # 1 /\ k - 1 < l - 1 BY <4>6, <5>1
          <6> QED BY <4>1, <4>10, <5>1, <6>1, <6>2 DEF WritesLast
        <5> QED BY <5>1 DEF WritesLast
      <4>12. \A k \in DOMAIN u : k # 1 => u[k].do \notin {"merge", "chunks"} BY <4>1, <4>10
      <4>13. MergeOnce(u)
        <5>1. \A k, l \in DOMAIN u : k < l => l # 1 BY <4>6
        <5> QED BY <4>12, <5>1 DEF MergeOnce
      <4>14. RemoveMerged(u)
        <5>1. ASSUME NEW k \in DOMAIN u, k # 1, u[k].do = "remove"
              PROVE  u[k - 1].do = "merge" \/ (u[k - 1].do = "chunks" /\ u[k - 1].path # <<>>)
          <6>1. k - 1 \in DOMAIN t /\ t[k - 1].do = "remove" BY <4>10, <5>1
          <6>2. CASE k - 1 = 1 BY <2>6, <4>7, <6>2
          <6>3. CASE k - 1 # 1
            <7>1. \/ t[k - 1 - 1].do = "merge"
                  \/ t[k - 1 - 1].do = "chunks" /\ t[k - 1 - 1].path # <<>>
              BY <4>1, <6>1, <6>3 DEF RemoveMerged
            <7>2. k - 1 - 1 \in DOMAIN t BY <4>4, <4>6, <5>1, <6>1, <6>3
            <7> QED BY <4>1, <7>1, <7>2
          <6> QED BY <6>2, <6>3
        <5> QED BY <5>1 DEF RemoveMerged
      <4>15. WillPut(u) => WillPut(t)
        <5>1. \A k \in DOMAIN u : u[k].do = "put" => k # 1 BY <2>6, <4>7
        <5> QED BY <4>10, <5>1 DEF WillPut
      <4> QED BY <2>6, <4>1, <4>9, <4>11, <4>13, <4>14, <4>15
    <3> QED BY <2>7, <3>1, <3>2
  <2>14. CopyInv(p)' BY <2>9 DEF CopyInv
  <2>15. PutInv(p)'
    <3>1. WillPut(u) => Unused(proc[p].op)' BY <2>2, <2>5, <2>9, <2>13
    <3>2. WillPut(proc[p].todo)' <=> WillPut(u) BY DEF WillPut, u
    <3>3. WritesLast(proc[p].todo)' BY <2>13 DEF WritesLast, u
    <3> QED BY <2>9, <3>1, <3>2, <3>3 DEF PutInv
  <2>16. MergeInv(p)'
    <3>1. (MergeOnce(proc[p].todo) /\ RemoveMerged(proc[p].todo))'
      BY <2>13 DEF MergeOnce, RemoveMerged, u
    <3>2. disk'[Merged(proc'[p].op)] = Missing BY <1>1, <2>4, <2>9
    <3>3. proc'[p].todo # <<>> =>
            /\ Task(p)'.do = "merge" => Task(p)'.parts = Present'
            /\ Task(p)'.do # "remove"
      BY <2>2, <2>8, <2>13 DEF u
    <3> QED BY <3>1, <3>2, <3>3 DEF MergeInv
  <2>17. ops' \in Nat /\ ops <= ops' BY <1>1, FilesAssumption DEF Base, TypeInv
  <2> QED BY <1>3, <2>1, <2>14, <2>15, <2>16, <2>17, UploadSame
<1> QED BY <1>1, <1>2, <1>3

\* The lock of uploads is held by one.
LEMMA UploadLock ==
  ASSUME Base, NEW p \in Procs, NEW r \in Procs, p # r,
         proc[p].todo # <<>>, proc[r].todo # <<>>, Needs(Task(p), "upload")
  PROVE  Task(r).do \notin {"merge", "remove"}
<1>1. table[Place("upload")] = p BY LocksThere, HoldsLock
<1>2. ~Needs(Task(r), "upload") BY <1>1, LocksThere, HoldsLock
<1> QED BY <1>2 DEF Needs

\* Another goroutine, which is not about the chunks.
LEMMA UploadAway ==
  ASSUME Base, NEW r \in Procs, proc'[r] = proc[r], CopyInv(r), PutInv(r), MergeInv(r),
         proc[r].todo # <<>> => /\ Task(r).do \notin {"merge", "remove"}
                                /\ disk'[Merged(proc[r].op)] = disk[Merged(proc[r].op)]
                                /\ Unused(proc[r].op) => Unused(proc[r].op)'
  PROVE  CopyInv(r)' /\ PutInv(r)' /\ MergeInv(r)'
<1>1. Task(r)' = Task(r) /\ Copied(r)' = Copied(r) BY DEF Task, Copied
<1>2. proc[r].at \in {"writing", "closed"} => proc[r].todo # <<>> BY WritingTask
<1>3. CopyInv(r)' BY <1>1, <1>2 DEF CopyInv
<1>4. \A k \in DOMAIN proc[r].todo : proc[r].todo # <<>> OBVIOUS
<1>5. PutInv(r)'
  <2>1. WillPut(proc[r].todo) => Unused(proc[r].op)' BY <1>4 DEF PutInv, WillPut
  <2> QED BY <1>1, <2>1 DEF PutInv, WillPut, WritesLast
<1>6. MergeInv(r)'
  <2>1. (MergeOnce(proc[r].todo) /\ RemoveMerged(proc[r].todo))'
    BY DEF MergeInv, MergeOnce, RemoveMerged
  <2>2. \A k \in DOMAIN proc[r].todo :
          proc[r].todo[k].do \in {"merge", "chunks"} => disk'[Merged(proc[r].op)] = Missing
    BY <1>4 DEF MergeInv
  <2> QED BY <1>1, <2>1, <2>2 DEF MergeInv
<1> QED BY <1>3, <1>5, <1>6

LEMMA UploadRemoveChunk ==
  ASSUME Base, UploadInv, NEW p \in Procs, RemoveChunk(p)
  PROVE  UploadInv'
<1>1. proc[p].todo # <<>> /\ Task(p).do = "remove" /\ proc[p].at = "next"
  BY DEF RemoveChunk, Doing
<1>2. PICK i \in Present : /\ i \in Indexes /\ disk'[Chunk(i)] = Missing
                           /\ \A q \in Paths : q # Chunk(i) => disk'[q] = disk[q]
  BY RemoveChunkFacts
<1>3. proc' = proc /\ ops' = ops /\ chunks' = chunks BY DEF RemoveChunk, ghosts
<1>4. \A x \in Indexes : x # i => disk'[Chunk(x)] = disk[Chunk(x)]
  BY <1>2, PathsThere, PathFacts
<1>5. \A n \in 1..MaxOps : disk'[Merged(n)] = disk[Merged(n)]
  <2>1. ASSUME NEW n \in 1..MaxOps PROVE disk'[Merged(n)] = disk[Merged(n)]
    <3>1. Merged(n) \in Paths BY PathsThere
    <3>2. Merged(n)[1] # Chunk(i)[1] BY PathFacts
    <3> QED BY <1>2, <3>1, <3>2
  <2> QED BY <2>1
<1>6. \A n : Unused(n)' <=> Unused(n) BY <1>3, <1>5 DEF Unused, Has
<1>7. \A x \in Present' : x \in Present /\ x \in Indexes /\ disk'[Chunk(x)] = disk[Chunk(x)]
  BY <1>2, <1>4 DEF Present
<1>8. proc[p].op \in 1..MaxOps BY <1>1, TaskOf
<1>9. StoreInv'
  <2>1. \A x \in Indexes : disk'[Chunk(x)] # Missing => disk'[Chunk(x)] = chunks[x]
    BY <1>2, <1>4 DEF UploadInv
  <2>2. ChunksKept'
    <3>1. ASSUME NEW x \in Indexes, chunks[x] # Missing
          PROVE  disk'[Chunk(x)] = chunks[x] \/ \E n \in 1..MaxOps : Holds(disk'[Merged(n)], chunks[x])
      <4>1. disk[Chunk(x)] = chunks[x] \/ \E n \in 1..MaxOps : Holds(disk[Merged(n)], chunks[x])
        BY <3>1 DEF UploadInv, ChunksKept
      <4>2. CASE x = i
        <5>1. Holds(disk[Merged(proc[p].op)], disk[Chunk(i)]) BY <1>1 DEF UploadInv, MergeInv
        <5>2. disk[Chunk(i)] = chunks[i] BY PresentFacts
        <5> QED BY <1>5, <1>8, <4>2, <5>1, <5>2
      <4>3. CASE x # i BY <1>4, <1>5, <4>1, <4>3
      <4> QED BY <4>2, <4>3
    <3>2. \A n \in 1..MaxOps, x, y \in Indexes :
            (/\ x < y /\ chunks[x] # Missing /\ chunks[y] # Missing
             /\ Holds(disk'[Merged(n)], chunks[x]) /\ Holds(disk'[Merged(n)], chunks[y]))
            => InOrder(disk'[Merged(n)], chunks[x], chunks[y])
      BY <1>5 DEF UploadInv, ChunksKept
    <3> QED BY <1>3, <3>1, <3>2 DEF ChunksKept
  <2>3. (\A n \in 1..MaxOps : n > ops => disk[Merged(n)] = Missing /\ Unused(n))'
    BY <1>3, <1>5, <1>6 DEF UploadInv
  <2>4. (\A x \in Indexes : chunks[x] # Missing => Made(chunks[x]))' BY <1>3 DEF UploadInv
  <2>5. (\A x, y \in Indexes : x # y /\ chunks[x] # Missing /\ chunks[y] # Missing =>
           chunks[x][1][1] # chunks[y][1][1])'
    BY <1>3 DEF UploadInv
  <2> QED BY <1>3, <2>1, <2>2, <2>3, <2>4, <2>5 DEF StoreInv
<1>10. ASSUME NEW r \in Procs, r # p PROVE CopyInv(r)' /\ PutInv(r)' /\ MergeInv(r)'
  <2>1. proc[r].todo # <<>> => Task(r).do \notin {"merge", "remove"}
    BY <1>1, <1>10, UploadLock DEF Needs
  <2>2. proc[r].todo # <<>> => disk'[Merged(proc[r].op)] = disk[Merged(proc[r].op)]
    BY <1>5, TaskOf
  <2>3. Unused(proc[r].op) => Unused(proc[r].op)' BY <1>3, <1>6
  <2>4. proc'[r] = proc[r] /\ CopyInv(r) /\ PutInv(r) /\ MergeInv(r) BY <1>3 DEF UploadInv
  <2> QED BY <2>1, <2>2, <2>3, <2>4, UploadAway
<1>11. CopyInv(p)' /\ PutInv(p)' /\ MergeInv(p)'
  <2>1. Task(p)' = Task(p) BY <1>3 DEF Task
  <2>2. CopyInv(p) /\ PutInv(p) /\ MergeInv(p) BY DEF UploadInv
  <2>3. CopyInv(p)' BY <1>1, <1>3 DEF CopyInv
  <2>4. PutInv(p)'
    <3>1. WillPut(proc[p].todo) => Unused(proc[p].op)' BY <1>3, <1>6, <2>2 DEF PutInv
    <3> QED BY <1>1, <1>3, <2>2, <3>1 DEF PutInv, WillPut, WritesLast
  <2>5. MergeInv(p)'
    <3>1. (MergeOnce(proc[p].todo) /\ RemoveMerged(proc[p].todo))'
      BY <1>3, <2>2 DEF MergeInv, MergeOnce, RemoveMerged
    <3>2. \A x \in Present' : Holds(disk'[Merged(proc[p].op)], disk'[Chunk(x)])
      BY <1>1, <1>5, <1>7, <1>8, <2>2 DEF MergeInv
    <3>3. \A k \in DOMAIN proc[p].todo :
            proc[p].todo[k].do \in {"merge", "chunks"} => disk'[Merged(proc[p].op)] = Missing
      BY <1>5, <1>8, <2>2 DEF MergeInv
    <3> QED BY <1>1, <1>3, <2>1, <3>1, <3>2, <3>3 DEF MergeInv
  <2> QED BY <2>3, <2>4, <2>5
<1> QED BY <1>9, <1>10, <1>11 DEF UploadInv, StoreInv

LEMMA HoldsHas ==
  ASSUME NEW a \in Content, NEW c \in Content, Made(c), Holds(a, c)
  PROVE  Has(a, c[1][1])
<1>1. PICK k \in 0..Len(a) : HoldsAt(a, c, k) BY DEF Holds
<1>2. Len(a) \in Nat /\ Len(c) \in Nat \ {0} /\ DOMAIN a = 1..Len(a) BY DEF Made, Content
<1>3. k + Len(c) <= Len(a) /\ \A j \in 1..Len(c) : a[k + j] = c[j] BY <1>1, <1>2, HoldsAtFacts
<1>4. 1 \in 1..Len(c) /\ k + 1 \in 1..Len(a) BY <1>1, <1>2, <1>3
<1>5. a[k + 1] = c[1] BY <1>3, <1>4
<1> QED BY <1>2, <1>4, <1>5 DEF Has

LEMMA RenameDone ==
  ASSUME Base, NEW p \in Procs, Rename(p)
  PROVE  /\ Done(p) /\ proc[p].todo # <<>> /\ proc[p].at = "closed" /\ proc[p].parts = {}
         /\ UNCHANGED <<ops, table, suite>>
         /\ \A r \in Procs : r # p => proc'[r] = proc[r]
         /\ proc'[p].todo = Tail(proc[p].todo) /\ proc'[p].at = "next" /\ proc'[p].op = proc[p].op
         /\ chunks' = [i \in Indexes |-> IF Task(p).path = Chunk(i) THEN proc[p].tmp ELSE chunks[i]]
         /\ ops' \in Nat /\ ops <= ops'
         /\ proc[p].op \in 1..ops /\ proc[p].op \in 1..MaxOps /\ ops \in Nat
<1>1. Done(p) /\ UNCHANGED <<ops, table, suite>> BY DEF Rename
<1>2. proc[p].todo # <<>> /\ proc[p].at = "closed" /\ proc[p].parts = {} BY RenameFacts
<1>3. chunks' = [i \in Indexes |-> IF Task(p).path = Chunk(i) THEN proc[p].tmp ELSE chunks[i]]
  BY DEF Rename
<1>4. ops' \in Nat /\ ops <= ops' /\ ops \in Nat BY <1>1, FilesAssumption DEF Base, TypeInv
<1>5. /\ \A r \in Procs : r # p => proc'[r] = proc[r]
      /\ proc'[p].todo = Tail(proc[p].todo) /\ proc'[p].at = "next" /\ proc'[p].op = proc[p].op
  BY <1>1, <1>2, DoneFacts
<1>6. proc[p].op \in 1..ops /\ proc[p].op \in 1..MaxOps BY <1>2, TaskOf
<1> QED BY <1>1, <1>2, <1>3, <1>4, <1>5, <1>6

LEMMA RenameElsewhere ==
  ASSUME Base, UploadInv, NEW p \in Procs, Rename(p),
         Task(p).path[1] \notin {"id", "merged"}, Task(p).do \notin {"chunks", "merge"}
  PROVE  UploadInv'
<1>1. disk' = [disk EXCEPT ![Task(p).path] = proc[p].tmp] BY RenameFacts
<1>2. disk \in [Paths -> Content] BY LogContent
<1>3. \A i \in Indexes : Task(p).path # Chunk(i) /\ disk'[Chunk(i)] = disk[Chunk(i)]
  <2>1. ASSUME NEW i \in Indexes
        PROVE  Task(p).path # Chunk(i) /\ disk'[Chunk(i)] = disk[Chunk(i)]
    <3>1. Chunk(i)[1] = "id" /\ Chunk(i) \in Paths BY PathFacts, PathsThere
    <3>2. Task(p).path # Chunk(i) BY <3>1
    <3> QED BY <1>1, <1>2, <3>1, <3>2
  <2> QED BY <2>1
<1>4. \A n \in 1..MaxOps : disk'[Merged(n)] = disk[Merged(n)]
  <2>1. ASSUME NEW n \in 1..MaxOps PROVE disk'[Merged(n)] = disk[Merged(n)]
    <3>1. Merged(n)[1] = "merged" /\ Merged(n) \in Paths BY PathFacts, PathsThere
    <3>2. Task(p).path # Merged(n) BY <3>1
    <3> QED BY <1>1, <1>2, <3>1, <3>2
  <2> QED BY <2>1
<1>5. chunks' = chunks
  <2>1. chunks \in [Indexes -> Content] BY DEF Base, TypeInv
  <2>2. chunks' = [i \in Indexes |-> chunks[i]] BY <1>3, RenameDone
  <2> QED BY <2>1, <2>2
<1>6. SameUploads BY <1>3, <1>4, <1>5 DEF SameUploads
<1>7. WillPut(proc[p].todo) => Unused(proc[p].op)'
  BY <1>6, RenameDone, SameUploadFacts DEF UploadInv, PutInv
<1>8. disk'[Merged(proc[p].op)] = disk[Merged(proc[p].op)] BY <1>4, RenameDone
<1>9. CopyInv(p)' /\ PutInv(p)' /\ MergeInv(p)' BY <1>7, <1>8, RenameDone, DoneTasks
<1> QED BY <1>6, <1>9, RenameDone, UploadSame

LEMMA RenameChunk ==
  ASSUME Base, UploadInv, NEW p \in Procs, Rename(p), NEW i \in Indexes, NEW k \in 1..Limit + 1,
         Task(p) = Store(Chunk(i), Pieces(proc[p].op, k))
  PROVE  UploadInv'
<1> DEFINE c == Pieces(proc[p].op, k)
           n == proc[p].op
<1>1. Task(p).do = "put" /\ Task(p).path = Chunk(i) /\ Task(p).src = c BY DEF Store
<1>2. proc[p].todo # <<>> /\ proc[p].at = "closed" /\ n \in 1..MaxOps /\ n \in 1..ops /\ ops \in Nat
  BY RenameDone
<1>3. proc[p].tmp = c
  <2>1. Copied(p) = c /\ proc[p].src = <<>> BY <1>1, <1>2 DEF UploadInv, PutInv
  <2>2. proc[p].tmp \in Content BY ProcFacts
  <2> QED BY <2>1, <2>2, EmptyFacts DEF Copied
<1>4. c \in Content /\ Made(c) /\ c # <<>> /\ \A j \in DOMAIN c : c[j][1] = n
  BY <1>2, PiecesMade DEF Made
<1>5. c[1][1] = n
  <2>1. 1 \in DOMAIN c BY <1>4 DEF Content
  <2> QED BY <1>4, <2>1
<1>6. c # Missing BY <1>4, MadeFacts
<1>7. Unused(n)
  <2>1. WillPut(proc[p].todo) BY <1>1, <1>2, TaskOf DEF WillPut
  <2> QED BY <2>1 DEF UploadInv, PutInv
<1>8. disk' = [disk EXCEPT ![Chunk(i)] = c] /\ disk \in [Paths -> Content] /\ Chunk(i) \in Paths
  BY <1>1, <1>3, RenameFacts, LogContent, PathsThere
<1>9. chunks'[i] = c /\ \A x \in Indexes : x # i => chunks'[x] = chunks[x]
  <2>1. \A x \in Indexes : chunks'[x] = IF Chunk(i) = Chunk(x) THEN c ELSE chunks[x]
    BY <1>1, <1>3, RenameDone
  <2>2. \A x \in Indexes : Chunk(i) = Chunk(x) => i = x BY PathFacts
  <2> QED BY <2>1, <2>2
<1> HIDE DEF c, n
<1>10. disk'[Chunk(i)] = c BY <1>8
<1>11. \A x \in Indexes : x # i => disk'[Chunk(x)] = disk[Chunk(x)]
  <2>1. \A x \in Indexes : x # i => Chunk(x) # Chunk(i) BY PathFacts
  <2> QED BY <1>8, <2>1
<1>12. \A m \in 1..MaxOps : disk'[Merged(m)] = disk[Merged(m)]
  <2>1. \A m \in 1..MaxOps : Merged(m) # Chunk(i) BY PathFacts
  <2> QED BY <1>8, <2>1
<1>13. \A m : m # n /\ Unused(m) => Unused(m)'
  <2>1. ASSUME NEW m, m # n, Unused(m) PROVE Unused(m)'
    <3>1. \A x \in Indexes : chunks'[x] # Missing => chunks'[x][1][1] # m
      BY <1>5, <1>9, <2>1 DEF Unused
    <3>2. \A q \in 1..MaxOps : ~Has(disk'[Merged(q)], m) BY <1>12, <2>1 DEF Unused
    <3> QED BY <3>1, <3>2 DEF Unused
  <2> QED BY <2>1
<1>14. ops' = ops BY RenameDone
<1>15. StoreInv'
  <2>1. \A x \in Indexes : disk'[Chunk(x)] # Missing => disk'[Chunk(x)] = chunks'[x]
    BY <1>9, <1>10, <1>11 DEF UploadInv
  <2>2. \A x \in Indexes : chunks'[x] # Missing => Made(chunks'[x])
    BY <1>4, <1>9 DEF UploadInv
  <2>3. \A x, y \in Indexes : x # y /\ chunks'[x] # Missing /\ chunks'[y] # Missing =>
          chunks'[x][1][1] # chunks'[y][1][1]
    BY <1>5, <1>7, <1>9 DEF UploadInv, Unused
  <2>4. \A m \in 1..MaxOps : m > ops => disk'[Merged(m)] = Missing /\ Unused(m)'
    <3>1. \A m \in 1..MaxOps : m > ops => m # n BY <1>2
    <3> QED BY <1>12, <1>13, <3>1 DEF UploadInv
  <2>5. \A x \in Indexes : chunks'[x] # Missing =>
          disk'[Chunk(x)] = chunks'[x] \/ \E m \in 1..MaxOps : Holds(disk'[Merged(m)], chunks'[x])
    <3>1. ASSUME NEW x \in Indexes, chunks'[x] # Missing
          PROVE  disk'[Chunk(x)] = chunks'[x] \/ \E m \in 1..MaxOps : Holds(disk'[Merged(m)], chunks'[x])
      <4>1. CASE x = i BY <1>9, <1>10, <4>1
      <4>2. CASE x # i
        <5>1. chunks'[x] = chunks[x] /\ disk'[Chunk(x)] = disk[Chunk(x)] BY <1>9, <1>11, <4>2
        <5>2. disk[Chunk(x)] = chunks[x] \/ \E m \in 1..MaxOps : Holds(disk[Merged(m)], chunks[x])
          BY <3>1, <5>1 DEF UploadInv, ChunksKept
        <5> QED BY <1>12, <5>1, <5>2
      <4> QED BY <4>1, <4>2
    <3> QED BY <3>1
  <2>6. \A m \in 1..MaxOps : ~Holds(disk[Merged(m)], c)
    <3>1. ASSUME NEW m \in 1..MaxOps, Holds(disk[Merged(m)], c) PROVE FALSE
      <4>1. disk[Merged(m)] \in Content BY PathsThere, LogContent
      <4>2. Has(disk[Merged(m)], n) BY <1>4, <1>5, <3>1, <4>1, HoldsHas
      <4> QED BY <1>7, <4>2 DEF Unused
    <3> QED BY <3>1
  <2>7. \A m \in 1..MaxOps, x, y \in Indexes :
          (/\ x < y /\ chunks'[x] # Missing /\ chunks'[y] # Missing
           /\ Holds(disk'[Merged(m)], chunks'[x]) /\ Holds(disk'[Merged(m)], chunks'[y]))
          => InOrder(disk'[Merged(m)], chunks'[x], chunks'[y])
    <3>1. ASSUME NEW m \in 1..MaxOps, NEW x \in Indexes, NEW y \in Indexes,
                 x < y, chunks'[x] # Missing, chunks'[y] # Missing,
                 Holds(disk'[Merged(m)], chunks'[x]), Holds(disk'[Merged(m)], chunks'[y])
          PROVE  InOrder(disk'[Merged(m)], chunks'[x], chunks'[y])
      <4>1. disk'[Merged(m)] = disk[Merged(m)] BY <1>12
      <4>2. x # i /\ y # i BY <1>9, <2>6, <3>1, <4>1
      <4>3. chunks'[x] = chunks[x] /\ chunks'[y] = chunks[y] BY <1>9, <4>2
      <4> QED BY <3>1, <4>1, <4>3 DEF UploadInv, ChunksKept
    <3> QED BY <3>1
  <2>8. ChunksKept' BY <2>5, <2>7 DEF ChunksKept
  <2> QED BY <1>14, <2>1, <2>2, <2>3, <2>4, <2>8 DEF StoreInv
<1>16. ASSUME NEW r \in Procs, r # p PROVE CopyInv(r)' /\ PutInv(r)' /\ MergeInv(r)'
  <2>1. proc'[r] = proc[r] BY <1>16, RenameDone
  <2>2. ASSUME proc[r].todo # <<>>
        PROVE  /\ Task(r).do \notin {"merge", "remove"}
               /\ disk'[Merged(proc[r].op)] = disk[Merged(proc[r].op)]
               /\ Unused(proc[r].op) => Unused(proc[r].op)'
    <3>1. Needs(Task(p), "upload") BY <1>1, PathFacts DEF Needs
    <3>2. Task(r).do \notin {"merge", "remove"} BY <1>2, <1>16, <2>2, <3>1, UploadLock
    <3>3. proc[r].op \in 1..MaxOps /\ proc[r].at # "idle" BY <2>2, TaskOf
    <3>4. proc[r].op # n BY <1>2, <1>16, <3>3 DEF Base, n
    <3> QED BY <1>12, <1>13, <2>1, <3>2, <3>3, <3>4
  <2>3. CopyInv(r) /\ PutInv(r) /\ MergeInv(r) BY DEF UploadInv
  <2> QED BY <2>1, <2>2, <2>3, UploadAway
<1>17. disk'[Merged(proc[p].op)] = disk[Merged(proc[p].op)] BY <1>2, <1>12 DEF n
<1>18. CopyInv(p)' /\ PutInv(p)' /\ MergeInv(p)'
  BY <1>1, <1>2, <1>17, RenameDone, DoneTasks
<1> QED BY <1>15, <1>16, <1>18 DEF UploadInv, StoreInv

LEMMA RenameMerged ==
  ASSUME Base, UploadInv, NEW p \in Procs, Rename(p), Task(p).do = "merge"
  PROVE  UploadInv'
<1> DEFINE m == proc[p].tmp
           n == proc[p].op
           s == proc[p].todo
<1>1. s # <<>> /\ proc[p].at = "closed" /\ n \in 1..MaxOps /\ n \in 1..ops /\ ops \in Nat
      /\ proc[p].parts = {}
  BY RenameDone
<1>2. Task(p) = s[1] /\ 1 \in DOMAIN s BY <1>1, TaskOf
<1>3. Task(p).path = Merged(n) BY TaskOf, TaskFacts, <1>1 DEF Merge
<1>4. m \in Content BY ProcFacts
<1>5. CopyInv(p) /\ PutInv(p) /\ MergeInv(p) BY DEF UploadInv
<1>6. Copied(p) = m
  <2>1. proc[p].src = <<>> BY <1>1, <1>5 DEF CopyInv
  <2> QED BY <1>4, <2>1, EmptyFacts DEF Copied
<1>7. \A i \in Present : i \in Present \ proc[p].parts BY <1>1
<1>8. /\ \A i \in Present : /\ Holds(m, disk[Chunk(i)])
                            /\ \A j \in Present : i < j => InOrder(m, disk[Chunk(i)], disk[Chunk(j)])
      /\ \A k \in DOMAIN m : \E i \in Present : m[k][1] = disk[Chunk(i)][1][1]
  BY <1>1, <1>5, <1>6, <1>7 DEF CopyInv
<1>9. disk[Merged(n)] = Missing BY <1>2, <1>5 DEF MergeInv
<1>10. disk' = [disk EXCEPT ![Merged(n)] = m] /\ disk \in [Paths -> Content] /\ Merged(n) \in Paths
  BY <1>1, <1>3, RenameFacts, LogContent, PathsThere
<1>11. chunks' = chunks
  <2>1. \A i \in Indexes : Merged(n) # Chunk(i) BY PathFacts
  <2>2. chunks \in [Indexes -> Content] BY DEF Base, TypeInv
  <2>3. chunks' = [i \in Indexes |-> chunks[i]] BY <1>3, <2>1, RenameDone
  <2> QED BY <2>2, <2>3
<1>12. ops' = ops BY RenameDone
<1>13. proc'[p].todo = Tail(s) /\ proc'[p].at = "next" /\ proc'[p].op = n BY RenameDone
<1>14. s \in Seq(AllTasks) /\ Task(p) = Head(s) BY ProcFacts DEF Task
<1>15. WritesLast(s) /\ MergeOnce(s) /\ RemoveMerged(s) /\ (WillPut(s) => Unused(n))
  BY <1>5 DEF PutInv, MergeInv
<1> HIDE DEF m, n, s
<1>16. disk'[Merged(n)] = m BY <1>10
<1>17. \A x \in Indexes : disk'[Chunk(x)] = disk[Chunk(x)]
  <2>1. \A x \in Indexes : Merged(n) # Chunk(x) BY PathFacts
  <2> QED BY <1>10, <2>1
<1>18. \A q \in 1..MaxOps : q # n => disk'[Merged(q)] = disk[Merged(q)]
  <2>1. \A q : q # n => Merged(q) # Merged(n) BY PathFacts
  <2> QED BY <1>10, <2>1
<1>19. Present' = Present BY <1>17 DEF Present
<1>20. \A i \in Present : i \in Indexes /\ disk[Chunk(i)] = chunks[i] /\ chunks[i] # Missing
  BY PresentFacts
\* What the merged file has are chunks.
<1>21. ASSUME NEW x, Has(m, x) PROVE \E i \in Present : chunks[i][1][1] = x
  BY <1>8, <1>20, <1>21 DEF Has
<1>22. \A x : Unused(x) => Unused(x)'
  <2>1. ASSUME NEW x, Unused(x) PROVE Unused(x)'
    <3>1. ~Has(m, x) BY <1>20, <1>21, <2>1 DEF Unused
    <3>2. \A q \in 1..MaxOps : ~Has(disk'[Merged(q)], x)
      BY <1>16, <1>18, <2>1, <3>1 DEF Unused
    <3> QED BY <1>11, <2>1, <3>2 DEF Unused
  <2> QED BY <2>1
<1>23. ASSUME NEW x \in Indexes, chunks[x] # Missing, Holds(m, chunks[x]) PROVE x \in Present
  <2>1. chunks[x] \in Content /\ Made(chunks[x]) BY <1>23 DEF UploadInv, Base, TypeInv
  <2>2. Has(m, chunks[x][1][1]) BY <1>4, <1>23, <2>1, HoldsHas
  <2>3. PICK i \in Present : chunks[i][1][1] = chunks[x][1][1] BY <1>21, <2>2
  <2>4. i = x BY <1>20, <1>23, <2>3 DEF UploadInv
  <2> QED BY <2>4
<1>24. StoreInv'
  <2>1. (\A x \in Indexes : disk[Chunk(x)] # Missing => disk[Chunk(x)] = chunks[x])'
    BY <1>11, <1>17 DEF UploadInv
  <2>2. (\A x \in Indexes : chunks[x] # Missing => Made(chunks[x]))' BY <1>11 DEF UploadInv
  <2>3. (\A x, y \in Indexes : x # y /\ chunks[x] # Missing /\ chunks[y] # Missing =>
           chunks[x][1][1] # chunks[y][1][1])'
    BY <1>11 DEF UploadInv
  <2>4. \A q \in 1..MaxOps : q > ops => disk'[Merged(q)] = Missing /\ Unused(q)'
    <3>1. \A q \in 1..MaxOps : q > ops => q # n BY <1>1 DEF n
    <3> QED BY <1>18, <1>22, <3>1 DEF UploadInv
  <2>5. \A x \in Indexes : chunks[x] # Missing =>
          disk'[Chunk(x)] = chunks[x] \/ \E q \in 1..MaxOps : Holds(disk'[Merged(q)], chunks[x])
    <3>1. ASSUME NEW x \in Indexes, chunks[x] # Missing, disk'[Chunk(x)] # chunks[x]
          PROVE  \E q \in 1..MaxOps : Holds(disk'[Merged(q)], chunks[x])
      <4>1. PICK q \in 1..MaxOps : Holds(disk[Merged(q)], chunks[x])
        BY <1>17, <3>1 DEF UploadInv, ChunksKept
      <4>2. chunks[x] \in Content /\ Made(chunks[x]) BY <3>1 DEF UploadInv, Base, TypeInv
      <4>3. q # n BY <1>9, <4>1, <4>2, MadeFacts
      <4> QED BY <1>18, <4>1, <4>3
    <3> QED BY <3>1
  <2>6. \A q \in 1..MaxOps, x, y \in Indexes :
          (/\ x < y /\ chunks[x] # Missing /\ chunks[y] # Missing
           /\ Holds(disk'[Merged(q)], chunks[x]) /\ Holds(disk'[Merged(q)], chunks[y]))
          => InOrder(disk'[Merged(q)], chunks[x], chunks[y])
    <3>1. ASSUME NEW q \in 1..MaxOps, NEW x \in Indexes, NEW y \in Indexes,
                 x < y, chunks[x] # Missing, chunks[y] # Missing,
                 Holds(disk'[Merged(q)], chunks[x]), Holds(disk'[Merged(q)], chunks[y])
          PROVE  InOrder(disk'[Merged(q)], chunks[x], chunks[y])
      <4>1. CASE q = n
        <5>1. x \in Present /\ y \in Present BY <1>16, <1>23, <3>1, <4>1
        <5> QED BY <1>8, <1>16, <1>20, <3>1, <4>1, <5>1
      <4>2. CASE q # n BY <1>18, <3>1, <4>2 DEF UploadInv, ChunksKept
      <4> QED BY <4>1, <4>2
    <3> QED BY <3>1
  <2>7. ChunksKept' BY <1>11, <2>5, <2>6 DEF ChunksKept
  <2> QED BY <1>12, <2>1, <2>2, <2>3, <2>4, <2>7 DEF StoreInv
<1>25. ASSUME NEW r \in Procs, r # p PROVE CopyInv(r)' /\ PutInv(r)' /\ MergeInv(r)'
  <2>1. proc'[r] = proc[r] BY <1>25, RenameDone
  <2>2. ASSUME proc[r].todo # <<>>
        PROVE  /\ Task(r).do \notin {"merge", "remove"}
               /\ disk'[Merged(proc[r].op)] = disk[Merged(proc[r].op)]
               /\ Unused(proc[r].op) => Unused(proc[r].op)'
    <3>1. Needs(Task(p), "upload") BY DEF Needs
    <3>2. Task(r).do \notin {"merge", "remove"} BY <1>1, <1>25, <2>2, <3>1, UploadLock DEF s
    <3>3. proc[r].op \in 1..MaxOps /\ proc[r].at # "idle" BY <2>2, TaskOf
    <3>4. proc[r].op # n BY <1>1, <1>25, <3>3 DEF Base, n
    <3> QED BY <1>18, <1>22, <2>1, <3>2, <3>3, <3>4
  <2>3. CopyInv(r) /\ PutInv(r) /\ MergeInv(r) BY DEF UploadInv
  <2> QED BY <2>1, <2>2, <2>3, UploadAway
<1>26. CopyInv(p)' BY <1>13 DEF CopyInv
<1>27. PutInv(p)'
  <2>1. WritesLast(Tail(s)) /\ (WillPut(Tail(s)) => WillPut(s)) BY <1>1, <1>14, <1>15, PutTail DEF s
  <2>2. WillPut(proc[p].todo)' <=> WillPut(Tail(s)) BY <1>13 DEF WillPut
  <2>3. WritesLast(proc[p].todo)' BY <1>13, <2>1 DEF WritesLast
  <2>4. WillPut(s) => Unused(proc[p].op)' BY <1>13, <1>15, <1>22
  <2> QED BY <1>13, <2>1, <2>2, <2>3, <2>4 DEF PutInv
<1>28. MergeInv(p)'
  <2>1. s # <<>> BY <1>1 DEF s
  <2>2. MergeOnce(Tail(s)) /\ RemoveMerged(Tail(s)) /\ Tail(s) \in Seq(AllTasks)
    BY <1>14, <1>15, <2>1, MergeTail, TailFacts
  <2>3. \A k \in DOMAIN Tail(s) : Tail(s)[k].do \notin {"merge", "chunks"}
    BY <1>14, <1>15, <2>1, MergeTail
  <2>4. Task(p)' = Head(Tail(s)) BY <1>13 DEF Task
  <2>5. Tail(s) # <<>> => Head(Tail(s)).do # "merge"
    <3>1. Tail(s) # <<>> => 1 \in DOMAIN Tail(s) /\ Head(Tail(s)) = Tail(s)[1] BY <2>2
    <3> QED BY <2>3, <3>1
  <2>6. (MergeOnce(proc[p].todo) /\ RemoveMerged(proc[p].todo))'
    BY <1>13, <2>2 DEF MergeOnce, RemoveMerged
  <2>7. \A i \in Present' : Holds(disk'[Merged(n)], disk'[Chunk(i)])
    BY <1>8, <1>16, <1>17, <1>19, <1>20
  <2> QED BY <1>13, <2>3, <2>4, <2>5, <2>6, <2>7 DEF MergeInv
<1> QED BY <1>24, <1>25, <1>26, <1>27, <1>28 DEF UploadInv, StoreInv

LEMMA UploadRename ==
  ASSUME Base, UploadInv, NEW p \in Procs, Rename(p)
  PROVE  UploadInv'
<1>1. CASE Task(p) = Put(File, Pieces(proc[p].op, 2))
  <2>1. Task(p).path[1] = "file" /\ Task(p).do = "put" BY <1>1, PathFacts DEF Put
  <2> QED BY <2>1, RenameElsewhere
<1>2. CASE Task(p).do = "copy" /\ (Task(p).path = File \/ Task(p).path[1] \in Dirs)
  <2>1. Task(p).path[1] \notin {"id", "merged"} BY <1>2, PathFacts
  <2> QED BY <1>2, <2>1, RenameElsewhere
<1>3. CASE \E k \in 1..Limit + 1 : Task(p) = Store(Out(proc[p].op), Pieces(proc[p].op, k))
  <2>1. Task(p).path[1] = "out" /\ Task(p).do = "put" BY <1>3, PathFacts DEF Store
  <2> QED BY <2>1, RenameElsewhere
<1>4. CASE \E i \in Indexes, k \in 1..Limit + 1 : Task(p) = Store(Chunk(i), Pieces(proc[p].op, k))
  BY <1>4, RenameChunk
<1>5. CASE Task(p).do = "merge" BY <1>5, RenameMerged
<1> QED BY <1>1, <1>2, <1>3, <1>4, <1>5, RenameFacts

LEMMA UploadInit == Init => UploadInv
<1> SUFFICES ASSUME Init PROVE UploadInv OBVIOUS
<1>1. ops = 0 /\ chunks = [i \in Indexes |-> Missing] BY DEF Init
<1>2. \A i \in Indexes : chunks[i] = Missing /\ disk[Chunk(i)] = Missing
  <2>1. ASSUME NEW i \in Indexes PROVE chunks[i] = Missing /\ disk[Chunk(i)] = Missing
    <3>1. Chunk(i) \in Paths /\ Chunk(i) \notin {File, Log} BY PathsThere, PathFacts
    <3> QED BY <1>1, <3>1 DEF Init
  <2> QED BY <2>1
<1>3. \A n \in 1..MaxOps : disk[Merged(n)] = Missing
  <2>1. ASSUME NEW n \in 1..MaxOps PROVE disk[Merged(n)] = Missing
    <3>1. Merged(n) \in Paths /\ Merged(n) \notin {File, Log} BY PathsThere, PathFacts
    <3> QED BY <3>1 DEF Init
  <2> QED BY <2>1
<1>4. \A n \in 1..MaxOps : Unused(n)
  <2>1. \A n \in 1..MaxOps : n # 0 BY FilesAssumption
  <2>2. \A n \in 1..MaxOps : ~Has(Missing, n) BY <2>1 DEF Has, Missing
  <2> QED BY <1>2, <1>3, <2>2 DEF Unused
<1>5. \A p \in Procs : CopyInv(p) /\ PutInv(p) /\ MergeInv(p)
  <2>1. ASSUME NEW p \in Procs PROVE CopyInv(p) /\ PutInv(p) /\ MergeInv(p)
    <3>1. proc[p] = Idle BY DEF Init
    <3>2. proc[p].at = "idle" /\ proc[p].todo = <<>> /\ DOMAIN proc[p].todo = {}
      BY <3>1, IdleFacts
    <3>3. CopyInv(p) BY <3>2 DEF CopyInv
    <3>4. PutInv(p) BY <3>2 DEF PutInv, WillPut, WritesLast
    <3>5. MergeInv(p) BY <3>2 DEF MergeInv, MergeOnce, RemoveMerged
    <3> QED BY <3>3, <3>4, <3>5
  <2> QED BY <2>1
<1>6. ChunksKept BY <1>2 DEF ChunksKept
<1> QED BY <1>2, <1>3, <1>4, <1>5, <1>6 DEF UploadInv

LEMMA UploadNext == Base /\ UploadInv /\ [Next]_vars => UploadInv'
<1> SUFFICES ASSUME Base, UploadInv, [Next]_vars PROVE UploadInv' OBVIOUS
<1>1. ASSUME NEW p \in Procs, Operation(p) PROVE UploadInv' BY <1>1, UploadBegin
<1>2. ASSUME NEW p \in Procs,
             \/ TakeLock(p) \/ ReleaseLock(p) \/ WroteInPlace(p) \/ ReadLocked(p) \/ RemoveDone(p)
      PROVE  UploadInv'
  BY <1>2, UploadDone
<1>3. ASSUME NEW p \in Procs,
             \/ Finish(p) \/ WriteTempFails(p) \/ OpenFails(p) \/ WriteInPlaceFails(p) \/ RemoveFails(p)
      PROVE  UploadInv'
  BY <1>3, UploadFailures
<1>4. ASSUME NEW p \in Procs, CreateTemp(p) \/ WriteTemp(p) \/ CloseTemp(p) \/ Rename(p)
      PROVE  UploadInv'
  BY <1>4, UploadCreateTemp, UploadWriteTemp, UploadCloseTemp, UploadRename
<1>5. ASSUME NEW p \in Procs, OpenInPlace(p) \/ WriteInPlace(p) PROVE UploadInv'
  BY <1>5, UploadInPlace
<1>6. ASSUME NEW p \in Procs, ListChunks(p) \/ OpenChunk(p) \/ RemoveChunk(p) PROVE UploadInv'
  BY <1>6, UploadListChunks, UploadOpenChunk, UploadRemoveChunk
<1>7. CASE ReadStream \/ UNCHANGED vars BY <1>7, UploadRests
<1>8. CASE Crash BY <1>8, UploadCrash
<1> QED BY <1>1, <1>2, <1>3, <1>4, <1>5, <1>6, <1>7, <1>8, Steps

\* A chunk that was saved is never lost, to no failure, crash or operation
\* beside it, and a merged file has its chunks in the order of their indexes.
THEOREM NoChunkLost == Spec => []ChunksKept
<1>1. Init => Base /\ UploadInv BY BaseInit, UploadInit
<1>2. Base /\ UploadInv /\ [Next]_vars => Base' /\ UploadInv' BY BaseNext, UploadNext
<1>3. UploadInv => ChunksKept BY DEF UploadInv
<1> QED BY <1>1, <1>2, <1>3, PTL DEF Spec
=============================================================================
