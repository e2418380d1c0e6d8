------------------------------ MODULE FileSystem ------------------------------
(* Inodes, their contents, directories and paths (fs.c), and the system calls *)
(* on them (sysfile.c).                                                       *)
(*                                                                            *)
(* A call runs in steps: todo[p] is what is left of the call of process p.    *)
(* The steps end where an inode lock is taken or given up or icache.lock is   *)
(* used; what is done with an inode locked is one step.  Each call is one     *)
(* operation of the log, so that a crash finds the disk as it was when no     *)
(* call was under way.                                                        *)
(*                                                                            *)
(* The inode cache is write-through: an inode has one record here, and the    *)
(* copy in memory adds its reference count, its lock and whether it is valid. *)
(* A directory maps names to inodes, "up" is its entry "..", and every        *)
(* directory takes one block.                                                 *)
EXTENDS Naturals, Sequences, FiniteSets, FiniteSetsExt, SequencesExt

CONSTANTS
  Procs,       \* processes
  NINODES,     \* inodes on the disk; the first is the root
  NBLOCKS,     \* blocks for contents
  NINODE,      \* entries of the inode cache
  NDIRECT,     \* blocks an inode lists itself
  NINDIRECT,   \* blocks its indirect block lists
  Names,       \* names of entries, apart from "." and ".."
  Paths,       \* the paths the processes use: <<from the root?, elements>>
  Disk0,       \* the inodes at boot
  MaxCalls     \* a bound: how many calls each process makes

ASSUME FileSystemAssumption ==
  NINODES \in Nat \ {0} /\ NBLOCKS \in Nat \ {0} /\ NDIRECT \in Nat /\ NINDIRECT \in Nat

VARIABLES
  inode,       \* the inodes
  bitmap,      \* the blocks in use
  icache,      \* the copies in memory
  todo,        \* what each process has still to do of its call
  cwd,         \* its current directory
  file,        \* the inode of its open file, or 0
  panic,       \* the panic that stopped the machine, or "no"
  stray,       \* history: an entry was made in a removed directory
  calls        \* the calls each process has made

vars == <<inode, bitmap, icache, todo, cwd, file, panic, stray, calls>>

ROOTINO == 1
Inums == 1..NINODES
Blocks == 1..NBLOCKS

NoEntries == [n \in Names |-> 0]
Unused == [type |-> "none", nlink |-> 0, ents |-> NoEntries, up |-> 0, addrs |-> << >>, ind |-> 0]

\* The blocks of an inode: those itrunc() frees.
Owned(i) == Range(inode[i].addrs) \union ({inode[i].ind} \ {0})

\* The disk has been left by an earlier run; every process starts in the root.
Init ==
  /\ inode = Disk0
  /\ bitmap = UNION {Owned(i) : i \in Inums}
  /\ icache = [i \in Inums |-> [ref |-> IF i = ROOTINO THEN Cardinality(Procs) ELSE 0,
                                valid |-> FALSE, lock |-> 0]]
  /\ todo = [p \in Procs |-> << >>]
  /\ cwd = [p \in Procs |-> ROOTINO] /\ file = [p \in Procs |-> 0]
  /\ panic = "no" /\ stray = FALSE
  /\ calls = [p \in Procs |-> 0]

-----------------------------------------------------------------------------
At(p, kind) == panic = "no" /\ todo[p] # << >> /\ Head(todo[p])[1] = kind
Arg(p, k) == Head(todo[p])[k]

\* p goes on with s, and then with what it had to do before.
Then(p, s) == todo' = [todo EXCEPT ![p] = s \o Tail(@)]

\* p starts a call.
Calls(p) ==
  /\ panic = "no" /\ todo[p] = << >> /\ calls[p] < MaxCalls[p]
  /\ calls' = [calls EXCEPT ![p] = @ + 1]
Do(p, s) == todo' = [todo EXCEPT ![p] = s]

\* iunlock(), iput() and iunlockput() as steps.
Put(i) == <<<<"put", i>>, <<"drop", i>>>>
UnlockPut(i) == <<<<"unlock", i>>>> \o Put(i)

\* iget(): the copy of an inode that was not in memory is not valid.
Iget(i) == [icache EXCEPT ![i] = [ref |-> @.ref + 1, lock |-> @.lock,
                                  valid |-> @.valid /\ @.ref > 0]]

\* Its panic, when the cache is full.
IgetFails(i) == icache[i].ref = 0 /\ Cardinality({j \in Inums : icache[j].ref > 0}) >= NINODE

\* ilock(): wait for the lock, and read the inode if it is not valid.
Ilock(p) ==
  /\ At(p, "lock")
  /\ LET i == Arg(p, 2)
     IN  /\ icache[i].lock = 0
         /\ icache' = [icache EXCEPT ![i].lock = p, ![i].valid = TRUE]
         /\ panic' = CASE icache[i].ref < 1 -> "ilock"
                       [] ~icache[i].valid /\ inode[i].type = "none" -> "ilock: no type"
                       [] OTHER -> panic
  /\ Then(p, << >>)
  /\ UNCHANGED <<inode, bitmap, cwd, file, stray>>

Iunlock(p) ==
  /\ At(p, "unlock")
  /\ icache' = [icache EXCEPT ![Arg(p, 2)].lock = 0]
  /\ Then(p, << >>)
  /\ UNCHANGED <<inode, bitmap, cwd, file, panic, stray>>

\* Mutant of Unreferenced: the inode is freed under the others that hold it.
UnreferencedAlways(i) == TRUE

\* iput(): nobody else has a reference.
Unreferenced(i) == icache[i].ref = 1

(* iput(), while it holds the lock: an inode without links and without other  *)
(* references is truncated and freed.                                         *)
Iput(p) ==
  /\ At(p, "put")
  /\ LET i == Arg(p, 2)
     IN  /\ icache[i].lock = 0
         /\ IF icache[i].valid /\ inode[i].nlink = 0 /\ Unreferenced(i)
            THEN /\ inode' = [inode EXCEPT ![i] = Unused]
                 /\ bitmap' = bitmap \ Owned(i)
                 /\ panic' = IF Owned(i) \subseteq bitmap THEN panic ELSE "freeing free block"
                 /\ icache' = [icache EXCEPT ![i].valid = FALSE]
            ELSE UNCHANGED <<inode, bitmap, icache, panic>>
  /\ Then(p, << >>)
  /\ UNCHANGED <<cwd, file, stray>>

\* The end of iput(): the reference is dropped, under icache.lock.
IputDrops(p) ==
  /\ At(p, "drop")
  /\ icache' = [icache EXCEPT ![Arg(p, 2)].ref = @ - 1]
  /\ Then(p, << >>)
  /\ UNCHANGED <<inode, bitmap, cwd, file, panic, stray>>
-----------------------------------------------------------------------------
\* dirlookup(): the entry, or 0.
Entry(d, n) == CASE n = "." -> d [] n = ".." -> inode[d].up [] OTHER -> inode[d].ents[n]

\* link(): the way out when the new entry cannot be made.
BadLink(i) == <<<<"lock", i>>, <<"nlink--", i>>>> \o UnlockPut(i)

\* The call k goes on with the inode i it has found, or its parent and the name.
Found(k, i, n) ==
  <<<<"lock", i>>, CASE k[1] = "unlink"  -> <<"unlink", i, n>>
                     [] k[1] = "create"  -> <<"create", i, n, k[2]>>
                     [] k[1] = "link"    -> <<"link", i, k[2]>>
                     [] k[1] = "linknew" -> <<"dirlink", i, n, k[2]>>
                     [] k[1] = "open"    -> <<"opened", i>>
                     [] k[1] = "chdir"   -> <<"chdir", i>>>>

NotFound(k) == IF k[1] = "linknew" THEN BadLink(k[2]) ELSE << >>

\* namex() with the elements that are left, from the inode i.
Namex(i, elems, parent, k) ==
  IF elems # << >> THEN <<<<"lock", i>>, <<"look", i, elems, parent, k>>>>
  ELSE IF parent THEN Put(i) \o NotFound(k) ELSE Found(k, i, "")

\* The body of its loop.
Look(p) ==
  /\ At(p, "look")
  /\ LET i      == Arg(p, 2)
         elems  == Arg(p, 3)
         parent == Arg(p, 4)
         k      == Arg(p, 5)
         last   == parent /\ Len(elems) = 1
         next   == Entry(i, Head(elems))
     IN  IF inode[i].type # "dir" \/ (~last /\ next = 0)
         THEN Then(p, UnlockPut(i) \o NotFound(k)) /\ UNCHANGED <<icache, panic>>
         ELSE IF last
         THEN Then(p, <<<<"unlock", i>>>> \o Found(k, i, Head(elems))) /\ UNCHANGED <<icache, panic>>
         ELSE /\ icache' = Iget(next)
              /\ panic' = IF IgetFails(next) THEN "iget: no inodes" ELSE panic
              /\ Then(p, UnlockPut(i) \o Namex(next, Tail(elems), parent, k))
  /\ UNCHANGED <<inode, bitmap, cwd, file, stray>>

\* namei() or nameiparent() of a path, from the root or the current directory.
NamexStarts(p, path, parent, k) ==
  LET i == IF path[1] THEN ROOTINO ELSE cwd[p]
  IN  /\ icache' = Iget(i)
      /\ panic' = IF IgetFails(i) THEN "iget: no inodes" ELSE panic
      /\ todo' = [todo EXCEPT ![p] = Namex(i, path[2], parent, k)]
      /\ UNCHANGED <<inode, bitmap, cwd, file, stray>>

\* The calls that take a path.
Unlink(p, path) == Calls(p) /\ NamexStarts(p, path, TRUE, <<"unlink">>)
Mkdir(p, path)  == Calls(p) /\ NamexStarts(p, path, TRUE, <<"create", "dir">>)
Creat(p, path)  == Calls(p) /\ file[p] = 0 /\ NamexStarts(p, path, TRUE, <<"create", "file">>)
Open(p, path)   == Calls(p) /\ file[p] = 0 /\ NamexStarts(p, path, FALSE, <<"open">>)
Chdir(p, path)  == Calls(p) /\ NamexStarts(p, path, FALSE, <<"chdir">>)
Link(p, old, new) == Calls(p) /\ NamexStarts(p, old, FALSE, <<"link", new>>)

-----------------------------------------------------------------------------
IsDirEmpty(i) == inode[i].ents = NoEntries

\* sys_unlink(), with the parent locked.
UnlinkLooks(p) ==
  /\ At(p, "unlink")
  /\ LET dp == Arg(p, 2)
         n  == Arg(p, 3)
     IN  IF n \in {".", ".."} \/ Entry(dp, n) = 0
         THEN Then(p, UnlockPut(dp)) /\ UNCHANGED <<icache, panic>>
         ELSE /\ icache' = Iget(Entry(dp, n))
              /\ panic' = IF IgetFails(Entry(dp, n)) THEN "iget: no inodes" ELSE panic
              /\ Then(p, <<<<"lock", Entry(dp, n)>>, <<"remove", dp, n, Entry(dp, n)>>>>)
  /\ UNCHANGED <<inode, bitmap, cwd, file, stray>>

\* Mutant of MayRemove: directories are removed with what is in them.
MayRemoveAny(i) == TRUE

MayRemove(i) == inode[i].type = "dir" => IsDirEmpty(i)

\* sys_unlink(), with both locked: the entry goes, and then the link.
UnlinkRemoves(p) ==
  /\ At(p, "remove")
  /\ LET dp == Arg(p, 2)
         n  == Arg(p, 3)
         ip == Arg(p, 4)
     IN  IF ~MayRemove(ip)
         THEN Then(p, UnlockPut(ip) \o UnlockPut(dp)) /\ UNCHANGED <<inode, panic>>
         ELSE /\ inode' = [inode EXCEPT ![dp].ents[n] = 0,
                                        ![dp].nlink = @ - IF inode[ip].type = "dir" THEN 1 ELSE 0]
              /\ panic' = IF inode[ip].nlink < 1 THEN "unlink: nlink < 1" ELSE panic
              /\ Then(p, UnlockPut(dp) \o <<<<"nlink--", ip>>>> \o UnlockPut(ip))
  /\ UNCHANGED <<icache, bitmap, cwd, file, stray>>

NlinkLess(p) ==
  /\ At(p, "nlink--")
  /\ inode' = [inode EXCEPT ![Arg(p, 2)].nlink = @ - 1]
  /\ Then(p, << >>)
  /\ UNCHANGED <<icache, bitmap, cwd, file, panic, stray>>

\* Mutant of FindParent: the old inode stays locked.
FindParentLocked(ip, new) == <<<<"newname", ip, new>>>>

\* sys_link() unlocks the old inode before it looks for the new parent.
FindParent(ip, new) == <<<<"unlock", ip>>, <<"newname", ip, new>>>>

\* sys_link(), with the old inode locked, and then its nameiparent().
LinkCounts(p) ==
  /\ At(p, "link")
  /\ LET ip == Arg(p, 2)
     IN  IF inode[ip].type = "dir" THEN Then(p, UnlockPut(ip)) /\ UNCHANGED inode
         ELSE /\ inode' = [inode EXCEPT ![ip].nlink = @ + 1]
              /\ Then(p, FindParent(ip, Arg(p, 3)))
  /\ UNCHANGED <<icache, bitmap, cwd, file, panic, stray>>

LinkNames(p) == At(p, "newname") /\ NamexStarts(p, Arg(p, 3), TRUE, <<"linknew", Arg(p, 2)>>)

(* sys_link(), with the new parent locked: dirlink().  If the name is taken,  *)
(* dirlink() puts the inode it belongs to while the parent is locked.         *)
DirLink(p) ==
  /\ At(p, "dirlink")
  /\ LET dp == Arg(p, 2)
         n  == Arg(p, 3)
         ip == Arg(p, 4)
         e  == Entry(dp, n)
     IN  IF e # 0
         THEN /\ icache' = Iget(e)
              /\ panic' = IF IgetFails(e) THEN "iget: no inodes" ELSE panic
              /\ Then(p, Put(e) \o UnlockPut(dp) \o BadLink(ip))
              /\ UNCHANGED <<inode, stray>>
         ELSE /\ inode' = [inode EXCEPT ![dp].ents[n] = ip]
              /\ stray' = (stray \/ inode[dp].nlink = 0)
              /\ Then(p, UnlockPut(dp) \o Put(ip))
              /\ UNCHANGED <<icache, panic>>
  /\ UNCHANGED <<bitmap, cwd, file>>

FreeInodes == {i \in Inums : inode[i].type = "none"}

\* Mutant of FreeBlocks: balloc() looks at the bit of the next block.
FreeBlocksNextBit == {b \in Blocks : b + 1 \notin bitmap}

FreeBlocks == {b \in Blocks : b \notin bitmap}

\* create(), with the parent locked: the name exists, or ialloc().
CreateLooks(p) ==
  /\ At(p, "create")
  /\ LET dp   == Arg(p, 2)
         n    == Arg(p, 3)
         type == Arg(p, 4)
         e    == Entry(dp, n)
         ip   == IF e # 0 THEN e ELSE Min(FreeInodes)
     IN  IF e = 0 /\ FreeInodes = {}
         THEN panic' = "ialloc: no inodes" /\ UNCHANGED <<inode, icache, todo>>
         ELSE /\ icache' = Iget(ip)
              /\ panic' = IF IgetFails(ip) THEN "iget: no inodes" ELSE panic
              /\ IF e # 0
                 THEN /\ Then(p, UnlockPut(dp) \o <<<<"lock", e>>, <<"exists", e, type>>>>)
                      /\ UNCHANGED inode
                 ELSE /\ Then(p, <<<<"lock", ip>>, <<"fill", dp, n, ip, type>>>>)
                      /\ inode' = [inode EXCEPT ![ip].type = type]
  /\ UNCHANGED <<bitmap, cwd, file, stray>>

\* create() of a name that exists.
CreateExists(p) ==
  /\ At(p, "exists")
  /\ Then(p, IF Arg(p, 3) = "file" /\ inode[Arg(p, 2)].type = "file"
             THEN <<<<"opened", Arg(p, 2)>>>> ELSE UnlockPut(Arg(p, 2)))
  /\ UNCHANGED <<inode, icache, bitmap, cwd, file, panic, stray>>

\* The rest of create(), with parent and child locked.
CreateFills(p) ==
  /\ At(p, "fill")
  /\ LET dp  == Arg(p, 2)
         n   == Arg(p, 3)
         ip  == Arg(p, 4)
         dir == Arg(p, 5) = "dir"
         b   == Min(FreeBlocks)
     IN  IF dir /\ FreeBlocks = {}
         THEN panic' = "balloc: out of blocks" /\ UNCHANGED <<inode, bitmap, todo, stray>>
         ELSE /\ inode' = [inode EXCEPT
                   ![ip].nlink = 1, ![ip].up = IF dir THEN dp ELSE 0,
                   ![ip].addrs = IF dir THEN <<b>> ELSE << >>,
                   ![dp].nlink = @ + (IF dir THEN 1 ELSE 0), ![dp].ents[n] = ip]
              /\ bitmap' = IF dir THEN bitmap \union {b} ELSE bitmap
              /\ stray' = (stray \/ inode[dp].nlink = 0)
              /\ Then(p, UnlockPut(dp) \o IF dir THEN UnlockPut(ip) ELSE <<<<"opened", ip>>>>)
              /\ UNCHANGED panic
  /\ UNCHANGED <<icache, cwd, file>>

\* sys_open(), with the inode locked: it gets a file, or there is none left.
Opened(p) ==
  /\ At(p, "opened")
  /\ \/ Then(p, <<<<"unlock", Arg(p, 2)>>>>) /\ file' = [file EXCEPT ![p] = Arg(p, 2)]
     \/ Then(p, UnlockPut(Arg(p, 2))) /\ UNCHANGED file
  /\ UNCHANGED <<inode, icache, bitmap, cwd, panic, stray>>

\* fileclose() of the last descriptor.
Close(p) ==
  /\ Calls(p) /\ file[p] # 0
  /\ Do(p, Put(file[p]))
  /\ file' = [file EXCEPT ![p] = 0]
  /\ UNCHANGED <<inode, icache, bitmap, cwd, panic, stray>>

\* sys_chdir(), with the inode locked.
ChdirChecks(p) ==
  /\ At(p, "chdir")
  /\ LET i == Arg(p, 2)
     IN  Then(p, IF inode[i].type = "dir"
                 THEN <<<<"unlock", i>>>> \o Put(cwd[p]) \o <<<<"cwd", i>>>> ELSE UnlockPut(i))
  /\ UNCHANGED <<inode, icache, bitmap, cwd, file, panic, stray>>

ChdirEnds(p) ==
  /\ At(p, "cwd")
  /\ cwd' = [cwd EXCEPT ![p] = Arg(p, 2)]
  /\ Then(p, << >>)
  /\ UNCHANGED <<inode, icache, bitmap, file, panic, stray>>

\* filewrite(): one more block at the end of the open file.
Write(p) ==
  /\ Calls(p) /\ file[p] # 0 /\ inode[file[p]].type = "file"
  /\ Do(p, <<<<"lock", file[p]>>, <<"writei", file[p]>>, <<"unlock", file[p]>>>>)
  /\ UNCHANGED <<inode, icache, bitmap, cwd, file, panic, stray>>

(* bmap() of the block after the last one: the indirect block is allocated    *)
(* before the first block that it lists.                                      *)
Bmap(i) ==
  LET ind == Len(inode[i].addrs) >= NDIRECT /\ inode[i].ind = 0
      b1  == Min(FreeBlocks)
      b2  == IF ind THEN Min(FreeBlocks \ {b1}) ELSE b1
  IN  IF Cardinality(FreeBlocks) < (IF ind THEN 2 ELSE 1)
      THEN panic' = "balloc: out of blocks" /\ UNCHANGED <<inode, bitmap>>
      ELSE /\ inode' = [inode EXCEPT ![i].addrs = Append(@, b2), ![i].ind = IF ind THEN b1 ELSE @]
           /\ bitmap' = bitmap \union {b1, b2}
           /\ UNCHANGED panic

\* writei() at the end of a file; one of full size is left alone.
Writei(p) ==
  /\ At(p, "writei")
  /\ IF Len(inode[Arg(p, 2)].addrs) < NDIRECT + NINDIRECT THEN Bmap(Arg(p, 2))
     ELSE UNCHANGED <<inode, bitmap, panic>>
  /\ Then(p, << >>)
  /\ UNCHANGED <<icache, cwd, file, stray>>

-----------------------------------------------------------------------------
Call(p) ==
  \/ \E path \in Paths : \/ Unlink(p, path) \/ Mkdir(p, path) \/ Creat(p, path)
                         \/ Open(p, path) \/ Chdir(p, path)
  \/ \E old \in Paths, new \in Paths : Link(p, old, new)
  \/ Close(p) \/ Write(p)

Step(p) ==
  \/ Ilock(p) \/ Iunlock(p) \/ Iput(p) \/ IputDrops(p) \/ Look(p)
  \/ UnlinkLooks(p) \/ UnlinkRemoves(p) \/ NlinkLess(p)
  \/ LinkCounts(p) \/ LinkNames(p) \/ DirLink(p)
  \/ CreateLooks(p) \/ CreateExists(p) \/ CreateFills(p)
  \/ Opened(p) \/ ChdirChecks(p) \/ ChdirEnds(p) \/ Writei(p)

Continue(p) == Step(p) /\ UNCHANGED calls

\* panic(): the machine has stopped.
Halted == panic # "no" /\ UNCHANGED vars

Next == Halted \/ \E p \in Procs : Call(p) \/ Continue(p)

Spec == Init /\ [][Next]_vars
-----------------------------------------------------------------------------
(* The file system stops only for want of inodes, blocks or cache entries:    *)
(* no call reaches a freed inode, takes away a link that is not there or      *)
(* frees a block twice (fs.c:91, 295, 311 and sysfile.c:260), whatever runs   *)
(* between its steps.  For paths without "..": the ".." of a directory that   *)
(* was removed before its parent names an inode that may have been freed.      *)
OnlyRunsOut == panic \in {"no", "iget: no inodes", "ialloc: no inodes", "balloc: out of blocks"}

Dirs == {i \in Inums : inode[i].type = "dir"}

\* The names of i.
Named(i) == {<<d, n>> \in Dirs \X Names : inode[d].ents[n] = i}

\* The links of i: its names, and ".." of the root and of directories with a name.
Links(i) ==
  Cardinality(Named(i))
  + Cardinality({d \in Dirs : inode[d].up = i /\ (d = ROOTINO \/ Named(d) # {})})

(* Every entry of a directory refers to an allocated inode that counts it:    *)
(* nlink never falls below the number of entries, so that no file is freed    *)
(* while it has a name (fs.c:336).  When no call is under way, which is how a *)
(* crash leaves the disk, the count is exact, unless an entry was made in a   *)
(* directory that had been removed.                                           *)
EntriesCounted ==
  /\ \A d \in Dirs, n \in Names : LET i == inode[d].ents[n] IN i # 0 => inode[i].type # "none"
  /\ \A i \in Inums : inode[i].nlink >= Links(i)
  /\ (panic = "no" /\ ~stray /\ \A p \in Procs : todo[p] = << >>)
       => \A i \in Inums : inode[i].nlink = Links(i)

(* A block belongs to one place of one inode, and the bitmap has exactly the  *)
(* blocks that belong to some: none is lost or given out twice.               *)
BlocksOwnedOnce ==
  /\ bitmap = UNION {Owned(i) : i \in Inums}
  /\ \A i, j \in Inums : i # j => Owned(i) \intersect Owned(j) = {}
  /\ \A i \in Inums : Cardinality(Owned(i)) = Len(inode[i].addrs) + IF inode[i].ind = 0 THEN 0 ELSE 1

\* p waits in a step of these kinds for a lock that q has.
WaitsFor(p, q, kinds) ==
  todo[p] # << >> /\ Head(todo[p])[1] \in kinds /\ icache[Head(todo[p])[2]].lock = q

(* The calls of ilock() are in order, parents before children: with these     *)
(* alone, nobody waits for himself or for one who waits for him               *)
(* (sysfile.c:257 and 312).                                                   *)
IlocksOrdered == \A p, q \in Procs : ~(WaitsFor(p, q, {"lock"}) /\ WaitsFor(q, p, {"lock"}))

(* The comment at fs.c:150, "The separation also helps avoid deadlock": no    *)
(* process waits for an inode lock of another that waits for one of its own,  *)
(* in ilock() or in iput().                                                   *)
NoLockCycle ==
  \A p, q \in Procs : ~(WaitsFor(p, q, {"lock", "put"}) /\ WaitsFor(q, p, {"lock", "put"}))

(* The comment at fs.c:119, "iput() frees if the reference and link counts    *)
(* have fallen to zero": no inode stays allocated without references and      *)
(* links.                                                                     *)
LastPutFrees ==
  \A i \in Inums : inode[i].type # "none" => inode[i].nlink > 0 \/ icache[i].ref > 0
=============================================================================
