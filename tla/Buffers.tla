------------------------------- MODULE Buffers -------------------------------
(* The buffer cache (bio.c), the sleeping lock of each buffer (sleeplock.c)   *)
(* and the disk driver with its queue and interrupt (ide.c).                  *)
(*                                                                            *)
(* A step is what is done under one spin lock.  The processes stand for the   *)
(* file system and the log above the cache: they read a block, and while they *)
(* hold its buffer they may change and write it (as write_log does), or mark  *)
(* it dirty and leave the writing for later (log_write).  The log keeps at    *)
(* most MaxPinned buffers in that state.                                      *)
EXTENDS Naturals, Sequences, FiniteSets

CONSTANTS
  Procs,       \* processes
  NBUF,        \* buffers
  Blocks,      \* blocks of the disk
  Values,      \* what a block may contain
  MaxPinned,   \* blocks a transaction of the log keeps in the cache
  NONE         \* no block, no process

ASSUME BuffersAssumption ==
  /\ NBUF \in Nat \ {0} /\ MaxPinned \in Nat /\ IsFiniteSet(Procs)
  /\ NONE \notin Procs /\ NONE \notin Blocks
  /\ \A c \in [blockno : Blocks, write : BOOLEAN, data : Values] : c # NONE

VARIABLES
  buf,         \* the buffers
  lru,         \* the list of buffers, the most recently used first
  idequeue,    \* the buffers waiting for the disk, the active one first
  command,     \* what the controller was last told to do, or NONE
  disk,        \* the contents of the disk
  proc,        \* what each process does and with which buffer
  asleep,      \* the processes asleep, in acquiresleep() or iderw()
  panicked,    \* bget() found no buffer
  truth,       \* history: the last contents given to each block
  failed       \* history: blocks a read of which ended in a disk error

vars == <<buf, lru, idequeue, command, disk, proc, asleep, panicked, truth, failed>>
hist == <<truth, failed>>

Bufs == 1..NBUF

Steps == {"idle", "lock", "start", "wait", "hold", "release"}

TypeOK ==
  /\ buf \in [Bufs -> [blockno : Blocks \union {NONE}, valid : BOOLEAN, dirty : BOOLEAN,
                       refcnt : Nat, locked : Procs \union {NONE}, data : Values]]
  /\ lru \in [Bufs -> Bufs] /\ idequeue \in Seq(Bufs)
  /\ disk \in [Blocks -> Values] /\ truth \in [Blocks -> Values]
  /\ proc \in [Procs -> [step : Steps, b : Bufs, want : Blocks \union {NONE}]]
  /\ asleep \subseteq Procs /\ failed \subseteq Blocks /\ panicked \in BOOLEAN

\* binit() puts every buffer in front of those before it.
Init ==
  /\ \E v \in Values : disk = [k \in Blocks |-> v]
  /\ truth = disk
  /\ buf = [b \in Bufs |-> [blockno |-> NONE, valid |-> FALSE, dirty |-> FALSE, refcnt |-> 0,
                            locked |-> NONE, data |-> CHOOSE v \in Values : TRUE]]
  /\ lru = [i \in Bufs |-> NBUF + 1 - i]
  /\ idequeue = << >> /\ command = NONE
  /\ proc = [p \in Procs |-> [step |-> "idle", b |-> 1, want |-> NONE]]
  /\ asleep = {} /\ failed = {} /\ panicked = FALSE

-----------------------------------------------------------------------------
Goes(p, step) == proc' = [proc EXCEPT ![p].step = step]

\* What is done next by p, which is not asleep, is this step.
At(p, step) == proc[p].step = step /\ p \notin asleep

Pinned == {b \in Bufs : buf[b].dirty}

\* wakeup(): those that sleep in this step on this buffer.
Woken(step, b) == {p \in asleep : proc[p].step = step /\ proc[p].b = b}

\* Mutants of Recyclable: a dirty buffer is taken too, or one in use.
RecyclableDirty(b) == buf[b].refcnt = 0
RecyclableInUse(b) == ~buf[b].dirty

\* bget() may recycle b.
Recyclable(b) == buf[b].refcnt = 0 /\ ~buf[b].dirty

Cached(k) == {b \in Bufs : buf[b].blockno = k}

\* bget(), under bcache.lock: the block is cached.
BgetHit(p, k) ==
  /\ At(p, "idle")
  /\ \E i \in Bufs :
       /\ lru[i] \in Cached(k) /\ \A j \in 1..(i - 1) : lru[j] \notin Cached(k)
       /\ buf' = [buf EXCEPT ![lru[i]].refcnt = @ + 1]
       /\ proc' = [proc EXCEPT ![p] = [step |-> "lock", b |-> lru[i], want |-> k]]
  /\ UNCHANGED <<lru, idequeue, command, disk, asleep, panicked, hist>>

\* It is not: the least recently used buffer that is free is recycled.
BgetMiss(p, k) ==
  /\ At(p, "idle") /\ Cached(k) = {}
  /\ \E i \in Bufs :
       /\ Recyclable(lru[i]) /\ \A j \in (i + 1)..NBUF : ~Recyclable(lru[j])
       /\ buf' = [buf EXCEPT ![lru[i]].blockno = k, ![lru[i]].valid = FALSE,
                             ![lru[i]].dirty = FALSE, ![lru[i]].refcnt = 1]
       /\ proc' = [proc EXCEPT ![p] = [step |-> "lock", b |-> lru[i], want |-> k]]
  /\ UNCHANGED <<lru, idequeue, command, disk, asleep, panicked, hist>>

\* There is none.
BgetPanics(p, k) ==
  /\ At(p, "idle") /\ Cached(k) = {}
  /\ \A i \in Bufs : ~Recyclable(lru[i])
  /\ panicked' = TRUE
  /\ UNCHANGED <<buf, lru, idequeue, command, disk, proc, asleep, hist>>

\* What bread() does with the buffer: it asks the disk for contents it has not.
Bread(b) == IF buf[b].valid THEN "hold" ELSE "start"

\* acquiresleep(): sleep while the lock is taken.
AcquireSleep(p) ==
  /\ At(p, "lock")
  /\ LET b == proc[p].b
     IN  IF buf[b].locked # NONE
         THEN asleep' = asleep \union {p} /\ UNCHANGED <<buf, proc>>
         ELSE /\ buf' = [buf EXCEPT ![b].locked = p]
              /\ Goes(p, Bread(b))
              /\ UNCHANGED asleep
  /\ UNCHANGED <<lru, idequeue, command, disk, panicked, hist>>

\* idestart(): a write takes the data with the command.
IdeStart(b) == [blockno |-> buf[b].blockno, write |-> buf[b].dirty, data |-> buf[b].data]

\* iderw(), to the first sleep().
Iderw(p) ==
  /\ At(p, "start")
  /\ idequeue' = Append(idequeue, proc[p].b)
  /\ command' = IF idequeue = << >> THEN IdeStart(proc[p].b) ELSE command
  /\ Goes(p, "wait")
  /\ asleep' = asleep \union {p}
  /\ UNCHANGED <<buf, lru, disk, panicked, hist>>

\* iderw(): the request is finished.
Finished(b) == buf[b].valid /\ ~buf[b].dirty

\* The loop of iderw(), when the process has been woken.
IderwWoken(p) ==
  /\ At(p, "wait")
  /\ IF Finished(proc[p].b) THEN Goes(p, "hold") /\ UNCHANGED asleep
                            ELSE asleep' = asleep \union {p} /\ UNCHANGED proc
  /\ UNCHANGED <<buf, lru, idequeue, command, disk, panicked, hist>>

\* Mutant of NextCommand: the controller is left idle.
NextCommandNone(q) == NONE

\* ideintr() starts the next request, if any.
NextCommand(q) == IF q = << >> THEN NONE ELSE IdeStart(Head(q))

(* The disk carries out the command and interrupts: ideintr().  If a read has *)
(* failed, the data of the buffer are left alone, but it becomes valid.       *)
IdeIntr(error) ==
  /\ command # NONE /\ idequeue # << >>
  /\ LET b == Head(idequeue)
         k == command.blockno
         read == ~buf[b].dirty
     IN  /\ error => read
         /\ disk' = IF command.write THEN [disk EXCEPT ![k] = command.data] ELSE disk
         /\ buf' = [buf EXCEPT ![b].valid = TRUE, ![b].dirty = FALSE,
                               ![b].data = IF read /\ ~error THEN disk[k] ELSE @]
         /\ failed' = IF error THEN failed \union {k} ELSE failed
         /\ asleep' = asleep \ Woken("wait", b)
         /\ idequeue' = Tail(idequeue)
         /\ command' = NextCommand(Tail(idequeue))
  /\ UNCHANGED <<lru, proc, panicked, truth>>

Changed(p, v) == /\ buf' = [buf EXCEPT ![proc[p].b].data = v, ![proc[p].b].dirty = TRUE]
                 /\ truth' = [truth EXCEPT ![proc[p].want] = v]

\* The holder changes the block, or not, and writes it: bwrite().
Bwrite(p, v) ==
  /\ At(p, "hold")
  /\ Changed(p, v)
  /\ Goes(p, "start")
  /\ UNCHANGED <<lru, idequeue, command, disk, asleep, panicked, failed>>

\* The holder changes the block and leaves it to the log: log_write().
LogWrite(p, v) ==
  /\ At(p, "hold") /\ Cardinality(Pinned \union {proc[p].b}) <= MaxPinned
  /\ Changed(p, v)
  /\ UNCHANGED <<lru, idequeue, command, disk, proc, asleep, panicked, failed>>

\* brelse(): releasesleep().
Brelse(p) ==
  /\ At(p, "hold")
  /\ buf' = [buf EXCEPT ![proc[p].b].locked = NONE]
  /\ asleep' = asleep \ Woken("lock", proc[p].b)
  /\ Goes(p, "release")
  /\ UNCHANGED <<lru, idequeue, command, disk, panicked, hist>>

\* Mutant of Unreferenced: the reference is kept.
UnreferencedNot(b) == buf

Unreferenced(b) == [buf EXCEPT ![b].refcnt = @ - 1]

\* The list with b at its front.
MoveToFront(b) ==
  LET at == CHOOSE i \in Bufs : lru[i] = b
  IN  [i \in Bufs |-> IF i = 1 THEN b ELSE IF i <= at THEN lru[i - 1] ELSE lru[i]]

\* brelse(), under bcache.lock: an unused buffer goes to the front of the list.
BrelseEnds(p) ==
  /\ At(p, "release")
  /\ LET b == proc[p].b
     IN  /\ buf' = Unreferenced(b)
         /\ lru' = IF buf'[b].refcnt = 0 THEN MoveToFront(b) ELSE lru
  /\ proc' = [proc EXCEPT ![p] = [step |-> "idle", b |-> 1, want |-> NONE]]
  /\ UNCHANGED <<idequeue, command, disk, asleep, panicked, hist>>

\* kill() makes a process runnable whatever it sleeps for.
Kill(p) ==
  /\ p \in asleep
  /\ asleep' = asleep \ {p}
  /\ UNCHANGED <<buf, lru, idequeue, command, disk, proc, panicked, hist>>

Step(p) ==
  \/ AcquireSleep(p) \/ Iderw(p) \/ IderwWoken(p) \/ Brelse(p) \/ BrelseEnds(p)
  \/ \E k \in Blocks : BgetHit(p, k) \/ BgetMiss(p, k) \/ BgetPanics(p, k)
  \/ \E v \in Values : Bwrite(p, v) \/ LogWrite(p, v)

\* panic(): the machine has stopped.
Halted == panicked /\ UNCHANGED vars

Next ==
  \/ ~panicked /\ \E p \in Procs : Step(p) \/ Kill(p)
  \/ ~panicked /\ \E error \in BOOLEAN : IdeIntr(error)
  \/ Halted

Spec == Init /\ [][Next]_vars
-----------------------------------------------------------------------------
(* A block has one buffer, and a process that has asked for a block keeps its *)
(* buffer, alone once it has the lock: nobody recycles it in between.         *)
OneBufferPerBlock ==
  /\ \A k \in Blocks : Cardinality(Cached(k)) <= 1
  /\ \A p \in Procs : proc[p].step # "idle" => buf[proc[p].b].blockno = proc[p].want
  /\ \A p, q \in Procs : /\ p # q /\ proc[p].b = proc[q].b
                         /\ {proc[p].step, proc[q].step} \subseteq {"start", "wait", "hold"}
                         => FALSE

(* bread() returns the contents last given to the block, wherever they are:   *)
(* in the cache, in a request under way or on the disk (bio.c:97, ide.c:104). *)
(* Blocks that met a disk error are excepted, since ideintr() takes whatever  *)
(* was in the buffer for the contents.                                        *)
ReadsLastWrite ==
  \A k \in Blocks \ failed :
    /\ \A b \in Cached(k) : buf[b].valid => buf[b].data = truth[k]
    /\ (\A b \in Cached(k) : ~buf[b].valid) => disk[k] = truth[k]

(* Whoever sleeps is going to be woken: for a lock by its holder, for the     *)
(* disk by the interrupt of a request that is queued, and the controller is   *)
(* busy with the first one (ide.c:104 and 158, sleeplock.c:26).               *)
SleepersHaveWaker ==
  /\ \A p \in asleep :
       IF proc[p].step = "lock" THEN buf[proc[p].b].locked # NONE
       ELSE \E i \in DOMAIN idequeue : idequeue[i] = proc[p].b
  /\ IF idequeue = << >> THEN command = NONE
     ELSE command # NONE /\ command = IdeStart(Head(idequeue))

(* bget() runs out of buffers only when each one is in use by some process or *)
(* pinned by the log (bio.c:92): no reference is ever lost.  So NBUF has to   *)
(* exceed MaxPinned by the number of processes that use the cache at a time,  *)
(* which param.h does not give it: there, NBUF = LOGSIZE.                     *)
OutOfBuffersOnlyIfInUse ==
  panicked => NBUF <= Cardinality({p \in Procs : proc[p].step # "idle"}) + Cardinality(Pinned)
=============================================================================
