-------------------------------- MODULE Log --------------------------------
(* The file system log: log.c, with the disk and the part of the buffer       *)
(* cache that decides whether a modified block can be lost.                   *)
(*                                                                            *)
(* A step is a critical section of log.lock or one write of a block to the    *)
(* disk (a block is one sector, so a write happens or does not).  The machine *)
(* may crash between any two steps, during recovery as well.                  *)
EXTENDS Naturals, Sequences, FiniteSets

CONSTANTS
  Blocks,        \* home blocks of the file system
  Vals,          \* contents of a block
  Ops,           \* processes that make file system calls
  MAXOPBLOCKS,   \* blocks a file system call may write
  LOGSIZE,       \* entries of struct logheader
  SIZE,          \* log.size: blocks of the log on disk, the header included
  NULL

ASSUME LogAssumption ==
  /\ MAXOPBLOCKS \in Nat \ {0} /\ LOGSIZE \in Nat /\ SIZE \in Nat \ {0}
  /\ MAXOPBLOCKS <= LOGSIZE
  /\ NULL \notin Blocks /\ NULL \notin Vals
  /\ IsFiniteSet(Ops)

VARIABLES
  home, logblk, head,          \* on disk: home blocks, log blocks, log header
  lh, outstanding, committing, \* struct log
  cache, dirty,                \* buffers in memory, those with B_DIRTY
  phase, tail,                 \* where commit() or recover_from_log() is
  op,                          \* where each process is
  target,                      \* the buffer it holds for log_write()
  wrote,                       \* the blocks its call has written
  panic

disk == <<home, logblk, head>>
memory == <<lh, outstanding, committing, cache, dirty>>
vars == <<disk, memory, phase, tail, op, target, wrote, panic>>

TypeOK ==
  /\ home \in [Blocks -> Vals]
  /\ logblk \in [1..LOGSIZE -> Vals]
  /\ head \in Seq(Blocks) /\ lh \in Seq(Blocks)
  /\ outstanding \in Nat
  /\ committing \in BOOLEAN
  /\ cache \in [Blocks -> Vals \cup {NULL}]
  /\ dirty \subseteq Blocks
  /\ phase \in {"boot", "idle", "write_log", "install", "finish"}
  /\ tail \in Nat /\ tail > 0
  /\ op \in [Ops -> {"idle", "asleep", "active", "commit"}]
  /\ target \in [Ops -> Blocks \cup {NULL}]
  /\ wrote \in [Ops -> SUBSET Blocks]
  /\ panic \in {"none", "too_big", "committing"}

Logged == {lh[i] : i \in 1..Len(lh)}

\* bread(): the buffer, or the block on disk if no buffer holds it.
Data(b) == IF cache[b] = NULL THEN home[b] ELSE cache[b]

\* The system is up and past initlog().
Up == panic = "none" /\ (phase = "idle" \/ committing)

Init ==
  /\ \E v \in Vals : home = [b \in Blocks |-> v] /\ logblk = [i \in 1..LOGSIZE |-> v]
  /\ head = << >> /\ lh = << >>
  /\ outstanding = 0 /\ committing = FALSE
  /\ cache = [b \in Blocks |-> NULL] /\ dirty = {}
  /\ phase = "boot" /\ tail = 1
  /\ op = [o \in Ops |-> "idle"]
  /\ target = [o \in Ops |-> NULL]
  /\ wrote = [o \in Ops |-> {}]
  /\ panic = "none"

(* ------------------------- file system calls ---------------------------- *)

\* Mutant of HasRoom: the call that asks is not counted.
HasRoomForOthers == Len(lh) + outstanding * MAXOPBLOCKS <= LOGSIZE

HasRoom == Len(lh) + (outstanding + 1) * MAXOPBLOCKS <= LOGSIZE

\* Mutant of MayBegin: a call may start while the log is being committed.
MayBeginAnyTime == HasRoom

MayBegin == ~committing /\ HasRoom

Counted == outstanding + 1

\* Once round the loop of begin_op(): on arrival, or when woken.
BeginOp(o) ==
  /\ Up
  /\ op[o] = "idle"
  /\ IF MayBegin
     THEN outstanding' = Counted /\ op' = [op EXCEPT ![o] = "active"]
     ELSE op' = [op EXCEPT ![o] = "asleep"] /\ UNCHANGED outstanding
  /\ UNCHANGED <<disk, lh, committing, cache, dirty, phase, tail, target, wrote, panic>>

(* log_write(b) looks at the size of the log before it takes log.lock.  The   *)
(* caller holds the buffer.  Its call writes at most MAXOPBLOCKS blocks.      *)
LogWriteChecks(o, b) ==
  /\ Up
  /\ op[o] = "active" /\ target[o] = NULL
  /\ \A r \in Ops : target[r] # b
  /\ b \in wrote[o] \/ Cardinality(wrote[o]) < MAXOPBLOCKS
  /\ panic' = IF Len(lh) >= LOGSIZE \/ Len(lh) >= SIZE - 1
              THEN "too_big" ELSE panic
  /\ target' = [target EXCEPT ![o] = b]
  /\ UNCHANGED <<disk, memory, phase, tail, op, wrote>>

\* b->flags |= B_DIRTY.
Pinned(b) == dirty \cup {b}

\* The caller's new contents v are in the buffer; its number goes into the log.
LogWrite(o, v) ==
  LET b == target[o] IN
  /\ Up
  /\ op[o] = "active" /\ b # NULL
  /\ cache' = [cache EXCEPT ![b] = v]
  /\ lh' = IF b \in Logged THEN lh ELSE Append(lh, b)
  /\ dirty' = Pinned(b)
  /\ wrote' = [wrote EXCEPT ![o] = @ \cup {b}]
  /\ target' = [target EXCEPT ![o] = NULL]
  /\ UNCHANGED <<disk, outstanding, committing, phase, tail, op, panic>>

\* Mutant of Woken: wakeup(&log) is forgotten.
WokenNone(o) == FALSE

\* wakeup(&log) sends whoever sleeps in begin_op() back to the top of its loop.
Woken(o) == op[o] = "asleep"

\* end_op() up to the release of the lock: the last one starts to commit.
EndOp(o) ==
  /\ Up
  /\ op[o] = "active" /\ target[o] = NULL
  /\ outstanding' = outstanding - 1
  /\ wrote' = [wrote EXCEPT ![o] = {}]
  /\ IF committing
     THEN panic' = "committing" /\ UNCHANGED <<committing, phase, tail, op>>
     ELSE /\ UNCHANGED panic
          /\ IF outstanding = 1
             THEN /\ committing' = TRUE
                  /\ phase' = IF lh = << >> THEN "finish" ELSE "write_log"
                  /\ tail' = 1
                  /\ op' = [op EXCEPT ![o] = "commit"]
             ELSE /\ op' = [r \in Ops |-> IF r = o \/ Woken(r) THEN "idle" ELSE op[r]]
                  /\ UNCHANGED <<committing, phase, tail>>
  /\ UNCHANGED <<disk, lh, cache, dirty, target>>

(* ----------------------- commit and recovery ----------------------------- *)

\* One round of write_log(): a buffer is copied to its log block.
WriteLog ==
  /\ panic = "none"
  /\ phase = "write_log" /\ tail <= Len(lh)
  /\ logblk' = [logblk EXCEPT ![tail] = Data(lh[tail])]
  /\ tail' = tail + 1
  /\ UNCHANGED <<home, head, memory, phase, op, target, wrote, panic>>

\* Mutant of LogWritten: the last block is missed.
LogWrittenEarly == tail >= Len(lh)

LogWritten == tail > Len(lh)

\* write_head(): the transaction is committed.
WriteHead ==
  /\ panic = "none"
  /\ phase = "write_log" /\ LogWritten
  /\ head' = lh
  /\ phase' = "install" /\ tail' = 1
  /\ UNCHANGED <<home, logblk, memory, op, target, wrote, panic>>

\* recover_from_log() starts: read_head().
ReadHead ==
  /\ panic = "none"
  /\ phase = "boot"
  /\ lh' = head
  /\ phase' = "install" /\ tail' = 1
  /\ UNCHANGED <<disk, outstanding, committing, cache, dirty, op, target, wrote, panic>>

\* One round of install_trans(): a log block is copied to its home.
InstallTrans ==
  LET b == lh[tail] IN
  /\ panic = "none"
  /\ phase = "install" /\ tail <= Len(lh)
  /\ home' = [home EXCEPT ![b] = logblk[tail]]
  /\ cache' = [cache EXCEPT ![b] = logblk[tail]]
  /\ dirty' = dirty \ {b}
  /\ tail' = tail + 1
  /\ UNCHANGED <<logblk, head, lh, outstanding, committing, phase, op, target, wrote, panic>>

\* log.lh.n = 0; write_head(): the transaction is erased.
EraseHead ==
  /\ panic = "none"
  /\ phase = "install" /\ tail > Len(lh)
  /\ lh' = << >> /\ head' = << >>
  /\ phase' = IF committing THEN "finish" ELSE "idle"
  /\ UNCHANGED <<home, logblk, outstanding, committing, cache, dirty, tail, op, target, wrote, panic>>

\* The rest of end_op().
FinishCommit ==
  /\ panic = "none"
  /\ phase = "finish"
  /\ committing' = FALSE
  /\ phase' = "idle"
  /\ op' = [r \in Ops |-> IF op[r] = "commit" \/ Woken(r) THEN "idle" ELSE op[r]]
  /\ UNCHANGED <<disk, lh, outstanding, cache, dirty, tail, target, wrote, panic>>

(* ---------------------- buffers and the machine -------------------------- *)

\* Somebody reads a block that no buffer holds.
Read(b) ==
  /\ Up
  /\ cache[b] = NULL
  /\ cache' = [cache EXCEPT ![b] = home[b]]
  /\ UNCHANGED <<disk, lh, outstanding, committing, dirty, phase, tail, op, target, wrote, panic>>

\* bget() recycles a buffer that nobody holds and that is not B_DIRTY.
Evict(b) ==
  /\ Up
  /\ cache[b] # NULL
  /\ b \notin dirty
  /\ \A o \in Ops : target[o] # b
  /\ cache' = [cache EXCEPT ![b] = NULL]
  /\ UNCHANGED <<disk, lh, outstanding, committing, dirty, phase, tail, op, target, wrote, panic>>

\* Power is lost, or a machine that has panicked is started again.
Crash ==
  /\ lh' = << >>
  /\ outstanding' = 0 /\ committing' = FALSE
  /\ cache' = [b \in Blocks |-> NULL] /\ dirty' = {}
  /\ phase' = "boot" /\ tail' = 1
  /\ op' = [o \in Ops |-> "idle"]
  /\ target' = [o \in Ops |-> NULL]
  /\ wrote' = [o \in Ops |-> {}]
  /\ panic' = "none"
  /\ UNCHANGED disk

Next ==
  \/ \E o \in Ops : \/ BeginOp(o) \/ EndOp(o)
                    \/ \E b \in Blocks : LogWriteChecks(o, b)
                    \/ \E v \in Vals : LogWrite(o, v)
  \/ WriteLog \/ WriteHead \/ ReadHead \/ InstallTrans \/ EraseHead \/ FinishCommit
  \/ \E b \in Blocks : Read(b) \/ Evict(b)
  \/ Crash

Spec == Init /\ [][Next]_vars

(* ------------------------------ properties ------------------------------- *)

\* The blocks the calls in progress may still log.
Reserved ==
  {r \in Ops \X (1..MAXOPBLOCKS) : op[r[1]] = "active" /\ r[2] > Cardinality(wrote[r[1]])}

\* What is logged and what begin_op() has promised to the calls in progress fits in
\* the header, so that log_write() never writes past log.lh.block, not even when
\* several pass its unlocked test at once.
SpaceReserved == Len(lh) + Cardinality(Reserved) <= LOGSIZE

\* end_op() never finds a commit going on: no call starts during one.
NoEndDuringCommit == panic # "committing"

\* Whoever sleeps in begin_op() has a call in progress or a commit to wake it.
SleepersWoken ==
  panic = "none" => \A o \in Ops : op[o] = "asleep" => committing \/ outstanding > 0

\* The transaction in the log is committed once the header on disk names it.
Durable ==
  [b \in Blocks |-> LET at == {i \in 1..Len(head) : head[i] = b}
                    IN  IF at = {} THEN home[b] ELSE logblk[CHOOSE i \in at : TRUE]]

Abstract == INSTANCE Transactions WITH
  durable <- Durable,
  current <- IF Up \/ panic # "none" THEN [b \in Blocks |-> Data(b)] ELSE Durable,
  active  <- {o \in Ops : op[o] = "active"}

\* The log makes overlapping calls atomic: whatever the moment of a crash, also in
\* commit() or in recover_from_log(), the disk comes up with the state after the last
\* commit, and a commit takes in whole calls only.
ImplementsTransactions == Abstract!Spec

(* -------------- what a comment says and the code does not do ------------- *)

\* param.h:11 "max data blocks in on-disk log": the transaction fits in the log
\* blocks on the disk.
FitsOnDisk == Len(lh) <= SIZE - 1
=============================================================================
