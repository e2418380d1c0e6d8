--------------------------- MODULE BuffersProofs ---------------------------
(* Proofs about the buffer cache and the disk queue, for any number of        *)
(* processes, buffers, blocks and contents: the inductive invariant, that     *)
(* every step keeps it, and what follows from it.                             *)
EXTENDS Buffers, FiniteSetTheorems, TLAPS

(* -------- the invariant; bget() and acquiresleep() keep it --------------- *)

\* The processes that have a reference to buffer b.
Users(b) == {p \in Procs : proc[p].step # "idle" /\ proc[p].b = b}

Busy == {"start", "wait", "hold"}

\* refcnt counts the users, who asked for the block the buffer holds.
Counted == \A b \in Bufs : buf[b].refcnt = Cardinality(Users(b))
Keeps == \A p \in Procs : proc[p].step # "idle" =>
           proc[p].want \in Blocks /\ buf[proc[p].b].blockno = proc[p].want
Unique == \A b, c \in Bufs : buf[b].blockno = buf[c].blockno => b = c \/ buf[b].blockno = NONE

\* What a process does to a buffer it does with the lock.
LockHeld == \A p \in Procs : proc[p].step \in Busy => buf[proc[p].b].locked = p

\* How far the contents are.
Filled ==
  /\ \A b \in Bufs : buf[b].dirty => buf[b].valid
  /\ \A p \in Procs : /\ proc[p].step = "hold" => buf[proc[p].b].valid
                      /\ proc[p].step = "start" => ~Finished(proc[p].b)

\* The buffers queued are those of the processes that wait for the disk.
Queued == {idequeue[i] : i \in DOMAIN idequeue}
QueueOnce == \A i, j \in DOMAIN idequeue : idequeue[i] = idequeue[j] => i = j
QueueWaits ==
  /\ \A b \in Queued : /\ ~Finished(b)
                       /\ \E p \in Procs : proc[p].step = "wait" /\ proc[p].b = b
  /\ \A p \in Procs : proc[p].step = "wait" => proc[p].b \in Queued \/ Finished(proc[p].b)

\* The contents of a clean buffer are on the disk.
CleanOnDisk ==
  \A b \in Bufs : buf[b].blockno \in Blocks \ failed /\ buf[b].valid /\ ~buf[b].dirty
                  => disk[buf[b].blockno] = truth[buf[b].blockno]

\* Who sleeps does so for a lock or for the disk.
SleepsAt == \A p \in asleep : proc[p].step \in {"lock", "wait"}

\* The two parts of SleepersHaveWaker.
Sleepers ==
  \A p \in asleep : IF proc[p].step = "lock" THEN buf[proc[p].b].locked # NONE
                    ELSE proc[p].b \in Queued
Controller ==
  IF idequeue = << >> THEN command = NONE
  ELSE command # NONE /\ command = IdeStart(Head(idequeue))

IInv ==
  /\ TypeOK /\ Counted /\ Keeps /\ Unique /\ LockHeld /\ Filled
  /\ QueueOnce /\ QueueWaits /\ CleanOnDisk /\ SleepsAt
  /\ ReadsLastWrite /\ Sleepers /\ Controller

-----------------------------------------------------------------------------
(* Facts about sets and sequences.                                            *)

\* Only finitely many processes use a buffer.
LEMMA UsersFinite == ASSUME NEW b PROVE IsFiniteSet(Users(b)) /\ Cardinality(Users(b)) \in Nat
<1>1. Users(b) \subseteq Procs
  BY DEF Users
<1>2. IsFiniteSet(Users(b))
  BY <1>1, FS_Subset, BuffersAssumption
<1> QED
  BY <1>2, FS_CardinalityType

\* A buffer without references has no users.
LEMMA NoUsers ==
  ASSUME Counted, NEW b \in Bufs, buf[b].refcnt = 0
  PROVE  \A p \in Procs : proc[p].step # "idle" => proc[p].b # b
<1>1. Cardinality(Users(b)) = 0
  BY DEF Counted
<1>2. Users(b) = {}
  BY <1>1, UsersFinite, FS_EmptySet
<1> QED
  BY <1>2 DEF Users

\* A sequence and its last element.
LEMMA AppendRange ==
  ASSUME NEW S, NEW s \in Seq(S), NEW e \in S
  PROVE  /\ Append(s, e) \in Seq(S)
         /\ DOMAIN Append(s, e) = DOMAIN s \union {Len(s) + 1}
         /\ \A i \in DOMAIN s : Append(s, e)[i] = s[i]
         /\ Append(s, e)[Len(s) + 1] = e
  OBVIOUS

\* A sequence without its first element.
LEMMA TailRange ==
  ASSUME NEW S, NEW s \in Seq(S), s # << >>
  PROVE  /\ Tail(s) \in Seq(S)
         /\ Head(s) = s[1] /\ 1 \in DOMAIN s
         /\ \A i \in DOMAIN Tail(s) : i + 1 \in DOMAIN s /\ Tail(s)[i] = s[i + 1]
         /\ \A i \in DOMAIN s : i # 1 => i - 1 \in DOMAIN Tail(s) /\ Tail(s)[i - 1] = s[i]
  OBVIOUS

\* What TypeOK says of a buffer, a process and the queue.
LEMMA Types ==
  ASSUME TypeOK
  PROVE  /\ \A b \in Bufs : buf[b].refcnt \in Nat
         /\ \A p \in Procs : proc[p].b \in Bufs
         /\ Queued \subseteq Bufs /\ asleep \subseteq Procs
<1>1. \A b \in Bufs : buf[b].refcnt \in Nat
  BY DEF TypeOK
<1>2. \A p \in Procs : proc[p].b \in Bufs
  BY DEF TypeOK
<1>3. Queued \subseteq Bufs
  BY DEF TypeOK, Queued
<1> QED
  BY <1>1, <1>2, <1>3 DEF TypeOK

\* A step of a process that does not wait for the disk, before or after it, changes
\* nothing for those that do.
LEMMA WaitersKept ==
  ASSUME TypeOK, QueueWaits, Queued' = Queued, \A c \in Bufs : Finished(c)' <=> Finished(c),
         NEW p \in Procs, proc[p].step # "wait", proc'[p].step # "wait",
         \A q \in Procs : q # p => proc'[q] = proc[q]
  PROVE  QueueWaits'
<1>1. /\ \A q \in Procs : proc[q].b \in Bufs
      /\ Queued \subseteq Bufs
  BY Types
<1>2. ASSUME NEW c \in Queued
      PROVE  ~Finished(c)' /\ \E q \in Procs : proc'[q].step = "wait" /\ proc'[q].b = c
  <2>1. PICK q \in Procs : proc[q].step = "wait" /\ proc[q].b = c
    BY DEF QueueWaits
  <2>2. proc'[q] = proc[q]
    BY <2>1
  <2>3. ~Finished(c)'
    BY <1>1 DEF QueueWaits
  <2> QED
    BY <2>1, <2>2, <2>3
<1>3. ASSUME NEW q \in Procs, proc'[q].step = "wait"
      PROVE  proc'[q].b \in Queued \/ Finished(proc[q].b)'
  <2>1. proc'[q] = proc[q]
    BY <1>3
  <2>2. proc[q].b \in Queued \/ Finished(proc[q].b)
    BY <1>3, <2>1 DEF QueueWaits
  <2>3. PICK c \in Bufs : c = proc[q].b
    BY <1>1
  <2>4. c \in Queued \/ Finished(c)'
    BY <2>2, <2>3
  <2> QED
    BY <2>1, <2>3, <2>4 DEF Finished
<1> QED
  BY <1>2, <1>3 DEF QueueWaits

\* A buffer, as TypeOK describes it.
Buf == [blockno : Blocks \union {NONE}, valid : BOOLEAN, dirty : BOOLEAN,
        refcnt : Nat, locked : Procs \union {NONE}, data : Values]

\* The command stays the right one if the queue and the buffers in it stay.
LEMMA ControllerKept ==
  ASSUME TypeOK, Controller, idequeue' = idequeue, command' = command,
         \A c \in Queued : /\ buf'[c].blockno = buf[c].blockno
                           /\ buf'[c].dirty = buf[c].dirty /\ buf'[c].data = buf[c].data
  PROVE  Controller'
<1>1. CASE idequeue = << >>
  BY <1>1 DEF Controller
<1>2. CASE idequeue # << >>
  <2>1. Head(idequeue) \in Queued
    BY <1>2, TailRange DEF TypeOK, Queued
  <2>2. IdeStart(Head(idequeue))' = IdeStart(Head(idequeue))
    BY <2>1 DEF IdeStart
  <2> QED
    BY <1>2, <2>2 DEF Controller
<1> QED
  BY <1>1, <1>2

\* A process goes on with the buffer it has.
LEMMA Moves ==
  ASSUME IInv, NEW p \in Procs, proc[p].step # "idle",
         NEW s \in Steps, s # "idle", proc' = [proc EXCEPT ![p].step = s],
         \A c \in Bufs : buf'[c].refcnt = buf[c].refcnt /\ buf'[c].blockno = buf[c].blockno
  PROVE  /\ proc' \in [Procs -> [step : Steps, b : Bufs, want : Blocks \union {NONE}]]
         /\ \A q \in Procs : q # p => proc'[q] = proc[q]
         /\ proc'[p].step = s /\ proc'[p].b = proc[p].b /\ proc'[p].want = proc[p].want
         /\ Counted' /\ Keeps' /\ Unique'
<1>1. TypeOK
  BY DEF IInv
<1>2. proc' \in [Procs -> [step : Steps, b : Bufs, want : Blocks \union {NONE}]]
  BY <1>1, Zenon DEF TypeOK
<1>3. /\ \A q \in Procs : q # p => proc'[q] = proc[q]
      /\ proc'[p].step = s /\ proc'[p].b = proc[p].b /\ proc'[p].want = proc[p].want
  BY <1>1 DEF TypeOK
<1>4. \A c \in Bufs : Users(c)' = Users(c)
  BY <1>3 DEF Users
<1>5. Counted'
  BY <1>4 DEF IInv, Counted
<1>6. Keeps'
  BY <1>1, <1>3, Types DEF IInv, Keeps
<1>7. Unique'
  BY DEF IInv, Unique
<1> QED
  BY <1>2, <1>3, <1>5, <1>6, <1>7

\* No buffer changes its block, its contents or its state, nor does the disk.
LEMMA SameContents ==
  ASSUME IInv, UNCHANGED <<disk, truth, failed>>,
         \A c \in Bufs : /\ buf'[c].blockno = buf[c].blockno /\ buf'[c].valid = buf[c].valid
                         /\ buf'[c].dirty = buf[c].dirty /\ buf'[c].data = buf[c].data
  PROVE  /\ \A c \in Bufs : Finished(c)' <=> Finished(c)
         /\ CleanOnDisk' /\ ReadsLastWrite'
<1>1. \A c \in Bufs : Finished(c)' <=> Finished(c)
  BY DEF Finished
<1>2. CleanOnDisk' /\ ReadsLastWrite'
  BY DEF IInv, CleanOnDisk, ReadsLastWrite, Cached
<1> QED
  BY <1>1, <1>2

\* Only processes fall asleep or wake up.
LEMMA OnlySleep ==
  ASSUME IInv, UNCHANGED <<buf, lru, idequeue, command, disk, proc, truth, failed>>,
         asleep' \subseteq Procs, panicked' \in BOOLEAN, SleepsAt', Sleepers'
  PROVE  IInv'
<1>1. TypeOK'
  BY DEF IInv, TypeOK
<1>2. Counted'
  BY DEF IInv, Counted, Users
<1>3. Keeps' /\ Unique' /\ LockHeld'
  BY DEF IInv, Keeps, Unique, LockHeld
<1>4. \A c \in Bufs : Finished(c)' <=> Finished(c)
  BY DEF Finished
<1>5. Filled' /\ QueueOnce' /\ QueueWaits'
  BY <1>4, Types DEF IInv, Filled, QueueOnce, QueueWaits, Queued
<1>6. CleanOnDisk' /\ ReadsLastWrite'
  BY SameContents
<1>7. Controller'
  BY ControllerKept DEF IInv
<1> QED
  BY <1>1, <1>2, <1>3, <1>5, <1>6, <1>7 DEF IInv

-----------------------------------------------------------------------------
(* bget() and acquiresleep() keep IInv.                                       *)

\* bget() of a cached block.
LEMMA BgetHitKeeps ==
  ASSUME IInv, NEW p \in Procs, NEW k \in Blocks, BgetHit(p, k)
  PROVE  IInv'
<1>1. PICK b \in Bufs : /\ buf[b].blockno = k
                        /\ buf' = [buf EXCEPT ![b].refcnt = @ + 1]
                        /\ proc' = [proc EXCEPT ![p] = [step |-> "lock", b |-> b, want |-> k]]
  BY Zenon DEF BgetHit, Cached
<1>2. TypeOK
  BY DEF IInv
<1>3. /\ proc[p].step = "idle" /\ p \notin asleep
      /\ UNCHANGED <<lru, idequeue, command, disk, asleep, panicked, truth, failed>>
  BY DEF BgetHit, At, hist
<1>4. TypeOK'
  <2>1. buf \in [Bufs -> Buf] /\ buf[b].refcnt + 1 \in Nat
    BY <1>2, Types DEF TypeOK, Buf
  <2>2. [buf[b] EXCEPT !.refcnt = @ + 1] \in Buf
    BY <2>1 DEF Buf
  <2>3. buf' \in [Bufs -> Buf]
    BY <1>1, <2>1, <2>2
  <2>4. proc' \in [Procs -> [step : Steps, b : Bufs, want : Blocks \union {NONE}]]
    BY <1>1, <1>2 DEF TypeOK, Steps
  <2> QED
    BY <1>2, <1>3, <2>3, <2>4 DEF TypeOK, Buf
<1>5. /\ \A c \in Bufs : /\ c # b => buf'[c] = buf[c]
                         /\ buf'[c].blockno = buf[c].blockno /\ buf'[c].valid = buf[c].valid
                         /\ buf'[c].dirty = buf[c].dirty /\ buf'[c].data = buf[c].data
                         /\ buf'[c].locked = buf[c].locked
      /\ buf'[b].refcnt = buf[b].refcnt + 1
  BY <1>1, <1>2 DEF TypeOK
<1>6. /\ \A q \in Procs : q # p => proc'[q] = proc[q]
      /\ proc'[p].step = "lock" /\ proc'[p].b = b /\ proc'[p].want = k
  BY <1>1, <1>2 DEF TypeOK
<1>7. Counted'
  <2> SUFFICES ASSUME NEW c \in Bufs PROVE buf'[c].refcnt = Cardinality(Users(c)')
    BY DEF Counted
  <2>1. CASE c = b
    <3>1. Users(b)' = Users(b) \union {p} /\ p \notin Users(b)
      BY <1>3, <1>6 DEF Users
    <3>2. Cardinality(Users(b)') = Cardinality(Users(b)) + 1
      BY <3>1, UsersFinite, FS_AddElement
    <3> QED
      BY <2>1, <3>2, <1>5 DEF IInv, Counted
  <2>2. CASE c # b
    <3>1. Users(c)' = Users(c)
      BY <1>3, <1>6, <2>2 DEF Users
    <3> QED
      BY <3>1, <2>2, <1>5 DEF IInv, Counted
  <2> QED
    BY <2>1, <2>2
<1>8. Keeps'
  BY <1>1, <1>2, <1>5, <1>6, Types DEF IInv, Keeps
<1>9. Unique'
  BY <1>5 DEF IInv, Unique
<1>10. LockHeld' /\ SleepsAt'
  BY <1>2, <1>3, <1>5, <1>6, Types DEF IInv, LockHeld, SleepsAt, Busy
<1>11. \A c \in Bufs : Finished(c)' <=> Finished(c)
  BY <1>5 DEF Finished
<1>12. Filled'
  BY <1>2, <1>5, <1>6, <1>11, Types DEF IInv, Filled
<1>13. QueueOnce' /\ Queued' = Queued
  BY <1>3 DEF IInv, QueueOnce, Queued
<1>14. QueueWaits'
  BY <1>2, <1>3, <1>6, <1>11, <1>13, Types DEF IInv, QueueWaits
<1>15. CleanOnDisk' /\ ReadsLastWrite'
  BY <1>3, <1>5 DEF IInv, CleanOnDisk, ReadsLastWrite, Cached
<1>16. Sleepers'
  BY <1>2, <1>3, <1>5, <1>6, <1>13, Types DEF IInv, Sleepers
<1>17. Controller'
  BY <1>2, <1>3, <1>5, Types, ControllerKept DEF IInv
<1> QED
  BY <1>4, <1>7, <1>8, <1>9, <1>10, <1>12, <1>13, <1>14, <1>15, <1>16, <1>17 DEF IInv

\* bget() of a block that is not cached.
LEMMA BgetMissKeeps ==
  ASSUME IInv, NEW p \in Procs, NEW k \in Blocks, BgetMiss(p, k)
  PROVE  IInv'
<1>2. TypeOK /\ lru \in [Bufs -> Bufs]
  BY DEF IInv, TypeOK
<1>1. PICK b \in Bufs :
        /\ buf[b].refcnt = 0 /\ ~buf[b].dirty
        /\ buf' = [buf EXCEPT ![b].blockno = k, ![b].valid = FALSE,
                              ![b].dirty = FALSE, ![b].refcnt = 1]
        /\ proc' = [proc EXCEPT ![p] = [step |-> "lock", b |-> b, want |-> k]]
  BY <1>2, Zenon DEF BgetMiss, Recyclable
<1>3. /\ proc[p].step = "idle" /\ p \notin asleep
      /\ UNCHANGED <<lru, idequeue, command, disk, asleep, panicked, truth, failed>>
      /\ \A c \in Bufs : buf[c].blockno # k
  BY DEF BgetMiss, At, hist, Cached
<1>4. TypeOK'
  <2>1. buf \in [Bufs -> Buf]
    BY <1>2 DEF TypeOK, Buf
  <2>2. [buf[b] EXCEPT !.blockno = k, !.valid = FALSE, !.dirty = FALSE, !.refcnt = 1] \in Buf
    BY <2>1, Zenon DEF Buf
  <2>3. buf' \in [Bufs -> Buf]
    BY <1>1, <2>1, <2>2
  <2>4. proc' \in [Procs -> [step : Steps, b : Bufs, want : Blocks \union {NONE}]]
    BY <1>1, <1>2 DEF TypeOK, Steps
  <2> QED
    BY <1>2, <1>3, <2>3, <2>4 DEF TypeOK, Buf
<1>5. /\ \A c \in Bufs : /\ c # b => buf'[c] = buf[c]
                         /\ buf'[c].locked = buf[c].locked
      /\ buf'[b].refcnt = 1 /\ buf'[b].blockno = k /\ ~buf'[b].valid /\ ~buf'[b].dirty
  BY <1>1, <1>2 DEF TypeOK
<1>6. /\ \A q \in Procs : q # p => proc'[q] = proc[q]
      /\ proc'[p].step = "lock" /\ proc'[p].b = b /\ proc'[p].want = k
  BY <1>1, <1>2 DEF TypeOK
<1>7. \A q \in Procs : proc[q].step # "idle" => proc[q].b # b
  BY <1>1, NoUsers DEF IInv
<1>8. Counted'
  <2> SUFFICES ASSUME NEW c \in Bufs PROVE buf'[c].refcnt = Cardinality(Users(c)')
    BY DEF Counted
  <2>1. CASE c = b
    <3>1. Users(b)' = {p}
      BY <1>6, <1>7 DEF Users
    <3>2. Cardinality(Users(b)') = 1
      BY <3>1, FS_Singleton
    <3> QED
      BY <2>1, <3>2, <1>5
  <2>2. CASE c # b
    <3>1. Users(c)' = Users(c)
      BY <1>3, <1>6, <2>2 DEF Users
    <3> QED
      BY <3>1, <2>2, <1>5 DEF IInv, Counted
  <2> QED
    BY <2>1, <2>2
<1>9. Keeps'
  BY <1>2, <1>5, <1>6, <1>7, Types DEF IInv, Keeps
<1>10. Unique'
  BY <1>3, <1>5 DEF IInv, Unique
<1>11. LockHeld' /\ SleepsAt'
  BY <1>2, <1>3, <1>5, <1>6, Types DEF IInv, LockHeld, SleepsAt, Busy
<1>12. \A c \in Bufs : c # b => (Finished(c)' <=> Finished(c))
  BY <1>5 DEF Finished
<1>13. Filled'
  <2>1. \A c \in Bufs : buf'[c].dirty => buf'[c].valid
    BY <1>5 DEF IInv, Filled
  <2>2. \A q \in Procs : /\ proc'[q].step = "hold" => buf'[proc'[q].b].valid
                         /\ proc'[q].step = "start" => ~Finished(proc[q].b)'
    BY <1>2, <1>5, <1>6, <1>7, <1>12, Types DEF IInv, Filled
  <2> QED
    BY <2>1, <2>2, <1>6 DEF Filled
<1>14. QueueOnce' /\ Queued' = Queued
  BY <1>3 DEF IInv, QueueOnce, Queued
<1>15. b \notin Queued
  BY <1>7 DEF IInv, QueueWaits
<1>16. QueueWaits'
  <2>1. ASSUME NEW c \in Queued
        PROVE  ~Finished(c)' /\ \E q \in Procs : proc'[q].step = "wait" /\ proc'[q].b = c
    BY <1>2, <1>3, <1>6, <1>12, <1>15, <2>1, Types DEF IInv, QueueWaits
  <2>2. ASSUME NEW q \in Procs, proc'[q].step = "wait"
        PROVE  proc'[q].b \in Queued \/ Finished(proc[q].b)'
    BY <1>2, <1>6, <1>7, <1>12, <2>2, Types DEF IInv, QueueWaits
  <2> QED
    BY <2>1, <2>2, <1>14 DEF QueueWaits
<1>17. CleanOnDisk'
  BY <1>3, <1>5 DEF IInv, CleanOnDisk
<1>18. ReadsLastWrite'
  <2> SUFFICES ASSUME NEW j \in Blocks \ failed
               PROVE  /\ \A c \in Cached(j)' : buf'[c].valid => buf'[c].data = truth[j]
                      /\ (\A c \in Cached(j)' : ~buf'[c].valid) => disk[j] = truth[j]
    BY <1>3 DEF ReadsLastWrite
  <2>1. \A c \in Cached(j)' : buf'[c].valid => buf'[c].data = truth[j]
    BY <1>5 DEF IInv, ReadsLastWrite, Cached
  <2>2. CASE buf[b].blockno = j
    <3>1. Cached(j) = {b}
      BY <2>2, BuffersAssumption DEF IInv, Unique, Cached
    <3>2. disk[j] = truth[j]
      BY <3>1, <2>2, <1>1 DEF IInv, ReadsLastWrite, CleanOnDisk
    <3> QED
      BY <3>2, <2>1
  <2>3. CASE buf[b].blockno # j /\ j # k
    <3>1. Cached(j)' = Cached(j) /\ b \notin Cached(j)
      BY <2>3, <1>5 DEF Cached
    <3> QED
      BY <3>1, <2>1, <1>5 DEF IInv, ReadsLastWrite, Cached
  <2>4. CASE j = k
    <3>1. Cached(k) = {}
      BY <1>3 DEF Cached
    <3> QED
      BY <3>1, <2>1, <2>4 DEF IInv, ReadsLastWrite
  <2> QED
    BY <2>2, <2>3, <2>4
<1>19. Sleepers'
  BY <1>2, <1>3, <1>5, <1>6, <1>14, Types DEF IInv, Sleepers
<1>20. Controller'
  BY <1>2, <1>3, <1>5, <1>15, Types, ControllerKept DEF IInv
<1> QED
  BY <1>4, <1>8, <1>9, <1>10, <1>11, <1>13, <1>14, <1>16, <1>17, <1>18, <1>19, <1>20 DEF IInv

\* bget() without a buffer to recycle.
LEMMA BgetPanicsKeeps ==
  ASSUME IInv, NEW p \in Procs, NEW k \in Blocks, BgetPanics(p, k)
  PROVE  IInv'
<1>1. /\ UNCHANGED <<buf, lru, idequeue, command, disk, proc, asleep, truth, failed>>
      /\ panicked' \in BOOLEAN
  BY DEF BgetPanics, hist
<1>2. asleep' \subseteq Procs /\ SleepsAt' /\ Sleepers'
  BY <1>1, Types DEF IInv, SleepsAt, Sleepers, Queued
<1> QED
  BY <1>1, <1>2, OnlySleep

\* acquiresleep().
LEMMA AcquireSleepKeeps ==
  ASSUME IInv, NEW p \in Procs, AcquireSleep(p)
  PROVE  IInv'
<1>1. PICK b \in Bufs : b = proc[p].b
  BY Types DEF IInv
<1>2. /\ proc[p].step = "lock" /\ p \notin asleep
      /\ UNCHANGED <<lru, idequeue, command, disk, panicked, truth, failed>>
  BY DEF AcquireSleep, At, hist
<1>3. TypeOK /\ panicked' \in BOOLEAN
  BY <1>2 DEF IInv, TypeOK
<1>4. CASE buf[b].locked # NONE
  <2>1. asleep' = asleep \union {p} /\ UNCHANGED <<buf, proc>>
    BY <1>1, <1>4 DEF AcquireSleep
  <2>2. asleep' \subseteq Procs /\ SleepsAt' /\ Sleepers'
    BY <1>1, <1>2, <1>3, <1>4, <2>1, Types DEF IInv, SleepsAt, Sleepers, Queued
  <2> QED
    BY <1>2, <1>3, <2>1, <2>2, OnlySleep
<1>5. CASE buf[b].locked = NONE
  <2>1. PICK s \in {"hold", "start"} : s = Bread(b)
    BY DEF Bread
  <2>2. /\ buf' = [buf EXCEPT ![b].locked = p] /\ asleep' = asleep
        /\ proc' = [proc EXCEPT ![p].step = s]
    BY <1>1, <1>5, <2>1 DEF AcquireSleep, Goes
  <2>3. buf' \in [Bufs -> Buf]
    <3>1. buf \in [Bufs -> Buf]
      BY <1>3 DEF TypeOK, Buf
    <3>2. [buf[b] EXCEPT !.locked = p] \in Buf
      BY <3>1 DEF Buf
    <3> QED
      BY <2>2, <3>1, <3>2
  <2>4. /\ \A c \in Bufs : /\ c # b => buf'[c] = buf[c]
                           /\ buf'[c].blockno = buf[c].blockno /\ buf'[c].valid = buf[c].valid
                           /\ buf'[c].dirty = buf[c].dirty /\ buf'[c].data = buf[c].data
                           /\ buf'[c].refcnt = buf[c].refcnt
        /\ buf'[b].locked = p
    BY <1>3, <2>2 DEF TypeOK
  <2>5. s \in Steps /\ s # "idle"
    BY DEF Steps
  <2>6. /\ proc' \in [Procs -> [step : Steps, b : Bufs, want : Blocks \union {NONE}]]
        /\ \A q \in Procs : q # p => proc'[q] = proc[q]
        /\ proc'[p].step = s /\ proc'[p].b = b
        /\ Counted' /\ Keeps' /\ Unique'
    BY <1>1, <1>2, <2>2, <2>4, <2>5, Moves, Zenon
  <2>7. /\ \A c \in Bufs : Finished(c)' <=> Finished(c)
        /\ CleanOnDisk' /\ ReadsLastWrite'
    BY <1>2, <2>4, SameContents
  <2>8. TypeOK'
    BY <1>2, <1>3, <2>2, <2>3, <2>6 DEF TypeOK, Buf
  <2>9. LockHeld' /\ SleepsAt'
    <3>1. LockHeld'
      BY <1>2, <1>3, <1>5, <2>2, <2>4, <2>6, Types, BuffersAssumption DEF IInv, LockHeld, Busy
    <3>2. SleepsAt'
      BY <1>2, <1>3, <2>2, <2>6, Types DEF IInv, SleepsAt
    <3>3. QED
      BY <3>1, <3>2
  <2>10. /\ s = "hold" => buf[b].valid
         /\ s = "start" => ~buf[b].valid
    BY <2>1 DEF Bread
  <2>11. Filled'
    BY <1>3, <2>4, <2>6, <2>7, <2>10, Types DEF IInv, Filled, Finished
  <2>12. QueueOnce' /\ Queued' = Queued
    BY <1>2 DEF IInv, QueueOnce, Queued
  <2>13. QueueWaits'
    <3>1. QueueWaits
      BY DEF IInv
    <3> QED
      BY <1>2, <1>3, <2>6, <2>7, <2>12, <3>1, WaitersKept
  <2>14. Sleepers'
    <3> SUFFICES ASSUME NEW q \in asleep
                 PROVE  IF proc'[q].step = "lock" THEN buf'[proc'[q].b].locked # NONE
                        ELSE proc'[q].b \in Queued
      BY <2>2, <2>12 DEF Sleepers
    <3>1. q \in Procs /\ proc'[q] = proc[q] /\ proc[q].b \in Bufs /\ p # NONE
      BY <1>2, <1>3, <2>6, Types, BuffersAssumption
    <3> QED
      BY <3>1, <2>4 DEF IInv, Sleepers
  <2>15. Controller'
    BY <1>2, <1>3, <2>4, Types, ControllerKept DEF IInv
  <2> QED
    BY <2>6, <2>7, <2>8, <2>9, <2>11, <2>12, <2>13, <2>14, <2>15 DEF IInv
<1> QED
  BY <1>4, <1>5

(* -------- the disk driver and the holder of a buffer keep it ------------- *)

\* iderw() queues the buffer.
LEMMA IderwKeeps ==
  ASSUME IInv, NEW p \in Procs, Iderw(p)
  PROVE  IInv'
<1>1. PICK b \in Bufs : b = proc[p].b
  BY Types DEF IInv
<1>2. /\ proc[p].step = "start" /\ p \notin asleep
      /\ idequeue' = Append(idequeue, b)
      /\ command' = IF idequeue = << >> THEN IdeStart(b) ELSE command
      /\ proc' = [proc EXCEPT ![p].step = "wait"]
      /\ asleep' = asleep \union {p}
      /\ UNCHANGED <<buf, lru, disk, panicked, truth, failed>>
  BY <1>1 DEF Iderw, At, hist, Goes
<1>3. TypeOK /\ idequeue \in Seq(Bufs)
  BY DEF IInv, TypeOK
<1>4. /\ proc' \in [Procs -> [step : Steps, b : Bufs, want : Blocks \union {NONE}]]
      /\ \A q \in Procs : q # p => proc'[q] = proc[q]
      /\ proc'[p].step = "wait" /\ proc'[p].b = b
      /\ Counted' /\ Keeps' /\ Unique'
  <2>1. "wait" \in Steps
    BY DEF Steps
  <2> QED
    BY <1>1, <1>2, <2>1, Moves, Zenon
<1>5. /\ \A c \in Bufs : Finished(c)' <=> Finished(c)
      /\ CleanOnDisk' /\ ReadsLastWrite'
  BY <1>2, SameContents
<1>6. /\ idequeue' \in Seq(Bufs)
      /\ DOMAIN idequeue' = DOMAIN idequeue \union {Len(idequeue) + 1}
      /\ \A i \in DOMAIN idequeue : idequeue'[i] = idequeue[i]
      /\ idequeue'[Len(idequeue) + 1] = b
  BY <1>2, <1>3, AppendRange
<1>7. Queued' = Queued \union {b}
  BY <1>6 DEF Queued
<1>8. TypeOK'
  BY <1>2, <1>3, <1>4, <1>6 DEF TypeOK
<1>9. LockHeld' /\ SleepsAt'
  BY <1>1, <1>2, <1>3, <1>4, Types DEF IInv, LockHeld, SleepsAt, Busy
<1>10. Filled'
  BY <1>2, <1>3, <1>4, <1>5, Types DEF IInv, Filled
<1>11. ~Finished(b) /\ buf[b].locked = p
  BY <1>1, <1>2 DEF IInv, Filled, LockHeld, Busy
<1>12. b \notin Queued
  <2> SUFFICES ASSUME b \in Queued PROVE FALSE
    OBVIOUS
  <2>1. PICK q \in Procs : proc[q].step = "wait" /\ proc[q].b = b
    BY DEF IInv, QueueWaits
  <2>2. q = p
    BY <2>1, <1>11 DEF IInv, LockHeld, Busy
  <2> QED
    BY <2>1, <2>2, <1>2
<1>13. QueueOnce'
  BY <1>6, <1>12 DEF IInv, QueueOnce, Queued
<1>14. QueueWaits'
  <2>1. ASSUME NEW c \in Queued'
        PROVE  ~Finished(c)' /\ \E q \in Procs : proc'[q].step = "wait" /\ proc'[q].b = c
    <3>1. CASE c = b
      BY <3>1, <1>4, <1>5, <1>11
    <3>2. CASE c # b
      <4>1. c \in Queued /\ c \in Bufs
        BY <3>2, <1>3, <1>7, Types
      <4>2. PICK q \in Procs : proc[q].step = "wait" /\ proc[q].b = c
        BY <4>1 DEF IInv, QueueWaits
      <4>3. proc'[q].step = "wait" /\ proc'[q].b = c
        BY <4>2, <1>2, <1>4
      <4> QED
        BY <4>1, <4>3, <1>5 DEF IInv, QueueWaits
    <3> QED
      BY <3>1, <3>2
  <2>2. ASSUME NEW q \in Procs, proc'[q].step = "wait"
        PROVE  proc'[q].b \in Queued' \/ Finished(proc[q].b)'
    BY <2>2, <1>3, <1>4, <1>5, <1>7, Types DEF IInv, QueueWaits
  <2> QED
    BY <2>1, <2>2 DEF QueueWaits
<1>15. Sleepers'
  <2> SUFFICES ASSUME NEW q \in asleep'
               PROVE  IF proc'[q].step = "lock" THEN buf'[proc'[q].b].locked # NONE
                      ELSE proc'[q].b \in Queued'
    BY DEF Sleepers
  <2>1. CASE q = p
    BY <2>1, <1>4, <1>7
  <2>2. CASE q # p
    <3>1. q \in asleep /\ proc'[q] = proc[q]
      BY <2>2, <1>2, <1>3, <1>4, Types
    <3> QED
      BY <3>1, <1>2, <1>7 DEF IInv, Sleepers
  <2> QED
    BY <2>1, <2>2
<1>16. Controller'
  <2>0. IdeStart(b)' = IdeStart(b)
    BY <1>2 DEF IdeStart
  <2>1. CASE idequeue = << >>
    <3>1. Head(idequeue') = b /\ idequeue' # << >>
      BY <1>2, <2>1
    <3>2. buf[b] \in Buf /\ buf[b].blockno \in Blocks
      BY <1>1, <1>2, <1>3 DEF IInv, Keeps, TypeOK, Buf
    <3>3. IdeStart(b) \in [blockno : Blocks, write : BOOLEAN, data : Values]
      BY <3>2 DEF IdeStart, Buf
    <3> QED
      BY <1>2, <2>0, <2>1, <3>1, <3>3, BuffersAssumption DEF Controller
  <2>2. CASE idequeue # << >>
    <3>1. Head(idequeue') = Head(idequeue) /\ idequeue' # << >>
      BY <1>2, <1>3, <2>2
    <3>2. IdeStart(Head(idequeue))' = IdeStart(Head(idequeue))
      BY <1>2, <3>1 DEF IdeStart
    <3> QED
      BY <1>2, <2>2, <3>1, <3>2 DEF IInv, Controller
  <2> QED
    BY <2>1, <2>2
<1> QED
  BY <1>4, <1>5, <1>8, <1>9, <1>10, <1>13, <1>14, <1>15, <1>16 DEF IInv

\* iderw(), woken.
LEMMA IderwWokenKeeps ==
  ASSUME IInv, NEW p \in Procs, IderwWoken(p)
  PROVE  IInv'
<1>1. PICK b \in Bufs : b = proc[p].b
  BY Types DEF IInv
<1>2. /\ proc[p].step = "wait" /\ p \notin asleep
      /\ UNCHANGED <<buf, lru, idequeue, command, disk, panicked, truth, failed>>
  BY DEF IderwWoken, At, hist
<1>3. TypeOK /\ panicked' \in BOOLEAN
  BY <1>2 DEF IInv, TypeOK
<1>4. CASE ~Finished(b)
  <2>1. asleep' = asleep \union {p} /\ UNCHANGED proc
    BY <1>1, <1>4 DEF IderwWoken
  <2>2. b \in Queued /\ Queued' = Queued
    BY <1>1, <1>2, <1>4 DEF IInv, QueueWaits, Queued
  <2>3. asleep' \subseteq Procs /\ SleepsAt' /\ Sleepers'
    BY <1>1, <1>2, <1>3, <2>1, <2>2, Types DEF IInv, SleepsAt, Sleepers
  <2> QED
    BY <1>2, <1>3, <2>1, <2>3, OnlySleep
<1>5. CASE Finished(b)
  <2>1. proc' = [proc EXCEPT ![p].step = "hold"] /\ asleep' = asleep
    BY <1>1, <1>5 DEF IderwWoken, Goes
  <2>2. /\ proc' \in [Procs -> [step : Steps, b : Bufs, want : Blocks \union {NONE}]]
        /\ \A q \in Procs : q # p => proc'[q] = proc[q]
        /\ proc'[p].step = "hold" /\ proc'[p].b = b
        /\ Counted' /\ Keeps' /\ Unique'
    <3>1. "hold" \in Steps
      BY DEF Steps
    <3> QED
      BY <1>1, <1>2, <2>1, <3>1, Moves, Zenon
  <2>3. /\ \A c \in Bufs : Finished(c)' <=> Finished(c)
        /\ CleanOnDisk' /\ ReadsLastWrite'
    BY <1>2, SameContents
  <2>4. TypeOK'
    BY <1>2, <1>3, <2>1, <2>2 DEF TypeOK
  <2>5. LockHeld' /\ SleepsAt'
    BY <1>1, <1>2, <1>3, <2>1, <2>2, Types DEF IInv, LockHeld, SleepsAt, Busy
  <2>6. buf[b].valid
    BY <1>5 DEF Finished
  <2>7. Filled'
    BY <1>2, <1>3, <2>2, <2>3, <2>6, Types DEF IInv, Filled
  <2>8. QueueOnce' /\ Queued' = Queued
    BY <1>2 DEF IInv, QueueOnce, Queued
  <2>9. QueueWaits'
    <3>1. ASSUME NEW c \in Queued
          PROVE  ~Finished(c)' /\ \E q \in Procs : proc'[q].step = "wait" /\ proc'[q].b = c
      <4>1. c \in Bufs /\ ~Finished(c)
        BY <1>3, Types DEF IInv, QueueWaits
      <4>2. PICK q \in Procs : proc[q].step = "wait" /\ proc[q].b = c
        BY DEF IInv, QueueWaits
      <4>3. q # p
        BY <1>1, <1>5, <4>1, <4>2
      <4> QED
        BY <2>2, <2>3, <4>1, <4>2, <4>3
    <3>2. ASSUME NEW q \in Procs, proc'[q].step = "wait"
          PROVE  proc'[q].b \in Queued \/ Finished(proc[q].b)'
      BY <3>2, <1>3, <2>2, <2>3, Types DEF IInv, QueueWaits
    <3> QED
      BY <3>1, <3>2, <2>8 DEF QueueWaits
  <2>10. Sleepers'
    BY <1>2, <1>3, <2>1, <2>2, <2>8, Types DEF IInv, Sleepers
  <2>11. Controller'
    BY <1>2, <1>3, ControllerKept DEF IInv
  <2> QED
    BY <2>2, <2>3, <2>4, <2>5, <2>7, <2>8, <2>9, <2>10, <2>11 DEF IInv
<1> QED
  BY <1>4, <1>5

\* The holder of a buffer is the only one at work on it.
LEMMA HolderAlone ==
  ASSUME IInv, NEW p \in Procs, proc[p].step = "hold"
  PROVE  /\ \A q \in Procs : proc[q].step \in Busy /\ proc[q].b = proc[p].b => q = p
         /\ proc[p].b \notin Queued
<1>1. \A q \in Procs : proc[q].step \in Busy /\ proc[q].b = proc[p].b => q = p
  BY DEF IInv, LockHeld, Busy
<1>2. proc[p].b \notin Queued
  BY <1>1 DEF IInv, QueueWaits, Busy
<1> QED
  BY <1>1, <1>2

\* The holder changes the contents: bwrite() or log_write().
LEMMA ChangedKeeps ==
  ASSUME IInv, NEW p \in Procs, NEW v \in Values, NEW s \in {"hold", "start"},
         proc[p].step = "hold", p \notin asleep, Changed(p, v),
         proc' = [proc EXCEPT ![p].step = s],
         UNCHANGED <<lru, idequeue, command, disk, asleep, panicked, failed>>
  PROVE  IInv'
<1>1. PICK b \in Bufs : b = proc[p].b
  BY Types DEF IInv
<1>2. PICK k \in Blocks : k = proc[p].want /\ buf[b].blockno = k
  BY <1>1 DEF IInv, Keeps
<1>3. TypeOK
  BY DEF IInv
<1>4. /\ buf' = [buf EXCEPT ![b].data = v, ![b].dirty = TRUE]
      /\ truth' = [truth EXCEPT ![k] = v]
  BY <1>1, <1>2 DEF Changed
<1>5. buf' \in [Bufs -> Buf]
  <2>1. buf \in [Bufs -> Buf]
    BY <1>3 DEF TypeOK, Buf
  <2>2. [buf[b] EXCEPT !.data = v, !.dirty = TRUE] \in Buf
    BY <2>1, Zenon DEF Buf
  <2> QED
    BY <1>4, <2>1, <2>2
<1>6. /\ \A c \in Bufs : /\ c # b => buf'[c] = buf[c]
                         /\ buf'[c].blockno = buf[c].blockno /\ buf'[c].valid = buf[c].valid
                         /\ buf'[c].refcnt = buf[c].refcnt /\ buf'[c].locked = buf[c].locked
      /\ buf'[b].data = v /\ buf'[b].dirty
  BY <1>3, <1>4 DEF TypeOK
<1>7. /\ truth' \in [Blocks -> Values]
      /\ truth'[k] = v /\ \A j \in Blocks : j # k => truth'[j] = truth[j]
  BY <1>3, <1>4 DEF TypeOK
<1>8. /\ proc' \in [Procs -> [step : Steps, b : Bufs, want : Blocks \union {NONE}]]
      /\ \A q \in Procs : q # p => proc'[q] = proc[q]
      /\ proc'[p].step = s /\ proc'[p].b = b
      /\ Counted' /\ Keeps' /\ Unique'
  <2>1. s \in Steps /\ s # "idle"
    BY DEF Steps
  <2> QED
    BY <1>1, <1>6, <2>1, Moves, Zenon
<1>9. /\ \A q \in Procs : proc[q].step \in Busy /\ proc[q].b = b => q = p
      /\ b \notin Queued /\ buf[b].valid
  BY <1>1, HolderAlone DEF IInv, Filled
<1>10. ~Finished(b)' /\ \A c \in Bufs : c # b => (Finished(c)' <=> Finished(c))
  BY <1>6 DEF Finished
<1>11. TypeOK'
  BY <1>3, <1>5, <1>7, <1>8 DEF TypeOK, Buf
<1>12. LockHeld' /\ SleepsAt'
  BY <1>1, <1>3, <1>6, <1>8, Types DEF IInv, LockHeld, SleepsAt, Busy
<1>13. Filled'
  <2>1. \A c \in Bufs : buf'[c].dirty => buf'[c].valid
    BY <1>6, <1>9 DEF IInv, Filled
  <2>2. ASSUME NEW q \in Procs
        PROVE  /\ proc'[q].step = "hold" => buf'[proc'[q].b].valid
               /\ proc'[q].step = "start" => ~Finished(proc[q].b)'
    <3>1. CASE q = p
      BY <3>1, <1>6, <1>8, <1>9, <1>10
    <3>2. CASE q # p
      BY <3>2, <1>3, <1>6, <1>8, <1>9, <1>10, Types DEF IInv, Filled, Busy
    <3> QED
      BY <3>1, <3>2
  <2> QED
    BY <2>1, <2>2 DEF Filled
<1>14. QueueOnce' /\ Queued' = Queued
  BY DEF IInv, QueueOnce, Queued
<1>15. QueueWaits'
  <2>1. ASSUME NEW c \in Queued
        PROVE  ~Finished(c)' /\ \E q \in Procs : proc'[q].step = "wait" /\ proc'[q].b = c
    <3>1. c \in Bufs /\ ~Finished(c) /\ c # b
      BY <1>3, <1>9, Types DEF IInv, QueueWaits
    <3>2. PICK q \in Procs : proc[q].step = "wait" /\ proc[q].b = c
      BY DEF IInv, QueueWaits
    <3> QED
      BY <1>8, <1>10, <3>1, <3>2
  <2>2. ASSUME NEW q \in Procs, proc'[q].step = "wait"
        PROVE  proc'[q].b \in Queued \/ Finished(proc[q].b)'
    <3>1. q # p /\ proc'[q] = proc[q] /\ proc[q].b \in Bufs
      BY <2>2, <1>3, <1>8, Types
    <3>2. proc[q].b # b
      BY <3>1, <2>2, <1>9 DEF Busy
    <3> QED
      BY <3>1, <3>2, <2>2, <1>10 DEF IInv, QueueWaits
  <2> QED
    BY <2>1, <2>2, <1>14 DEF QueueWaits
<1>16. \A c \in Bufs : c # b => buf[c].blockno # k
  BY <1>2, BuffersAssumption DEF IInv, Unique
<1>17. CleanOnDisk'
  BY <1>6, <1>7, <1>16 DEF IInv, CleanOnDisk
<1>18. ReadsLastWrite'
  <2> SUFFICES ASSUME NEW j \in Blocks \ failed
               PROVE  /\ \A c \in Cached(j)' : buf'[c].valid => buf'[c].data = truth'[j]
                      /\ (\A c \in Cached(j)' : ~buf'[c].valid) => disk[j] = truth'[j]
    BY DEF ReadsLastWrite
  <2>1. Cached(j)' = Cached(j) /\ Cached(j) \subseteq Bufs
    BY <1>6 DEF Cached
  <2>2. CASE j = k
    BY <2>1, <2>2, <1>2, <1>6, <1>7, <1>9, <1>16 DEF Cached
  <2>3. CASE j # k
    <3>1. b \notin Cached(j) /\ truth'[j] = truth[j]
      BY <2>3, <1>2, <1>7 DEF Cached
    <3> QED
      BY <3>1, <2>1, <1>6 DEF IInv, ReadsLastWrite
  <2> QED
    BY <2>2, <2>3
<1>19. Sleepers'
  BY <1>3, <1>6, <1>8, <1>14, Types DEF IInv, Sleepers
<1>20. Controller'
  BY <1>3, <1>6, <1>9, Types, ControllerKept DEF IInv
<1> QED
  BY <1>8, <1>11, <1>12, <1>13, <1>14, <1>15, <1>17, <1>18, <1>19, <1>20 DEF IInv

\* A queued buffer has a block, so that its command is not NONE.
LEMMA QueuedCommand ==
  ASSUME IInv, NEW c \in Queued
  PROVE  /\ c \in Bufs /\ buf[c].blockno \in Blocks
         /\ IdeStart(c) # NONE
<1>1. c \in Bufs /\ buf \in [Bufs -> Buf]
  BY Types DEF IInv, TypeOK, Buf
<1>2. PICK q \in Procs : proc[q].step = "wait" /\ proc[q].b = c
  BY DEF IInv, QueueWaits
<1>3. buf[c].blockno \in Blocks
  BY <1>2 DEF IInv, Keeps
<1>4. IdeStart(c) \in [blockno : Blocks, write : BOOLEAN, data : Values]
  BY <1>1, <1>3 DEF IdeStart, Buf
<1> QED
  BY <1>1, <1>3, <1>4, BuffersAssumption

\* ideintr().
LEMMA IdeIntrKeeps ==
  ASSUME IInv, NEW error \in BOOLEAN, IdeIntr(error)
  PROVE  IInv'
<1>1. TypeOK /\ idequeue \in Seq(Bufs) /\ idequeue # << >>
  BY DEF IInv, TypeOK, IdeIntr
<1>2. PICK b \in Bufs : b = Head(idequeue)
  BY <1>1
<1>3. /\ Tail(idequeue) \in Seq(Bufs)
      /\ b = idequeue[1] /\ 1 \in DOMAIN idequeue
      /\ \A i \in DOMAIN Tail(idequeue) :
           i + 1 \in DOMAIN idequeue /\ Tail(idequeue)[i] = idequeue[i + 1]
      /\ \A i \in DOMAIN idequeue :
           i # 1 => i - 1 \in DOMAIN Tail(idequeue) /\ Tail(idequeue)[i - 1] = idequeue[i]
  BY <1>1, <1>2, TailRange
<1>4. b \in Queued /\ ~Finished(b)
  BY <1>3 DEF Queued, IInv, QueueWaits
<1>5. PICK k \in Blocks : k = buf[b].blockno
  BY <1>4, QueuedCommand
<1>6. command.blockno = k /\ command.write = buf[b].dirty /\ command.data = buf[b].data
  BY <1>1, <1>2, <1>5 DEF IInv, Controller, IdeStart
<1>7. /\ error => ~buf[b].dirty
      /\ disk' = IF buf[b].dirty THEN [disk EXCEPT ![k] = buf[b].data] ELSE disk
      /\ buf' = [buf EXCEPT ![b].valid = TRUE, ![b].dirty = FALSE,
                            ![b].data = IF ~buf[b].dirty /\ ~error THEN disk[k] ELSE @]
      /\ failed' = IF error THEN failed \union {k} ELSE failed
      /\ asleep' = asleep \ Woken("wait", b)
      /\ idequeue' = Tail(idequeue)
      /\ command' = NextCommand(Tail(idequeue))
      /\ UNCHANGED <<lru, proc, panicked, truth>>
  BY <1>2, <1>6 DEF IdeIntr
<1>8. TypeOK'
  <2>1. buf \in [Bufs -> Buf] /\ disk[k] \in Values
    BY <1>1 DEF TypeOK, Buf
  <2>2. \A d \in Values : [buf[b] EXCEPT !.valid = TRUE, !.dirty = FALSE, !.data = d] \in Buf
    BY <2>1, Zenon DEF Buf
  <2>3. buf[b].data \in Values
    BY <2>1 DEF Buf
  <2>4. buf' \in [Bufs -> Buf]
    BY <1>7, <2>1, <2>2, <2>3, Zenon
  <2>5. disk' \in [Blocks -> Values]
    BY <1>1, <1>7, <2>3 DEF TypeOK
  <2>6. failed' \subseteq Blocks /\ asleep' \subseteq Procs
    BY <1>1, <1>7 DEF TypeOK
  <2> QED
    BY <1>1, <1>3, <1>7, <2>4, <2>5, <2>6 DEF TypeOK, Buf
<1>9. /\ \A c \in Bufs : /\ c # b => buf'[c] = buf[c]
                         /\ buf'[c].blockno = buf[c].blockno /\ buf'[c].locked = buf[c].locked
                         /\ buf'[c].refcnt = buf[c].refcnt
      /\ buf'[b].valid /\ ~buf'[b].dirty
      /\ buf'[b].data = IF ~buf[b].dirty /\ ~error THEN disk[k] ELSE buf[b].data
  BY <1>1, <1>7 DEF TypeOK
<1>10. Finished(b)' /\ \A c \in Bufs : c # b => (Finished(c)' <=> Finished(c))
  BY <1>9 DEF Finished
<1>11. Counted'
  <2>1. proc' = proc
    BY <1>7
  <2>2. \A c \in Bufs : Users(c)' = Users(c)
    BY <2>1 DEF Users
  <2> QED
    BY <2>2, <1>9 DEF IInv, Counted
<1>12. Keeps' /\ Unique' /\ LockHeld'
  <2>1. proc' = proc /\ \A q \in Procs : proc[q].b \in Bufs
    BY <1>1, <1>7, Types
  <2>2. Keeps'
    BY <2>1, <1>9 DEF IInv, Keeps
  <2>3. Unique'
    BY <1>9 DEF IInv, Unique
  <2>4. LockHeld'
    BY <2>1, <1>9 DEF IInv, LockHeld
  <2> QED
    BY <2>2, <2>3, <2>4
<1>13. \A q \in Procs : proc[q].step = "start" => proc[q].b # b
  <2>1. PICK r \in Procs : proc[r].step = "wait" /\ proc[r].b = b
    BY <1>4 DEF IInv, QueueWaits
  <2> QED
    BY <2>1 DEF IInv, LockHeld, Busy
<1>14. Filled'
  <2>1. \A c \in Bufs : buf'[c].dirty => buf'[c].valid
    BY <1>9 DEF IInv, Filled
  <2>2. ASSUME NEW q \in Procs
        PROVE  /\ proc[q].step = "hold" => buf'[proc[q].b].valid
               /\ proc[q].step = "start" => ~Finished(proc[q].b)'
    BY <1>1, <1>7, <1>9, <1>10, <1>13, Types, Zenon DEF IInv, Filled
  <2> QED
    BY <1>7, <2>1, <2>2, Zenon DEF Filled
<1>15. QueueOnce'
  <2> SUFFICES ASSUME NEW i \in DOMAIN idequeue', NEW j \in DOMAIN idequeue',
                      idequeue'[i] = idequeue'[j]
               PROVE  i = j
    BY DEF QueueOnce
  <2>1. i \in Nat /\ j \in Nat
    BY <1>3, <1>7
  <2>2. i + 1 = j + 1
    BY <1>3, <1>7 DEF IInv, QueueOnce
  <2> QED
    BY <2>1, <2>2
<1>16. Queued' = Queued \ {b}
  <2>1. ASSUME NEW c \in Queued' PROVE c \in Queued /\ c # b
    <3>1. PICK i \in DOMAIN Tail(idequeue) : c = Tail(idequeue)[i]
      BY <1>7 DEF Queued
    <3>2. i + 1 # 1
      BY <1>3
    <3> QED
      BY <3>1, <3>2, <1>3 DEF Queued, IInv, QueueOnce
  <2>2. ASSUME NEW c \in Queued, c # b PROVE c \in Queued'
    <3>1. PICK i \in DOMAIN idequeue : c = idequeue[i]
      BY DEF Queued
    <3>2. i # 1
      BY <3>1, <2>2, <1>3
    <3> QED
      BY <3>1, <3>2, <1>3, <1>7, Zenon DEF Queued
  <2> QED
    BY <2>1, <2>2
<1>17. QueueWaits'
  <2>1. ASSUME NEW c \in Queued'
        PROVE  ~Finished(c)' /\ \E q \in Procs : proc[q].step = "wait" /\ proc[q].b = c
    BY <1>1, <1>10, <1>16, Types DEF IInv, QueueWaits
  <2>2. ASSUME NEW q \in Procs, proc[q].step = "wait"
        PROVE  proc[q].b \in Queued' \/ Finished(proc[q].b)'
    BY <2>2, <1>1, <1>7, <1>10, <1>16, Types DEF IInv, QueueWaits
  <2> QED
    BY <1>7, <2>1, <2>2 DEF QueueWaits
<1>18. \A c \in Bufs : c # b => buf[c].blockno # k
  BY <1>5, BuffersAssumption DEF IInv, Unique
<1>19. Cached(k) = {b}
  BY <1>5, <1>18 DEF Cached
<1>20. /\ k \notin failed' => ~error /\ k \notin failed
       /\ failed \subseteq failed'
  BY <1>7
<1>21. k \notin failed' => buf'[b].data = truth[k] /\ disk'[k] = truth[k]
  <2> SUFFICES ASSUME k \notin failed' PROVE buf'[b].data = truth[k] /\ disk'[k] = truth[k]
    OBVIOUS
  <2>1. CASE buf[b].dirty
    <3>1. buf[b].valid
      BY <2>1 DEF IInv, Filled
    <3>2. buf[b].data = truth[k]
      BY <3>1, <1>19, <1>20 DEF IInv, ReadsLastWrite
    <3>3. disk'[k] = buf[b].data
      BY <2>1, <1>1, <1>7 DEF TypeOK
    <3> QED
      BY <2>1, <3>2, <3>3, <1>9
  <2>2. CASE ~buf[b].dirty
    <3>1. ~buf[b].valid
      BY <2>2, <1>4 DEF Finished
    <3>2. disk[k] = truth[k]
      BY <3>1, <1>19, <1>20 DEF IInv, ReadsLastWrite
    <3> QED
      BY <2>2, <3>2, <1>7, <1>9, <1>20
  <2> QED
    BY <2>1, <2>2
<1>22. \A j \in Blocks : j # k => disk'[j] = disk[j]
  BY <1>1, <1>7 DEF TypeOK
<1>23. CleanOnDisk'
  <2> SUFFICES ASSUME NEW c \in Bufs, buf'[c].blockno \in Blocks \ failed',
                      buf'[c].valid /\ ~buf'[c].dirty
               PROVE  disk'[buf'[c].blockno] = truth[buf'[c].blockno]
    BY <1>7, Zenon DEF CleanOnDisk
  <2>1. CASE c = b
    BY <2>1, <1>5, <1>9, <1>21
  <2>2. CASE c # b
    BY <2>2, <1>9, <1>18, <1>20, <1>22 DEF IInv, CleanOnDisk
  <2> QED
    BY <2>1, <2>2
<1>24. ReadsLastWrite'
  <2> SUFFICES ASSUME NEW j \in Blocks \ failed'
               PROVE  /\ \A c \in Cached(j)' : buf'[c].valid => buf'[c].data = truth[j]
                      /\ (\A c \in Cached(j)' : ~buf'[c].valid) => disk'[j] = truth[j]
    BY <1>7, Zenon DEF ReadsLastWrite
  <2>1. Cached(j)' = Cached(j) /\ Cached(j) \subseteq Bufs
    BY <1>9 DEF Cached
  <2>2. CASE j = k
    BY <2>1, <2>2, <1>19, <1>21
  <2>3. CASE j # k
    <3>1. b \notin Cached(j) /\ disk'[j] = disk[j] /\ j \notin failed
      BY <2>3, <1>5, <1>20, <1>22 DEF Cached
    <3> QED
      BY <3>1, <2>1, <1>9 DEF IInv, ReadsLastWrite
  <2> QED
    BY <2>2, <2>3
<1>25. SleepsAt'
  BY <1>7 DEF IInv, SleepsAt
<1>26. Sleepers'
  <2> SUFFICES ASSUME NEW q \in asleep'
               PROVE  IF proc[q].step = "lock" THEN buf'[proc[q].b].locked # NONE
                      ELSE proc[q].b \in Queued'
    BY <1>7, Zenon DEF Sleepers
  <2>1. q \in asleep /\ q \in Procs /\ proc[q].b \in Bufs
    BY <1>1, <1>7, Types
  <2>2. CASE proc[q].step = "lock"
    BY <2>1, <2>2, <1>9 DEF IInv, Sleepers
  <2>3. CASE proc[q].step # "lock"
    <3>1. proc[q].step = "wait" /\ proc[q].b \in Queued
      BY <2>1, <2>3 DEF IInv, SleepsAt, Sleepers
    <3>2. proc[q].b # b
      BY <2>1, <3>1, <1>7 DEF Woken
    <3> QED
      BY <2>3, <3>1, <3>2, <1>16
  <2> QED
    BY <2>2, <2>3
<1>27. Controller'
  <2>1. CASE Tail(idequeue) = << >>
    BY <2>1, <1>7 DEF Controller, NextCommand
  <2>2. CASE Tail(idequeue) # << >>
    <3>1. PICK c \in Queued' : c = Head(Tail(idequeue))
      BY <2>2, <1>3, <1>7, TailRange, Zenon DEF Queued
    <3>2. c \in Queued /\ c # b /\ c \in Bufs
      BY <1>1, <1>16, Types
    <3>3. IdeStart(c)' = IdeStart(c) /\ IdeStart(c) # NONE
      BY <3>2, <1>9, QueuedCommand DEF IdeStart
    <3>4. command' = IdeStart(c) /\ Head(idequeue') = c /\ idequeue' # << >>
      BY <2>2, <3>1, <1>7 DEF NextCommand
    <3>5. IdeStart(Head(idequeue))' = IdeStart(c)'
      BY <3>4 DEF IdeStart
    <3> QED
      BY <3>3, <3>4, <3>5 DEF Controller
  <2> QED
    BY <2>1, <2>2
<1> QED
  BY <1>8, <1>11, <1>12, <1>14, <1>15, <1>17, <1>23, <1>24, <1>25, <1>26, <1>27 DEF IInv

(* -------- the other steps keep it; the theorems -------------------------- *)

\* brelse() gives up the lock.
LEMMA BrelseKeeps ==
  ASSUME IInv, NEW p \in Procs, Brelse(p)
  PROVE  IInv'
<1>1. PICK b \in Bufs : b = proc[p].b
  BY Types DEF IInv
<1>2. /\ proc[p].step = "hold" /\ p \notin asleep
      /\ buf' = [buf EXCEPT ![b].locked = NONE]
      /\ asleep' = asleep \ Woken("lock", b)
      /\ proc' = [proc EXCEPT ![p].step = "release"]
      /\ UNCHANGED <<lru, idequeue, command, disk, panicked, truth, failed>>
  BY <1>1 DEF Brelse, At, hist, Goes
<1>3. TypeOK
  BY DEF IInv
<1>4. buf' \in [Bufs -> Buf]
  <2>1. buf \in [Bufs -> Buf]
    BY <1>3 DEF TypeOK, Buf
  <2>2. [buf[b] EXCEPT !.locked = NONE] \in Buf
    BY <2>1 DEF Buf
  <2> QED
    BY <1>2, <2>1, <2>2
<1>5. \A c \in Bufs : /\ c # b => buf'[c] = buf[c]
                      /\ buf'[c].blockno = buf[c].blockno /\ buf'[c].valid = buf[c].valid
                      /\ buf'[c].dirty = buf[c].dirty /\ buf'[c].data = buf[c].data
                      /\ buf'[c].refcnt = buf[c].refcnt
  BY <1>2, <1>3 DEF TypeOK
<1>6. /\ proc' \in [Procs -> [step : Steps, b : Bufs, want : Blocks \union {NONE}]]
      /\ \A q \in Procs : q # p => proc'[q] = proc[q]
      /\ proc'[p].step = "release" /\ proc'[p].b = b
      /\ Counted' /\ Keeps' /\ Unique'
  <2>1. "release" \in Steps
    BY DEF Steps
  <2> QED
    BY <1>1, <1>2, <1>5, <2>1, Moves, Zenon
<1>7. /\ \A c \in Bufs : Finished(c)' <=> Finished(c)
      /\ CleanOnDisk' /\ ReadsLastWrite'
  BY <1>2, <1>5, SameContents
<1>8. \A q \in Procs : proc[q].step \in Busy /\ proc[q].b = b => q = p
  BY <1>1, <1>2, HolderAlone
<1>9. TypeOK'
  BY <1>2, <1>3, <1>4, <1>6 DEF TypeOK, Buf
<1>10. LockHeld'
  BY <1>3, <1>5, <1>6, <1>8, Types DEF IInv, LockHeld, Busy
<1>11. SleepsAt'
  BY <1>2, <1>3, <1>6, Types DEF IInv, SleepsAt
<1>12. Filled'
  <2>1. Filled
    BY DEF IInv
  <2>2. \A c \in Bufs : buf'[c].dirty => buf'[c].valid
    BY <1>5, <2>1 DEF Filled
  <2>3. ASSUME NEW q \in Procs
        PROVE  /\ proc'[q].step = "hold" => buf'[proc'[q].b].valid
               /\ proc'[q].step = "start" => ~Finished(proc[q].b)'
    <3>1. CASE q = p
      BY <1>6, <3>1
    <3>2. CASE q # p
      <4>1. proc'[q] = proc[q] /\ proc[q].b \in Bufs
        BY <1>3, <1>6, <3>2, Types
      <4>2. buf'[proc[q].b].valid = buf[proc[q].b].valid
        BY <1>5, <4>1
      <4>3. Finished(proc[q].b)' <=> Finished(proc[q].b)
        BY <1>7, <4>1
      <4> QED
        BY <2>1, <4>1, <4>2, <4>3 DEF Filled
    <3> QED
      BY <3>1, <3>2
  <2> QED
    BY <2>2, <2>3 DEF Filled
<1>13. QueueOnce' /\ Queued' = Queued
  BY <1>2 DEF IInv, QueueOnce, Queued
<1>14. QueueWaits'
  <2>1. QueueWaits
    BY DEF IInv
  <2> QED
    BY <1>2, <1>3, <1>6, <1>7, <1>13, <2>1, WaitersKept
<1>15. Sleepers'
  <2> SUFFICES ASSUME NEW q \in asleep'
               PROVE  IF proc'[q].step = "lock" THEN buf'[proc'[q].b].locked # NONE
                      ELSE proc'[q].b \in Queued
    BY <1>13 DEF Sleepers
  <2>1. q \in asleep /\ proc'[q] = proc[q] /\ proc[q].b \in Bufs
    BY <1>2, <1>3, <1>6, Types
  <2>2. proc[q].step = "lock" => proc[q].b # b
    BY <2>1, <1>2 DEF Woken
  <2>3. Sleepers
    BY DEF IInv
  <2>4. proc[q].step = "lock" => buf'[proc[q].b] = buf[proc[q].b]
    BY <1>5, <2>1, <2>2
  <2> QED
    BY <2>1, <2>3, <2>4 DEF Sleepers
<1>16. Controller'
  BY <1>2, <1>3, <1>5, Types, ControllerKept DEF IInv
<1> QED
  BY <1>6, <1>7, <1>9, <1>10, <1>11, <1>12, <1>13, <1>14, <1>15, <1>16 DEF IInv

\* brelse() gives up the reference.
LEMMA BrelseEndsKeeps ==
  ASSUME IInv, NEW p \in Procs, BrelseEnds(p)
  PROVE  IInv'
<1>1. PICK b \in Bufs : b = proc[p].b
  BY Types DEF IInv
<1>2. /\ proc[p].step = "release" /\ p \notin asleep
      /\ buf' = [buf EXCEPT ![b].refcnt = @ - 1]
      /\ lru' = lru \/ lru' = MoveToFront(b)
      /\ proc' = [proc EXCEPT ![p] = [step |-> "idle", b |-> 1, want |-> NONE]]
      /\ UNCHANGED <<idequeue, command, disk, asleep, panicked, truth, failed>>
  BY <1>1 DEF BrelseEnds, At, hist, Unreferenced
<1>3. TypeOK
  BY DEF IInv
<1>4. Cardinality(Users(b) \ {p}) = Cardinality(Users(b)) - 1 /\ p \in Users(b)
  <2>1. p \in Users(b)
    BY <1>1, <1>2 DEF Users
  <2> QED
    BY <2>1, UsersFinite, FS_RemoveElement
<1>5. buf[b].refcnt - 1 \in Nat /\ buf[b].refcnt = Cardinality(Users(b))
  <2>1. IsFiniteSet(Users(b) \ {p})
    BY UsersFinite, FS_RemoveElement
  <2>2. Cardinality(Users(b) \ {p}) \in Nat
    BY <2>1, FS_CardinalityType
  <2> QED
    BY <1>4, <2>2 DEF IInv, Counted
<1>6. TypeOK'
  <2>1. buf \in [Bufs -> Buf]
    BY <1>3 DEF TypeOK, Buf
  <2>2. [buf[b] EXCEPT !.refcnt = @ - 1] \in Buf
    BY <1>5, <2>1 DEF Buf
  <2>3. buf' \in [Bufs -> Buf]
    BY <1>2, <2>1, <2>2
  <2>4. 1 \in Bufs /\ \A i \in Bufs : i # 1 => i - 1 \in Bufs
    BY BuffersAssumption DEF Bufs
  <2>5. lru' \in [Bufs -> Bufs]
    BY <1>2, <1>3, <2>4, Zenon DEF TypeOK, MoveToFront
  <2>6. proc' \in [Procs -> [step : Steps, b : Bufs, want : Blocks \union {NONE}]]
    BY <1>2, <1>3, <2>4 DEF TypeOK, Steps
  <2> QED
    BY <1>2, <1>3, <2>3, <2>5, <2>6 DEF TypeOK, Buf
<1>7. /\ \A c \in Bufs : /\ c # b => buf'[c] = buf[c]
                         /\ buf'[c].blockno = buf[c].blockno /\ buf'[c].valid = buf[c].valid
                         /\ buf'[c].dirty = buf[c].dirty /\ buf'[c].data = buf[c].data
                         /\ buf'[c].locked = buf[c].locked
      /\ buf'[b].refcnt = buf[b].refcnt - 1
  BY <1>2, <1>3 DEF TypeOK
<1>8. /\ \A q \in Procs : q # p => proc'[q] = proc[q]
      /\ proc'[p].step = "idle"
  BY <1>2, <1>3 DEF TypeOK
<1>9. Counted'
  <2> SUFFICES ASSUME NEW c \in Bufs PROVE buf'[c].refcnt = Cardinality(Users(c)')
    BY DEF Counted
  <2>1. CASE c = b
    <3>1. Users(b)' = Users(b) \ {p}
      BY <1>8 DEF Users
    <3> QED
      BY <2>1, <3>1, <1>4, <1>5, <1>7
  <2>2. CASE c # b
    <3>1. Users(c)' = Users(c)
      BY <1>1, <1>8, <2>2 DEF Users
    <3> QED
      BY <3>1, <2>2, <1>7 DEF IInv, Counted
  <2> QED
    BY <2>1, <2>2
<1>10. Keeps'
  BY <1>3, <1>7, <1>8, Types DEF IInv, Keeps
<1>11. Unique'
  BY <1>7 DEF IInv, Unique
<1>12. LockHeld' /\ SleepsAt'
  BY <1>2, <1>3, <1>7, <1>8, Types DEF IInv, LockHeld, SleepsAt, Busy
<1>13. /\ \A c \in Bufs : Finished(c)' <=> Finished(c)
       /\ CleanOnDisk' /\ ReadsLastWrite'
  BY <1>2, <1>7, SameContents
<1>14. Filled'
  BY <1>3, <1>7, <1>8, <1>13, Types DEF IInv, Filled
<1>15. QueueOnce' /\ Queued' = Queued
  BY <1>2 DEF IInv, QueueOnce, Queued
<1>16. QueueWaits'
  BY <1>2, <1>3, <1>8, <1>13, <1>15, Types DEF IInv, QueueWaits
<1>17. Sleepers'
  BY <1>2, <1>3, <1>7, <1>8, <1>15, Types DEF IInv, Sleepers
<1>18. Controller'
  BY <1>2, <1>3, <1>7, Types, ControllerKept DEF IInv
<1> QED
  BY <1>6, <1>9, <1>10, <1>11, <1>12, <1>13, <1>14, <1>15, <1>16, <1>17, <1>18 DEF IInv

\* kill() wakes a process.
LEMMA KillKeeps ==
  ASSUME IInv, NEW p \in Procs, Kill(p)
  PROVE  IInv'
<1>1. /\ UNCHANGED <<buf, lru, idequeue, command, disk, proc, panicked, truth, failed>>
      /\ asleep' \subseteq asleep
  BY DEF Kill, hist
<1>2. panicked' \in BOOLEAN
  BY <1>1 DEF IInv, TypeOK
<1>3. asleep' \subseteq Procs /\ SleepsAt' /\ Sleepers'
  BY <1>1, Types DEF IInv, SleepsAt, Sleepers, Queued
<1> QED
  BY <1>1, <1>2, <1>3, OnlySleep

-----------------------------------------------------------------------------
(* The theorems.                                                              *)

\* binit() establishes the invariant.
LEMMA InitIInv == Init => IInv
<1> SUFFICES ASSUME Init PROVE IInv
  OBVIOUS
<1>1. PICK v \in Values : disk = [k \in Blocks |-> v]
  BY DEF Init
<1>2. PICK d \in Values : d = CHOOSE w \in Values : TRUE
  OBVIOUS
<1>3. /\ buf = [b \in Bufs |-> [blockno |-> NONE, valid |-> FALSE, dirty |-> FALSE,
                                refcnt |-> 0, locked |-> NONE, data |-> d]]
      /\ proc = [p \in Procs |-> [step |-> "idle", b |-> 1, want |-> NONE]]
      /\ truth = disk /\ idequeue = << >> /\ command = NONE
      /\ lru = [i \in Bufs |-> NBUF + 1 - i]
      /\ asleep = {} /\ failed = {} /\ panicked = FALSE
  BY <1>2 DEF Init
<1>4. TypeOK
  <2>1. 1 \in Bufs /\ \A i \in Bufs : NBUF + 1 - i \in Bufs
    BY BuffersAssumption DEF Bufs
  <2>2. buf \in [Bufs -> Buf]
    BY <1>3 DEF Buf
  <2>3. proc \in [Procs -> [step : Steps, b : Bufs, want : Blocks \union {NONE}]]
    BY <1>3, <2>1 DEF Steps
  <2>4. disk \in [Blocks -> Values] /\ truth \in [Blocks -> Values]
    BY <1>1, <1>3
  <2>5. lru \in [Bufs -> Bufs] /\ idequeue \in Seq(Bufs)
    BY <1>3, <2>1
  <2>6. asleep \subseteq Procs /\ failed \subseteq Blocks /\ panicked \in BOOLEAN
    BY <1>3, Zenon
  <2> QED
    BY <2>2, <2>3, <2>4, <2>5, <2>6 DEF TypeOK, Buf
<1>5. \A p \in Procs : proc[p].step = "idle"
  BY <1>3
<1>6. \A b \in Bufs : /\ buf[b].blockno = NONE /\ buf[b].refcnt = 0
                      /\ ~buf[b].valid /\ ~buf[b].dirty
  BY <1>3
<1>7. Counted
  <2>1. \A b \in Bufs : Users(b) = {}
    BY <1>5 DEF Users
  <2> QED
    BY <2>1, <1>6, FS_EmptySet DEF Counted
<1>8. Keeps /\ LockHeld /\ Filled
  BY <1>5, <1>6 DEF Keeps, LockHeld, Filled, Busy
<1>9. Unique /\ CleanOnDisk /\ ReadsLastWrite
  BY <1>3, <1>6, BuffersAssumption DEF Unique, CleanOnDisk, ReadsLastWrite, Cached
<1>10. QueueOnce /\ QueueWaits
  BY <1>3, <1>5 DEF QueueOnce, QueueWaits, Queued
<1>11. SleepsAt /\ Sleepers /\ Controller
  BY <1>3 DEF SleepsAt, Sleepers, Controller
<1> QED
  BY <1>4, <1>7, <1>8, <1>9, <1>10, <1>11 DEF IInv

\* Every step keeps it.
LEMMA NextIInv == IInv /\ [Next]_vars => IInv'
<1> SUFFICES ASSUME IInv, [Next]_vars PROVE IInv'
  OBVIOUS
<1>1. ASSUME NEW p \in Procs, Step(p) PROVE IInv'
  <2>1. CASE AcquireSleep(p)
    BY <2>1, AcquireSleepKeeps
  <2>2. CASE Iderw(p)
    BY <2>2, IderwKeeps
  <2>3. CASE IderwWoken(p)
    BY <2>3, IderwWokenKeeps
  <2>4. CASE Brelse(p)
    BY <2>4, BrelseKeeps
  <2>5. CASE BrelseEnds(p)
    BY <2>5, BrelseEndsKeeps
  <2>6. ASSUME NEW k \in Blocks, BgetHit(p, k) \/ BgetMiss(p, k) \/ BgetPanics(p, k)
        PROVE  IInv'
    BY <2>6, BgetHitKeeps, BgetMissKeeps, BgetPanicsKeeps
  <2>7. ASSUME NEW v \in Values, Bwrite(p, v) PROVE IInv'
    <3>1. /\ proc[p].step = "hold" /\ p \notin asleep /\ Changed(p, v)
          /\ proc' = [proc EXCEPT ![p].step = "start"]
          /\ UNCHANGED <<lru, idequeue, command, disk, asleep, panicked, failed>>
      BY <2>7 DEF Bwrite, At, Goes
    <3> QED
      BY <3>1, ChangedKeeps, Zenon
  <2>8. ASSUME NEW v \in Values, LogWrite(p, v) PROVE IInv'
    <3>1. /\ proc[p].step = "hold" /\ p \notin asleep /\ Changed(p, v)
          /\ UNCHANGED <<lru, idequeue, command, disk, proc, asleep, panicked, failed>>
      BY <2>8 DEF LogWrite, At
    <3>2. proc' = [proc EXCEPT ![p].step = "hold"]
      BY <3>1 DEF IInv, TypeOK
    <3> QED
      BY <3>1, <3>2, ChangedKeeps, Zenon
  <2> QED
    BY <1>1, <2>1, <2>2, <2>3, <2>4, <2>5, <2>6, <2>7, <2>8 DEF Step
<1>2. ASSUME NEW p \in Procs, Kill(p) PROVE IInv'
  BY <1>2, KillKeeps
<1>3. ASSUME NEW error \in BOOLEAN, IdeIntr(error) PROVE IInv'
  BY <1>3, IdeIntrKeeps
<1>4. CASE UNCHANGED vars
  <2>1. UNCHANGED <<buf, lru, idequeue, command, disk, proc, asleep, panicked, truth, failed>>
    BY <1>4 DEF vars
  <2>2. asleep' \subseteq Procs /\ panicked' \in BOOLEAN /\ SleepsAt' /\ Sleepers'
    BY <2>1, Types DEF IInv, TypeOK, SleepsAt, Sleepers, Queued
  <2> QED
    BY <2>1, <2>2, OnlySleep
<1> QED
  BY <1>1, <1>2, <1>3, <1>4 DEF Next, Halted

(* In every reachable state of the cache and the disk driver the invariant    *)
(* holds: references are counted, locks held, and the queue in order.         *)
THEOREM CacheInvariant == Spec => []IInv
<1> QED
  BY InitIInv, NextIInv, PTL DEF Spec

(* A block is never cached twice, the buffer of a process that has asked for  *)
(* a block is not recycled (bio.c:59), and only one process at a time is at   *)
(* work on a buffer (sleeplock.c:21).                                         *)
THEOREM CachedOnce == Spec => []OneBufferPerBlock
<1>1. IInv => OneBufferPerBlock
  <2> SUFFICES ASSUME IInv PROVE OneBufferPerBlock
    OBVIOUS
  <2>1. ASSUME NEW k \in Blocks PROVE Cardinality(Cached(k)) <= 1
    <3>1. CASE Cached(k) = {}
      BY <3>1, FS_EmptySet
    <3>2. CASE Cached(k) # {}
      <4>1. PICK b \in Bufs : Cached(k) = {b}
        BY <3>2, BuffersAssumption DEF Cached, IInv, Unique
      <4>2. Cardinality({b}) = 1
        BY FS_Singleton
      <4> QED
        BY <4>1, <4>2
    <3> QED
      BY <3>1, <3>2
  <2>2. \A p \in Procs : proc[p].step # "idle" => buf[proc[p].b].blockno = proc[p].want
    BY DEF IInv, Keeps
  <2>3. \A p, q \in Procs : /\ p # q /\ proc[p].b = proc[q].b
                            /\ {proc[p].step, proc[q].step} \subseteq {"start", "wait", "hold"}
                            => FALSE
    BY DEF IInv, LockHeld, Busy
  <2> QED
    BY <2>1, <2>2, <2>3 DEF OneBufferPerBlock
<1> QED
  BY <1>1, CacheInvariant, PTL

(* bread() gives the last contents written, through any recycling of buffers  *)
(* and any order of the requests to the disk (bio.c:97, ide.c:104).           *)
THEOREM LastWriteRead == Spec => []ReadsLastWrite
<1>1. IInv => ReadsLastWrite
  BY DEF IInv
<1> QED
  BY <1>1, CacheInvariant, PTL

(* No process sleeps for a lock that is free or for a request that is not     *)
(* queued, and the controller is at work on the first one (ide.c:104,         *)
(* sleeplock.c:26).                                                           *)
THEOREM WakersExist == Spec => []SleepersHaveWaker
<1>1. IInv => SleepersHaveWaker
  <2> SUFFICES ASSUME IInv PROVE SleepersHaveWaker
    OBVIOUS
  <2>1. \A p \in asleep :
          IF proc[p].step = "lock" THEN buf[proc[p].b].locked # NONE
          ELSE \E i \in DOMAIN idequeue : idequeue[i] = proc[p].b
    BY DEF IInv, Sleepers, Queued
  <2> QED
    BY <2>1 DEF IInv, Controller, SleepersHaveWaker
<1> QED
  BY <1>1, CacheInvariant, PTL

-----------------------------------------------------------------------------
(* bget() looks through the whole list: the list has every buffer in it.      *)

Listed == \A b \in Bufs : \E i \in Bufs : lru[i] = b

Using == {p \in Procs : proc[p].step # "idle"}

\* brelse() moves a buffer within the list and loses none.
LEMMA MoveToFrontListed ==
  ASSUME TypeOK, Listed, NEW b \in Bufs, lru' = MoveToFront(b)
  PROVE  Listed'
<1>1. PICK at \in Bufs : at = CHOOSE i \in Bufs : lru[i] = b
  BY DEF Listed
<1>2. lru[at] = b
  BY <1>1 DEF Listed
<1>3. lru' = [i \in Bufs |-> IF i = 1 THEN b ELSE IF i <= at THEN lru[i - 1] ELSE lru[i]]
  BY <1>1 DEF MoveToFront
<1>4. 1 \in Bufs /\ Bufs \subseteq Nat
  BY BuffersAssumption DEF Bufs
<1>5. ASSUME NEW c \in Bufs PROVE \E i \in Bufs : lru'[i] = c
  <2>1. PICK i \in Bufs : lru[i] = c
    BY DEF Listed
  <2>2. CASE i = at
    BY <2>1, <2>2, <1>2, <1>3, <1>4
  <2>3. CASE i < at
    <3>1. i + 1 \in Bufs /\ i + 1 # 1 /\ i + 1 <= at /\ (i + 1) - 1 = i
      BY <2>3, <1>4, BuffersAssumption DEF Bufs
    <3> QED
      BY <3>1, <2>1, <1>3
  <2>4. CASE i > at
    <3>1. i # 1 /\ ~(i <= at)
      BY <2>4, <1>4 DEF Bufs
    <3> QED
      BY <3>1, <2>1, <1>3
  <2> QED
    BY <2>2, <2>3, <2>4, <1>4
<1> QED
  BY <1>5 DEF Listed

\* Only brelse() changes the list, and only bget() panics.
LEMMA ListAndPanic ==
  ASSUME TypeOK, [Next]_vars
  PROVE  /\ lru' = lru \/ \E b \in Bufs : lru' = MoveToFront(b)
         /\ \/ panicked' = panicked /\ (panicked => UNCHANGED vars)
            \/ \E p \in Procs, k \in Blocks : BgetPanics(p, k)
<1>1. ASSUME NEW p \in Procs, Step(p), ~panicked
      PROVE  /\ lru' = lru \/ \E b \in Bufs : lru' = MoveToFront(b)
             /\ panicked' = panicked \/ \E k \in Blocks : BgetPanics(p, k)
  <2>1. CASE BrelseEnds(p)
    <3>1. proc[p].b \in Bufs
      BY Types
    <3> QED
      BY <2>1, <3>1 DEF BrelseEnds
  <2>2. CASE AcquireSleep(p) \/ Iderw(p) \/ IderwWoken(p) \/ Brelse(p)
    BY <2>2 DEF AcquireSleep, Iderw, IderwWoken, Brelse
  <2>3. ASSUME NEW k \in Blocks, BgetHit(p, k) \/ BgetMiss(p, k)
        PROVE  lru' = lru /\ panicked' = panicked
    BY <2>3, Zenon DEF BgetHit, BgetMiss
  <2>4. ASSUME NEW k \in Blocks, BgetPanics(p, k) PROVE lru' = lru
    BY <2>4 DEF BgetPanics
  <2>5. ASSUME NEW v \in Values, Bwrite(p, v) \/ LogWrite(p, v)
        PROVE  lru' = lru /\ panicked' = panicked
    BY <2>5 DEF Bwrite, LogWrite
  <2> QED
    BY <1>1, <2>1, <2>2, <2>3, <2>4, <2>5 DEF Step
<1>2. ASSUME NEW p \in Procs, Kill(p) PROVE lru' = lru /\ panicked' = panicked
  BY <1>2 DEF Kill
<1>3. ASSUME NEW error \in BOOLEAN, IdeIntr(error) PROVE lru' = lru /\ panicked' = panicked
  BY <1>3 DEF IdeIntr
<1>4. CASE UNCHANGED vars
  BY <1>4 DEF vars
<1> QED
  BY <1>1, <1>2, <1>3, <1>4 DEF Next, Halted

\* If no buffer can be recycled, there are as many users and pinned buffers.
LEMMA NoneRecyclable ==
  ASSUME IInv, Listed, \A i \in Bufs : ~Recyclable(lru[i])
  PROVE  NBUF <= Cardinality(Using) + Cardinality(Pinned)
<1>1. \A b \in Bufs : ~Recyclable(b)
  BY DEF Listed
<1> DEFINE held == {proc[p].b : p \in Using}
           f == [p \in Using |-> proc[p].b]
<1>2. IsFiniteSet(Using) /\ Cardinality(Using) \in Nat
  <2>1. Using \subseteq Procs
    BY DEF Using
  <2> QED
    BY <2>1, FS_Subset, FS_CardinalityType, BuffersAssumption
<1>3. f \in Surjection(Using, held)
  BY DEF Surjection
<1>4. IsFiniteSet(held) /\ Cardinality(held) <= Cardinality(Using)
  BY <1>2, <1>3, FS_Surjection
<1>5. IsFiniteSet(Bufs) /\ Cardinality(Bufs) = NBUF
  <2>1. NBUF \in Int /\ 1 \in Int /\ ~(1 > NBUF) /\ NBUF - 1 + 1 = NBUF
    BY BuffersAssumption
  <2> QED
    BY <2>1, FS_Interval DEF Bufs
<1>6. IsFiniteSet(Pinned)
  <2>1. Pinned \subseteq Bufs
    BY DEF Pinned
  <2> QED
    BY <2>1, <1>5, FS_Subset
<1>7. Bufs \subseteq held \union Pinned
  <2> SUFFICES ASSUME NEW b \in Bufs, b \notin Pinned PROVE b \in held
    OBVIOUS
  <2>1. buf[b].refcnt # 0
    BY <1>1 DEF Pinned, Recyclable
  <2>2. Users(b) # {}
    BY <2>1, FS_EmptySet DEF IInv, Counted
  <2>3. PICK p \in Procs : proc[p].step # "idle" /\ proc[p].b = b
    BY <2>2 DEF Users
  <2> QED
    BY <2>3 DEF Using
<1>8. /\ IsFiniteSet(held \union Pinned)
      /\ Cardinality(held \union Pinned)
         = Cardinality(held) + Cardinality(Pinned) - Cardinality(held \cap Pinned)
  BY <1>4, <1>6, FS_Union, Zenon
<1>9. IsFiniteSet(held \cap Pinned)
  <2>1. held \cap Pinned \subseteq held
    OBVIOUS
  <2> QED
    BY <2>1, <1>4, FS_Subset
<1>10. /\ Cardinality(held) \in Nat /\ Cardinality(Pinned) \in Nat
       /\ Cardinality(held \cap Pinned) \in Nat
  BY <1>4, <1>6, <1>9, FS_CardinalityType
<1>11. NBUF <= Cardinality(held \union Pinned)
  BY <1>5, <1>7, <1>8, FS_Subset
<1>12. NBUF \in Nat
  BY BuffersAssumption
<1> HIDE DEF held
<1> QED
  BY <1>2, <1>4, <1>8, <1>10, <1>11, <1>12

(* bget() panics for want of a buffer (bio.c:92) only when every buffer is in *)
(* use or pinned, however many references have come and gone.                 *)
THEOREM PanicOnlyIfInUse == Spec => []OutOfBuffersOnlyIfInUse
<1>1. Init => Listed /\ OutOfBuffersOnlyIfInUse
  <2> SUFFICES ASSUME Init PROVE Listed /\ OutOfBuffersOnlyIfInUse
    OBVIOUS
  <2>1. ~panicked /\ lru = [i \in Bufs |-> NBUF + 1 - i]
    BY DEF Init
  <2>2. \A b \in Bufs : NBUF + 1 - b \in Bufs /\ NBUF + 1 - (NBUF + 1 - b) = b
    BY BuffersAssumption DEF Bufs
  <2> QED
    BY <2>1, <2>2 DEF Listed, OutOfBuffersOnlyIfInUse
<1>2. IInv /\ Listed /\ OutOfBuffersOnlyIfInUse /\ [Next]_vars
      => Listed' /\ OutOfBuffersOnlyIfInUse'
  <2> SUFFICES ASSUME IInv, Listed, OutOfBuffersOnlyIfInUse, [Next]_vars
               PROVE  Listed' /\ OutOfBuffersOnlyIfInUse'
    OBVIOUS
  <2>0. TypeOK
    BY DEF IInv
  <2>1. Listed'
    <3>1. CASE lru' = lru
      BY <3>1 DEF Listed
    <3>2. ASSUME NEW b \in Bufs, lru' = MoveToFront(b) PROVE Listed'
      BY <3>2, <2>0, MoveToFrontListed
    <3> QED
      BY <3>1, <3>2, <2>0, ListAndPanic
  <2>2. ASSUME panicked' = panicked, panicked => UNCHANGED vars
        PROVE  OutOfBuffersOnlyIfInUse'
    <3>1. CASE ~panicked
      BY <2>2, <3>1 DEF OutOfBuffersOnlyIfInUse
    <3>2. CASE panicked
      <4>1. proc' = proc /\ buf' = buf
        BY <2>2, <3>2 DEF vars
      <4>2. Using' = Using /\ Pinned' = Pinned
        BY <4>1 DEF Using, Pinned
      <4> QED
        BY <3>2, <4>2 DEF OutOfBuffersOnlyIfInUse, Using
    <3> QED
      BY <3>1, <3>2
  <2>3. ASSUME NEW p \in Procs, NEW k \in Blocks, BgetPanics(p, k)
        PROVE  OutOfBuffersOnlyIfInUse'
    <3>1. NBUF <= Cardinality(Using) + Cardinality(Pinned)
      BY <2>3, NoneRecyclable DEF BgetPanics
    <3>2. Using' = Using /\ Pinned' = Pinned
      BY <2>3 DEF BgetPanics, Using, Pinned
    <3> QED
      BY <3>1, <3>2, Zenon DEF OutOfBuffersOnlyIfInUse, Using
  <2> QED
    BY <2>0, <2>1, <2>2, <2>3, ListAndPanic
<1> QED
  BY <1>1, <1>2, CacheInvariant, PTL DEF Spec
============================================================================
