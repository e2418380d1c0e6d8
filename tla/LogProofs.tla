----------------------------- MODULE LogProofs ------------------------------
(* Proofs about Log: the space begin_op() reserves is never exceeded, no call *)
(* sleeps for ever in begin_op(), and no call starts during a commit.         *)
EXTENDS Log, FiniteSetTheorems, TLAPS

Active == {o \in Ops : op[o] = "active"}

\* The counters of struct log and the phases of a commit agree with the calls.
Bookkeeping ==
  /\ outstanding = Cardinality(Active)
  /\ \A o \in Ops : IsFiniteSet(wrote[o])
  /\ \A o \in Ops : IF op[o] = "active" THEN wrote[o] \subseteq Logged ELSE wrote[o] = {}
  /\ \A o \in Ops : target[o] # NULL =>
       op[o] = "active" /\ (target[o] \in wrote[o] \/ Cardinality(wrote[o]) < MAXOPBLOCKS)
  /\ phase # "idle" => Active = {}
  /\ phase = "idle" => ~committing
  /\ phase = "boot" => ~committing
  /\ phase \in {"write_log", "finish"} => committing
  /\ (phase = "idle" /\ outstanding = 0) \/ phase = "finish" => lh = << >>
  /\ Len(head) <= LOGSIZE

SInv == TypeOK /\ Bookkeeping /\ SpaceReserved /\ NoEndDuringCommit /\ SleepersWoken

\* What the proofs need of the constants and of the types of the counters.
LEMMA Numbers ==
  ASSUME SInv
  PROVE  /\ MAXOPBLOCKS \in Nat /\ MAXOPBLOCKS >= 1 /\ LOGSIZE \in Nat /\ MAXOPBLOCKS <= LOGSIZE
         /\ lh \in Seq(Blocks) /\ Len(lh) \in Nat /\ outstanding \in Nat
         /\ head \in Seq(Blocks) /\ Len(head) \in Nat
<1>1. lh \in Seq(Blocks) /\ outstanding \in Nat /\ head \in Seq(Blocks)
  BY DEF SInv, TypeOK
<1>2. MAXOPBLOCKS \in Nat /\ MAXOPBLOCKS >= 1 /\ LOGSIZE \in Nat /\ MAXOPBLOCKS <= LOGSIZE
  BY LogAssumption
<1>3. QED
  BY <1>1, <1>2

\* A set of reservations of the calls in A has at most MAXOPBLOCKS for each.
LEMMA Reservations ==
  ASSUME NEW A \in SUBSET Ops, NEW R \in SUBSET (A \X (1..MAXOPBLOCKS))
  PROVE  /\ IsFiniteSet(R) /\ Cardinality(R) \in Nat
         /\ IsFiniteSet(A) /\ Cardinality(A) \in Nat
         /\ Cardinality(R) <= Cardinality(A) * MAXOPBLOCKS
<1>1. IsFiniteSet(A) /\ Cardinality(A) \in Nat
  BY LogAssumption, FS_Subset, FS_CardinalityType
<1>2. IsFiniteSet(1..MAXOPBLOCKS) /\ Cardinality(1..MAXOPBLOCKS) = MAXOPBLOCKS
  <2>1. MAXOPBLOCKS \in Int /\ 1 \in Int /\ MAXOPBLOCKS >= 1
    BY LogAssumption
  <2>2. /\ IsFiniteSet(1..MAXOPBLOCKS)
        /\ Cardinality(1..MAXOPBLOCKS) = IF 1 > MAXOPBLOCKS THEN 0 ELSE MAXOPBLOCKS - 1 + 1
    BY <2>1, FS_Interval
  <2>3. QED
    BY <2>1, <2>2
<1>3. /\ IsFiniteSet(A \X (1..MAXOPBLOCKS))
      /\ Cardinality(A \X (1..MAXOPBLOCKS)) = Cardinality(A) * MAXOPBLOCKS
  BY <1>1, <1>2, FS_Product, Zenon
<1>4. QED
  BY <1>1, <1>3, FS_Subset, FS_CardinalityType

\* The reservations are those of the calls in progress.
LEMMA ReservedActive ==
  /\ Reserved \in SUBSET (Active \X (1..MAXOPBLOCKS))
  /\ Reserved' \in SUBSET (Active' \X (1..MAXOPBLOCKS))
  /\ Active \in SUBSET Ops /\ Active' \in SUBSET Ops
BY DEF Reserved, Active

\* With fewer reservations and no more logged, the space still suffices.
LEMMA LessReserved ==
  ASSUME SInv, Len(lh') <= Len(lh), Len(lh') \in Nat, Reserved' \subseteq Reserved
  PROVE  SpaceReserved'
<1>1. /\ IsFiniteSet(Reserved) /\ Cardinality(Reserved) \in Nat
      /\ IsFiniteSet(Reserved') /\ Cardinality(Reserved') \in Nat
  BY Reservations, ReservedActive
<1>2. Cardinality(Reserved') <= Cardinality(Reserved)
  BY <1>1, FS_Subset
<1>3. Len(lh) \in Nat /\ Len(lh) + Cardinality(Reserved) <= LOGSIZE /\ LOGSIZE \in Nat
  BY Numbers DEF SInv, SpaceReserved
<1>4. QED
  BY <1>1, <1>2, <1>3 DEF SpaceReserved

\* When no call is in progress only the length of the log counts.
LEMMA NoneReserved ==
  ASSUME Active' = {}, Len(lh') <= LOGSIZE, Len(lh') \in Nat
  PROVE  SpaceReserved'
<1>1. Reserved' = {}
  BY ReservedActive
<1>2. QED
  BY <1>1, FS_EmptySet DEF SpaceReserved

\* The log never has more than LOGSIZE blocks.
LEMMA LogShort ==
  ASSUME SInv
  PROVE  Len(lh) \in Nat /\ Len(lh) <= LOGSIZE
<1>1. Cardinality(Reserved) \in Nat
  BY Reservations, ReservedActive
<1>2. QED
  BY <1>1, Numbers DEF SInv, SpaceReserved

\* The invariant holds when the machine is first switched on.
LEMMA InitSInv == Init => SInv
<1> SUFFICES ASSUME Init PROVE SInv
  OBVIOUS
<1>1. Active = {} /\ Reserved = {}
  BY DEF Init, Active, Reserved
<1>2. Cardinality(Active) = 0 /\ Cardinality(Reserved) = 0 /\ IsFiniteSet({})
  BY <1>1, FS_EmptySet
<1>3. TypeOK
  <2>1. committing \in BOOLEAN
    BY Zenon DEF Init
  <2>2. QED
    BY <2>1 DEF Init, TypeOK
<1>4. QED
  BY <1>1, <1>2, <1>3, LogAssumption
     DEF Init, SInv, Bookkeeping, SpaceReserved, NoEndDuringCommit, SleepersWoken

\* Every step keeps the types.
LEMMA TypeNext ==
  ASSUME SInv, Next
  PROVE  TypeOK'
<1> USE DEF disk, memory
<1>0. TypeOK /\ committing \in BOOLEAN
  BY DEF SInv, TypeOK
<1>1. ASSUME NEW o \in Ops, BeginOp(o) PROVE TypeOK'
  <2>1. committing' \in BOOLEAN
    BY <1>0, <1>1 DEF BeginOp
  <2>2. outstanding' \in Nat /\ op' \in [Ops -> {"idle", "asleep", "active", "commit"}]
    <3>1. outstanding \in Nat /\ op \in [Ops -> {"idle", "asleep", "active", "commit"}]
      BY <1>0 DEF TypeOK
    <3>2. CASE MayBegin
      BY <1>1, <3>1, <3>2 DEF BeginOp, Counted
    <3>3. CASE ~MayBegin
      BY <1>1, <3>1, <3>3 DEF BeginOp
    <3>4. QED
      BY <3>2, <3>3
  <2>3. UNCHANGED <<home, logblk, head, lh, cache, dirty, phase, tail, target, wrote, panic>>
    BY <1>1 DEF BeginOp
  <2>4. QED
    BY <1>0, <2>1, <2>2, <2>3 DEF TypeOK
<1>2. ASSUME NEW o \in Ops, EndOp(o) PROVE TypeOK'
  <2>1. committing' \in BOOLEAN
    BY <1>0, <1>2, Zenon DEF EndOp
  <2>2. outstanding' \in Nat
    <3>1. outstanding \in Nat /\ outstanding = Cardinality(Active) /\ o \in Active
      BY <1>2 DEF SInv, TypeOK, Bookkeeping, EndOp, Active
    <3>2. outstanding # 0
      BY <3>1, Reservations, ReservedActive, FS_EmptySet
    <3>3. QED
      BY <1>2, <3>1, <3>2 DEF EndOp
  <2>3. op' \in [Ops -> {"idle", "asleep", "active", "commit"}]
    BY <1>0, <1>2 DEF EndOp, TypeOK
  <2>4. /\ wrote' \in [Ops -> SUBSET Blocks]
        /\ tail' \in Nat /\ tail' > 0
        /\ phase' \in {"boot", "idle", "write_log", "install", "finish"}
        /\ panic' \in {"none", "too_big", "committing"}
    <3>1. wrote \in [Ops -> SUBSET Blocks]
      BY <1>0 DEF TypeOK
    <3>2. wrote' = [wrote EXCEPT ![o] = {}]
      BY <1>2 DEF EndOp
    <3>3. wrote' \in [Ops -> SUBSET Blocks]
      BY <3>1, <3>2
    <3>4. /\ tail' \in {1, tail} /\ phase' \in {phase, "finish", "write_log"}
          /\ panic' \in {panic, "committing"}
      BY <1>2 DEF EndOp
    <3>5. tail' \in Nat /\ tail' > 0
      <4>1. tail \in Nat /\ tail > 0
        BY <1>0 DEF TypeOK
      <4>2. QED
        BY <3>4, <4>1
    <3>6. phase' \in {"boot", "idle", "write_log", "install", "finish"}
      BY <1>0, <3>4 DEF TypeOK
    <3>7. panic' \in {"none", "too_big", "committing"}
      BY <1>0, <3>4 DEF TypeOK
    <3>8. QED
      BY <3>3, <3>5, <3>6, <3>7
  <2>5. UNCHANGED <<home, logblk, head, lh, cache, dirty, target>>
    BY <1>2 DEF EndOp
  <2>6. QED
    BY <1>0, <2>1, <2>2, <2>3, <2>4, <2>5 DEF TypeOK
<1>3. ASSUME NEW o \in Ops, NEW b \in Blocks, LogWriteChecks(o, b) PROVE TypeOK'
  <2>1. committing' \in BOOLEAN
    BY <1>0, <1>3 DEF LogWriteChecks
  <2>2. QED
    BY <1>0, <1>3, <2>1 DEF LogWriteChecks, TypeOK
<1>4. ASSUME NEW o \in Ops, NEW v \in Vals, LogWrite(o, v) PROVE TypeOK'
  <2>1. committing' \in BOOLEAN
    BY <1>0, <1>4 DEF LogWrite
  <2>2. target[o] \in Blocks
    BY <1>0, <1>4 DEF LogWrite, TypeOK
  <2>3. /\ cache' \in [Blocks -> Vals \cup {NULL}]
        /\ lh' \in Seq(Blocks)
        /\ dirty' \subseteq Blocks
    <3>1. /\ cache' = [cache EXCEPT ![target[o]] = v] /\ lh' \in {lh, Append(lh, target[o])}
          /\ dirty' = dirty \cup {target[o]}
      BY <1>4 DEF LogWrite, Pinned
    <3>2. cache \in [Blocks -> Vals \cup {NULL}] /\ lh \in Seq(Blocks) /\ dirty \subseteq Blocks
      BY <1>0 DEF TypeOK
    <3>3. QED
      BY <2>2, <3>1, <3>2
  <2>4. /\ wrote' \in [Ops -> SUBSET Blocks]
        /\ target' \in [Ops -> Blocks \cup {NULL}]
    BY <1>0, <1>4, <2>2 DEF LogWrite, TypeOK
  <2>5. UNCHANGED <<home, logblk, head, outstanding, phase, tail, op, panic>>
    BY <1>4 DEF LogWrite
  <2>6. QED
    BY <1>0, <2>1, <2>3, <2>4, <2>5 DEF TypeOK
<1>5. CASE WriteLog
  <2>1. committing' \in BOOLEAN
    BY <1>0, <1>5 DEF WriteLog
  <2>2. lh[tail] \in Blocks
    BY <1>0, <1>5 DEF WriteLog, TypeOK
  <2>3. Data(lh[tail]) \in Vals
    BY <1>0, <2>2 DEF Data, TypeOK
  <2>4. logblk' \in [1..LOGSIZE -> Vals] /\ tail' \in Nat /\ tail' > 0
    <3>1. logblk' = [logblk EXCEPT ![tail] = Data(lh[tail])] /\ tail' = tail + 1
      BY <1>5 DEF WriteLog
    <3>2. logblk \in [1..LOGSIZE -> Vals] /\ tail \in Nat /\ tail > 0
      BY <1>0 DEF TypeOK
    <3>3. logblk' \in [1..LOGSIZE -> Vals]
      BY <2>3, <3>1, <3>2, Zenon
    <3>4. tail' \in Nat /\ tail' > 0
      BY <3>1, <3>2
    <3>5. QED
      BY <3>3, <3>4
  <2>5. UNCHANGED <<home, head, lh, outstanding, cache, dirty, phase, op, target, wrote, panic>>
    BY <1>5 DEF WriteLog
  <2>6. QED
    BY <1>0, <2>1, <2>4, <2>5 DEF TypeOK
<1>6. CASE WriteHead
  <2>1. committing' \in BOOLEAN
    BY <1>0, <1>6 DEF WriteHead
  <2>2. QED
    BY <1>0, <1>6, <2>1 DEF WriteHead, TypeOK
<1>7. CASE ReadHead
  <2>1. committing' \in BOOLEAN
    BY <1>0, <1>7 DEF ReadHead
  <2>2. QED
    BY <1>0, <1>7, <2>1 DEF ReadHead, TypeOK
<1>8. CASE InstallTrans
  <2>1. committing' \in BOOLEAN
    BY <1>0, <1>8 DEF InstallTrans
  <2>2. lh[tail] \in Blocks /\ tail \in 1..LOGSIZE
    BY <1>0, <1>8, LogShort, Numbers DEF InstallTrans, TypeOK
  <2>3. logblk[tail] \in Vals
    BY <1>0, <2>2 DEF TypeOK
  <2>4. QED
    BY <1>0, <1>8, <2>1, <2>2, <2>3 DEF InstallTrans, TypeOK
<1>9. CASE EraseHead
  <2>1. committing' \in BOOLEAN
    BY <1>0, <1>9 DEF EraseHead
  <2>2. phase' \in {"finish", "idle"}
    BY <1>9 DEF EraseHead
  <2>3. QED
    BY <1>0, <1>9, <2>1, <2>2 DEF EraseHead, TypeOK
<1>10. CASE FinishCommit
  <2>1. committing' \in BOOLEAN
    BY <1>10, Zenon DEF FinishCommit
  <2>2. op' \in [Ops -> {"idle", "asleep", "active", "commit"}]
    BY <1>0, <1>10 DEF FinishCommit, TypeOK
  <2>3. QED
    BY <1>0, <1>10, <2>1, <2>2 DEF FinishCommit, TypeOK
<1>11. ASSUME NEW b \in Blocks, Read(b) \/ Evict(b) PROVE TypeOK'
  <2>1. committing' \in BOOLEAN
    BY <1>0, <1>11 DEF Read, Evict
  <2>2. QED
    <3>1. cache \in [Blocks -> Vals \cup {NULL}] /\ home \in [Blocks -> Vals]
      BY <1>0 DEF TypeOK
    <3>2. /\ \/ cache' = [cache EXCEPT ![b] = home[b]]
             \/ cache' = [cache EXCEPT ![b] = NULL]
          /\ UNCHANGED <<home, logblk, head, lh, outstanding, dirty, phase, tail, op, target, wrote, panic>>
      BY <1>11 DEF Read, Evict
    <3>3. cache' \in [Blocks -> Vals \cup {NULL}]
      BY <3>1, <3>2
    <3>4. QED
      BY <1>0, <2>1, <3>2, <3>3 DEF TypeOK
<1>12. CASE Crash
  <2>1. committing' \in BOOLEAN
    BY <1>12, Zenon DEF Crash
  <2>2. /\ cache' \in [Blocks -> Vals \cup {NULL}]
        /\ lh' \in Seq(Blocks)
        /\ op' \in [Ops -> {"idle", "asleep", "active", "commit"}]
        /\ target' \in [Ops -> Blocks \cup {NULL}]
        /\ wrote' \in [Ops -> SUBSET Blocks]
    BY <1>12 DEF Crash
  <2>3. /\ dirty' = {} /\ outstanding' = 0 /\ phase' = "boot" /\ tail' = 1 /\ panic' = "none"
        /\ UNCHANGED <<home, logblk, head>>
    BY <1>12 DEF Crash
  <2>4. dirty' \subseteq Blocks /\ outstanding' \in Nat /\ tail' \in Nat /\ tail' > 0
    BY <2>3
  <2>5. /\ phase' \in {"boot", "idle", "write_log", "install", "finish"}
        /\ panic' \in {"none", "too_big", "committing"}
    BY <2>3
  <2>6. home' \in [Blocks -> Vals] /\ logblk' \in [1..LOGSIZE -> Vals] /\ head' \in Seq(Blocks)
    BY <1>0, <2>3 DEF TypeOK
  <2>7. QED
    BY <2>1, <2>2, <2>4, <2>5, <2>6 DEF TypeOK
<1>13. QED
  BY <1>1, <1>2, <1>3, <1>4, <1>5, <1>6, <1>7, <1>8, <1>9, <1>10, <1>11, <1>12 DEF Next

\* begin_op() keeps the invariant: what it admits it has counted.
LEMMA BeginOpSInv ==
  ASSUME SInv, TypeOK', NEW o \in Ops, BeginOp(o)
  PROVE  SInv'
<1>1. /\ UNCHANGED <<home, logblk, head, lh, committing, cache, dirty, phase, tail, target, wrote, panic>>
      /\ op[o] = "idle" /\ (phase = "idle" \/ committing) /\ Logged' = Logged
      /\ op \in [Ops -> {"idle", "asleep", "active", "commit"}] /\ outstanding \in Nat
  BY DEF BeginOp, disk, Up, SInv, TypeOK, Logged
<1>2. CASE MayBegin
  <2>1. /\ outstanding' = outstanding + 1 /\ op' = [op EXCEPT ![o] = "active"]
        /\ ~committing /\ phase = "idle"
        /\ Len(lh) + (outstanding + 1) * MAXOPBLOCKS <= LOGSIZE
    BY <1>1, <1>2 DEF BeginOp, MayBegin, HasRoom, Counted
  <2>2. Active' = Active \cup {o} /\ o \notin Active
    BY <1>1, <2>1 DEF Active
  <2>3. Cardinality(Active') = outstanding + 1
    BY <2>2, Reservations, ReservedActive, FS_AddElement DEF SInv, Bookkeeping
  <2>4. Cardinality(Reserved') \in Nat /\ Cardinality(Reserved') <= (outstanding + 1) * MAXOPBLOCKS
    BY <2>3, Reservations, ReservedActive
  <2>5. SpaceReserved'
    <3>1. Len(lh) \in Nat /\ (outstanding + 1) * MAXOPBLOCKS \in Nat /\ LOGSIZE \in Nat
      BY <1>1, Numbers
    <3>2. QED
      BY <1>1, <2>1, <2>4, <3>1 DEF SpaceReserved
  <2>6. Bookkeeping'
    <3>1. \A r \in Ops : op'[r] = IF r = o THEN "active" ELSE op[r]
      BY <1>1, <2>1
    <3>2. wrote[o] = {}
      BY <1>1 DEF SInv, Bookkeeping
    <3>3. outstanding + 1 # 0
      BY <1>1
    <3>4. QED
      BY <1>1, <2>1, <2>3, <3>1, <3>2, <3>3 DEF SInv, Bookkeeping
  <2>7. SleepersWoken' /\ NoEndDuringCommit'
    BY <1>1, <2>1 DEF SInv, SleepersWoken, NoEndDuringCommit
  <2>8. QED
    BY <2>5, <2>6, <2>7 DEF SInv
<1>3. CASE ~MayBegin
  <2>1. outstanding' = outstanding /\ op' = [op EXCEPT ![o] = "asleep"]
    BY <1>3 DEF BeginOp
  <2>2. \A r \in Ops : op'[r] = IF r = o THEN "asleep" ELSE op[r]
    BY <1>1, <2>1
  <2>3. Active' = Active /\ Reserved' = Reserved
    BY <1>1, <2>2 DEF Active, Reserved
  <2>4. committing \/ outstanding > 0
    <3>1. SUFFICES ASSUME ~committing, outstanding = 0 PROVE FALSE
      BY <1>1
    <3>2. phase = "idle" /\ lh = << >>
      BY <1>1, <3>1 DEF SInv, Bookkeeping
    <3>3. Len(lh) = 0
      BY <3>2
    <3>4. HasRoom
      BY <3>1, <3>3, Numbers DEF HasRoom
    <3>5. QED
      BY <1>3, <3>1, <3>4 DEF MayBegin
  <2>5. SleepersWoken' /\ NoEndDuringCommit'
    BY <1>1, <2>1, <2>4 DEF SInv, SleepersWoken, NoEndDuringCommit
  <2>6. SpaceReserved'
    BY <1>1, <2>3, LessReserved, Numbers
  <2>7. Bookkeeping'
    BY <1>1, <2>1, <2>2, <2>3 DEF SInv, Bookkeeping
  <2>8. QED
    BY <2>5, <2>6, <2>7 DEF SInv
<1>4. QED
  BY <1>2, <1>3

\* The test of log_write() and the traffic of buffers keep the invariant.
LEMMA QuietSInv ==
  ASSUME SInv, TypeOK',
         UNCHANGED <<head, lh, outstanding, committing, phase, op, wrote>>,
         panic' = panic \/ panic' = "too_big",
         \A o \in Ops : target'[o] # NULL => \/ target'[o] = target[o]
                                             \/ /\ op[o] = "active"
                                                /\ \/ target'[o] \in wrote[o]
                                                   \/ Cardinality(wrote[o]) < MAXOPBLOCKS
  PROVE  SInv'
<1>1. Active' = Active /\ Reserved' = Reserved /\ Logged' = Logged
  BY DEF Active, Reserved, Logged
<1>2. SpaceReserved'
  BY <1>1, Zenon DEF SInv, SpaceReserved
<1>3. Bookkeeping'
  BY <1>1 DEF SInv, Bookkeeping
<1>4. SleepersWoken' /\ NoEndDuringCommit'
  BY DEF SInv, SleepersWoken, NoEndDuringCommit
<1>5. QED
  BY <1>2, <1>3, <1>4 DEF SInv

\* log_write() keeps the invariant: a block new to the log is one its call reserved.
LEMMA LogWriteSInv ==
  ASSUME SInv, TypeOK', NEW o \in Ops, NEW v \in Vals, LogWrite(o, v)
  PROVE  SInv'
<1> DEFINE b == target[o]
           c == Cardinality(wrote[o])
<1>1. /\ UNCHANGED <<head, outstanding, committing, phase, op, panic>>
      /\ op[o] = "active" /\ b # NULL /\ o \in Active
      /\ lh' = IF b \in Logged THEN lh ELSE Append(lh, b)
  BY DEF LogWrite, disk, Active
<1>2. /\ wrote' = [wrote EXCEPT ![o] = @ \cup {b}] /\ target' = [target EXCEPT ![o] = NULL]
      /\ wrote \in [Ops -> SUBSET Blocks] /\ target \in [Ops -> Blocks \cup {NULL}]
  BY DEF LogWrite, SInv, TypeOK
<1>3. \A r \in Ops : /\ wrote'[r] = IF r = o THEN wrote[o] \cup {b} ELSE wrote[r]
                     /\ target'[r] = IF r = o THEN NULL ELSE target[r]
  BY <1>2
<1>4. b \in Blocks /\ IsFiniteSet(wrote[o]) /\ wrote[o] \subseteq Logged /\ (b \in wrote[o] \/ c < MAXOPBLOCKS)
  BY <1>1, <1>2 DEF SInv, Bookkeeping
<1>5. /\ c \in Nat /\ IsFiniteSet(wrote[o] \cup {b})
      /\ Cardinality(wrote[o] \cup {b}) = IF b \in wrote[o] THEN c ELSE c + 1
  BY <1>4, FS_AddElement, FS_CardinalityType, Zenon
<1>6. Logged' = Logged \cup {b} /\ Len(lh') = IF b \in Logged THEN Len(lh) ELSE Len(lh) + 1
  <2>1. lh \in Seq(Blocks)
    BY Numbers
  <2>2. CASE b \in Logged
    BY <1>1, <2>2 DEF Logged
  <2>3. CASE b \notin Logged
    <3>1. lh' = Append(lh, b)
      BY <1>1, <2>3
    <3>2. /\ Len(lh') = Len(lh) + 1 /\ Len(lh) \in Nat
          /\ \A i \in 1..Len(lh) : lh'[i] = lh[i]
          /\ lh'[Len(lh) + 1] = b
      BY <1>4, <2>1, <3>1
    <3>3. QED
      BY <2>3, <3>2 DEF Logged
  <2>4. QED
    BY <2>2, <2>3
<1> HIDE DEF b, c
<1>7. Active' = Active
  BY <1>1 DEF Active
<1>8. SpaceReserved'
  <2>1. CASE b \in Logged
    <3>1. \A r \in Ops, i \in 1..MAXOPBLOCKS : i > Cardinality(wrote'[r]) => i > Cardinality(wrote[r])
      <4> SUFFICES ASSUME NEW r \in Ops, NEW i \in 1..MAXOPBLOCKS, i > Cardinality(wrote'[r])
                   PROVE  i > Cardinality(wrote[r])
        OBVIOUS
      <4>1. CASE r = o
        <5>1. i > Cardinality(wrote[o] \cup {b})
          BY <1>3, <4>1
        <5>2. QED
          BY <1>5, <4>1, <5>1, Numbers DEF c
      <4>2. CASE r # o
        BY <1>3, <4>2
      <4>3. QED
        BY <4>1, <4>2
    <3>2. Reserved' \subseteq Reserved
      BY <1>1, <3>1 DEF Reserved
    <3>3. Len(lh') <= Len(lh) /\ Len(lh') \in Nat
      BY <1>6, <2>1, Numbers
    <3>4. QED
      BY <3>2, <3>3, LessReserved
  <2>2. CASE b \notin Logged
    <3>1. b \notin wrote[o] /\ c < MAXOPBLOCKS /\ Cardinality(wrote'[o]) = c + 1
      BY <1>3, <1>4, <1>5, <2>2
    <3>2. MAXOPBLOCKS \in Nat /\ c + 1 \in 1..MAXOPBLOCKS
      BY <1>5, <3>1, Numbers
    <3>3. <<o, c + 1>> \in Reserved
      BY <1>1, <1>5, <3>2 DEF Reserved, c
    <3>4. Reserved' \subseteq Reserved \ {<<o, c + 1>>}
      <4>1. \A i \in 1..MAXOPBLOCKS : i > c + 1 => i > c /\ i # c + 1
        BY <1>5, <3>2
      <4>2. SUFFICES ASSUME NEW r \in Reserved' PROVE r \in Reserved /\ r # <<o, c + 1>>
        OBVIOUS
      <4>3. PICK p \in Ops, i \in 1..MAXOPBLOCKS : r = <<p, i>> /\ op[p] = "active" /\ i > Cardinality(wrote'[p])
        BY <1>1 DEF Reserved
      <4>4. CASE p = o
        <5>1. i > c /\ i # c + 1
          BY <3>1, <4>1, <4>3, <4>4
        <5>2. QED
          BY <4>3, <4>4, <5>1 DEF Reserved, c
      <4>5. CASE p # o
        <5>1. i > Cardinality(wrote[p])
          BY <1>3, <4>3, <4>5
        <5>2. QED
          BY <4>3, <4>5, <5>1 DEF Reserved
      <4>6. QED
        BY <4>4, <4>5
    <3>5. IsFiniteSet(Reserved) /\ Cardinality(Reserved) \in Nat /\ Cardinality(Reserved') \in Nat
      BY Reservations, ReservedActive
    <3>6. /\ IsFiniteSet(Reserved \ {<<o, c + 1>>})
          /\ Cardinality(Reserved \ {<<o, c + 1>>}) = Cardinality(Reserved) - 1
      BY <3>3, <3>5, FS_RemoveElement
    <3>7. Cardinality(Reserved') <= Cardinality(Reserved) - 1
      BY <3>4, <3>6, FS_Subset
    <3>8. Len(lh) \in Nat /\ LOGSIZE \in Nat /\ Len(lh) + Cardinality(Reserved) <= LOGSIZE
      BY Numbers DEF SInv, SpaceReserved
    <3>9. QED
      BY <1>6, <2>2, <3>5, <3>7, <3>8 DEF SpaceReserved
  <2>3. QED
    BY <2>1, <2>2
<1>9. Bookkeeping'
  <2>1. outstanding # 0 /\ phase = "idle"
    BY <1>1, Reservations, ReservedActive, FS_EmptySet DEF SInv, Bookkeeping
  <2>2. \A r \in Ops : /\ IsFiniteSet(wrote'[r])
                       /\ IF op'[r] = "active" THEN wrote'[r] \subseteq Logged' ELSE wrote'[r] = {}
    BY <1>1, <1>3, <1>4, <1>5, <1>6 DEF SInv, Bookkeeping
  <2>3. \A r \in Ops : target'[r] # NULL =>
          op'[r] = "active" /\ (target'[r] \in wrote'[r] \/ Cardinality(wrote'[r]) < MAXOPBLOCKS)
    BY <1>1, <1>3 DEF SInv, Bookkeeping
  <2>4. QED
    BY <1>1, <1>7, <2>1, <2>2, <2>3 DEF SInv, Bookkeeping
<1>10. SleepersWoken' /\ NoEndDuringCommit'
  BY <1>1 DEF SInv, SleepersWoken, NoEndDuringCommit
<1>11. QED
  BY <1>8, <1>9, <1>10 DEF SInv

\* end_op() keeps the invariant: whoever ends the last call finds no commit going on.
LEMMA EndOpSInv ==
  ASSUME SInv, TypeOK', NEW o \in Ops, EndOp(o)
  PROVE  SInv'
<1>1. op[o] = "active" /\ o \in Active /\ UNCHANGED <<lh, head, target>> /\ target[o] = NULL
  BY DEF EndOp, disk, Active
<1>2. phase = "idle" /\ ~committing /\ Logged' = Logged
  BY <1>1 DEF SInv, Bookkeeping, Logged
<1>3. /\ outstanding' = outstanding - 1 /\ panic' = panic
      /\ wrote' = [wrote EXCEPT ![o] = {}] /\ wrote \in [Ops -> SUBSET Blocks]
      /\ op \in [Ops -> {"idle", "asleep", "active", "commit"}]
  BY <1>2 DEF EndOp, SInv, TypeOK
<1>4. \A r \in Ops : wrote'[r] = IF r = o THEN {} ELSE wrote[r]
  BY <1>3
<1>5. \/ /\ outstanding = 1 /\ committing' /\ op' = [op EXCEPT ![o] = "commit"]
         /\ phase' = IF lh = << >> THEN "finish" ELSE "write_log"
      \/ /\ outstanding # 1 /\ committing' = committing /\ phase' = phase
         /\ op' = [r \in Ops |-> IF r = o \/ Woken(r) THEN "idle" ELSE op[r]]
  BY <1>2 DEF EndOp
<1>6. \A r \in Ops : /\ op'[r] = "active" <=> op[r] = "active" /\ r # o
                     /\ op'[r] = "asleep" => outstanding = 1
  BY <1>1, <1>3, <1>5 DEF Woken
<1>7. Active' = Active \ {o}
  BY <1>6 DEF Active
<1>8. /\ outstanding = Cardinality(Active) /\ outstanding \in Nat /\ IsFiniteSet(Active)
      /\ Cardinality(Active') = outstanding - 1 /\ outstanding - 1 \in Nat
  <2>1. outstanding = Cardinality(Active) /\ outstanding \in Nat /\ IsFiniteSet(Active)
    BY Reservations, ReservedActive DEF SInv, Bookkeeping
  <2>2. Cardinality(Active') = outstanding - 1 /\ Cardinality(Active') \in Nat
    BY <1>1, <1>7, <2>1, Reservations, ReservedActive, FS_RemoveElement
  <2>3. QED
    BY <2>1, <2>2
<1>9. SpaceReserved'
  <2>1. Reserved' \subseteq Reserved
    BY <1>4, <1>6 DEF Reserved
  <2>2. Len(lh') <= Len(lh) /\ Len(lh') \in Nat
    BY <1>1, Numbers
  <2>3. QED
    BY <2>1, <2>2, LessReserved
<1>10. outstanding = 1 => Active' = {}
  <2>1. IsFiniteSet(Active') /\ Cardinality(Active') = outstanding - 1
    BY <1>7, <1>8, FS_Subset
  <2>2. QED
    BY <2>1, FS_EmptySet
<1>11. Bookkeeping'
  <2>1. \A r \in Ops : /\ IsFiniteSet(wrote'[r])
                       /\ IF op'[r] = "active" THEN wrote'[r] \subseteq Logged' ELSE wrote'[r] = {}
    BY <1>2, <1>4, <1>6, FS_EmptySet DEF SInv, Bookkeeping
  <2>2. \A r \in Ops : target'[r] # NULL =>
          op'[r] = "active" /\ (target'[r] \in wrote'[r] \/ Cardinality(wrote'[r]) < MAXOPBLOCKS)
    BY <1>1, <1>4, <1>6 DEF SInv, Bookkeeping
  <2>3. CASE outstanding = 1
    <3>1. committing' /\ phase' \in {"finish", "write_log"} /\ (phase' = "finish" => lh' = << >>)
      BY <1>1, <1>5, <2>3
    <3>2. Len(head') <= LOGSIZE /\ outstanding' = Cardinality(Active')
      BY <1>1, <1>3, <1>8 DEF SInv, Bookkeeping
    <3>3. QED
      BY <1>10, <2>1, <2>2, <2>3, <3>1, <3>2 DEF Bookkeeping
  <2>4. CASE outstanding # 1
    <3>1. ~committing' /\ phase' = "idle" /\ outstanding' # 0
      BY <1>2, <1>3, <1>5, <1>8, <2>4
    <3>2. Len(head') <= LOGSIZE /\ outstanding' = Cardinality(Active')
      BY <1>1, <1>3, <1>8 DEF SInv, Bookkeeping
    <3>3. QED
      BY <2>1, <2>2, <3>1, <3>2 DEF Bookkeeping
  <2>5. QED
    BY <2>3, <2>4
<1>12. SleepersWoken' /\ NoEndDuringCommit'
  <2>1. outstanding = 1 => committing'
    BY <1>5
  <2>2. QED
    BY <1>3, <1>6, <2>1 DEF SInv, SleepersWoken, NoEndDuringCommit
<1>13. QED
  BY <1>9, <1>11, <1>12 DEF SInv

\* The steps of commit() and of recovery keep the invariant: no call is in progress.
LEMMA CommitSInv ==
  ASSUME SInv, TypeOK', WriteLog \/ WriteHead \/ ReadHead \/ InstallTrans \/ EraseHead
  PROVE  SInv'
<1>1. /\ UNCHANGED <<outstanding, committing, op, wrote, target, panic>>
      /\ phase # "idle" /\ Active = {}
  BY DEF WriteLog, WriteHead, ReadHead, InstallTrans, EraseHead, disk, memory, SInv, Bookkeeping
<1>2. Active' = {}
  BY <1>1 DEF Active
<1>3. \A r \in Ops : op[r] # "active" /\ wrote[r] = {} /\ target[r] = NULL
  BY <1>1 DEF Active, SInv, Bookkeeping
<1>4. /\ lh' \in {lh, head, << >>} /\ head' \in {lh, head, << >>}
      /\ phase' = "finish" => lh' = << >>
      /\ phase' = "finish" => committing
      /\ phase' = "write_log" => phase = "write_log"
      /\ phase' # "boot"
      /\ phase' = "idle" => ~committing /\ lh' = << >>
  BY DEF WriteLog, WriteHead, ReadHead, InstallTrans, EraseHead, disk, memory, SInv, Bookkeeping
<1>5. /\ Len(lh) <= LOGSIZE /\ Len(head) <= LOGSIZE /\ Len(<< >>) <= LOGSIZE
      /\ Len(lh) \in Nat /\ Len(head) \in Nat /\ Len(<< >>) \in Nat
  <2>1. Len(head) <= LOGSIZE /\ head \in Seq(Blocks)
    BY DEF SInv, Bookkeeping, TypeOK
  <2>2. QED
    BY <2>1, LogShort, Numbers
<1>6. Len(lh') <= LOGSIZE /\ Len(lh') \in Nat /\ Len(head') <= LOGSIZE
  BY <1>4, <1>5
<1>7. SpaceReserved'
  BY <1>2, <1>6, NoneReserved
<1>8. Bookkeeping'
  BY <1>1, <1>2, <1>3, <1>4, <1>6 DEF SInv, Bookkeeping
<1>9. SleepersWoken' /\ NoEndDuringCommit'
  BY <1>1 DEF SInv, SleepersWoken, NoEndDuringCommit
<1>10. QED
  BY <1>7, <1>8, <1>9 DEF SInv

\* The end of a commit keeps the invariant: it wakes whoever waits.
LEMMA FinishCommitSInv ==
  ASSUME SInv, TypeOK', FinishCommit
  PROVE  SInv'
<1>1. /\ UNCHANGED <<lh, head, outstanding, wrote, target, panic>>
      /\ phase' = "idle" /\ ~committing' /\ phase = "finish" /\ lh = << >> /\ Active = {}
  BY DEF FinishCommit, disk, SInv, Bookkeeping
<1>2. op' = [r \in Ops |-> IF op[r] = "commit" \/ Woken(r) THEN "idle" ELSE op[r]]
  BY DEF FinishCommit
<1>3. \A r \in Ops : op[r] # "active" /\ wrote[r] = {} /\ target[r] = NULL
  BY <1>1 DEF Active, SInv, Bookkeeping
<1>4. \A r \in Ops : op'[r] # "active" /\ op'[r] # "asleep"
  BY <1>2, <1>3 DEF Woken
<1>5. Active' = {}
  BY <1>4 DEF Active
<1>6. SpaceReserved'
  <2>1. Len(lh') <= LOGSIZE /\ Len(lh') \in Nat
    BY <1>1, Numbers
  <2>2. QED
    BY <1>5, <2>1, NoneReserved
<1>7. Bookkeeping'
  <2>1. \A r \in Ops : wrote'[r] = {} /\ target'[r] = NULL /\ IsFiniteSet({})
    BY <1>1, <1>3, FS_EmptySet
  <2>2. Len(head') <= LOGSIZE /\ outstanding' = Cardinality(Active')
    BY <1>1, <1>5 DEF SInv, Bookkeeping
  <2>3. QED
    BY <1>1, <1>4, <1>5, <2>1, <2>2, Zenon DEF Bookkeeping
<1>8. SleepersWoken' /\ NoEndDuringCommit'
  BY <1>1, <1>4 DEF SInv, SleepersWoken, NoEndDuringCommit
<1>9. QED
  BY <1>6, <1>7, <1>8 DEF SInv

\* A crash keeps the invariant: the header on disk is one that was in memory.
LEMMA CrashSInv ==
  ASSUME SInv, TypeOK', Crash
  PROVE  SInv'
<1>1. /\ lh' = << >> /\ outstanding' = 0 /\ ~committing' /\ phase' = "boot"
      /\ panic' = "none" /\ head' = head
  BY DEF Crash, disk
<1>2. \A r \in Ops : op'[r] = "idle" /\ target'[r] = NULL /\ wrote'[r] = {}
  BY DEF Crash
<1>3. Active' = {}
  BY <1>2 DEF Active
<1>4. SpaceReserved'
  <2>1. Len(lh') <= LOGSIZE /\ Len(lh') \in Nat
    BY <1>1, Numbers
  <2>2. QED
    BY <1>3, <2>1, NoneReserved
<1>5. Bookkeeping'
  <2>1. outstanding' = Cardinality(Active') /\ IsFiniteSet({})
    BY <1>1, <1>3, FS_EmptySet
  <2>2. Len(head') <= LOGSIZE
    BY <1>1 DEF SInv, Bookkeeping
  <2>3. QED
    BY <1>1, <1>2, <1>3, <2>1, <2>2, Zenon DEF Bookkeeping
<1>6. SleepersWoken' /\ NoEndDuringCommit'
  BY <1>1, <1>2 DEF SleepersWoken, NoEndDuringCommit
<1>7. QED
  BY <1>4, <1>5, <1>6 DEF SInv

\* Every step keeps the invariant.
LEMMA NextSInv ==
  ASSUME SInv, [Next]_vars
  PROVE  SInv'
<1>1. CASE UNCHANGED vars
  <2>1. UNCHANGED <<head, lh, outstanding, committing, phase, op, wrote, panic, target>>
    BY <1>1 DEF vars, disk, memory
  <2>2. TypeOK'
    BY <1>1, Zenon DEF vars, disk, memory, SInv, TypeOK
  <2>3. QED
    BY <2>1, <2>2, QuietSInv
<1>2. CASE Next
  <2>1. TypeOK'
    BY <1>2, TypeNext
  <2>2. ASSUME NEW o \in Ops, NEW b \in Blocks, LogWriteChecks(o, b) PROVE SInv'
    <3>1. /\ UNCHANGED <<head, lh, outstanding, committing, phase, op, wrote>>
          /\ panic' = panic \/ panic' = "too_big"
      BY <2>2 DEF LogWriteChecks, disk, memory
    <3>2. \A r \in Ops : target'[r] = IF r = o THEN b ELSE target[r]
      BY <2>2 DEF LogWriteChecks, SInv, TypeOK
    <3>3. op[o] = "active" /\ (b \in wrote[o] \/ Cardinality(wrote[o]) < MAXOPBLOCKS)
      BY <2>2 DEF LogWriteChecks
    <3>4. \A r \in Ops : target'[r] # NULL => \/ target'[r] = target[r]
                                              \/ /\ op[r] = "active"
                                                 /\ \/ target'[r] \in wrote[r]
                                                    \/ Cardinality(wrote[r]) < MAXOPBLOCKS
      BY <3>2, <3>3
    <3>5. QED
      BY <2>1, <3>1, <3>4, QuietSInv
  <2>3. ASSUME NEW b \in Blocks, Read(b) \/ Evict(b) PROVE SInv'
    <3>1. UNCHANGED <<head, lh, outstanding, committing, phase, op, wrote, panic, target>>
      BY <2>3 DEF Read, Evict, disk
    <3>2. QED
      BY <2>1, <3>1, QuietSInv
  <2>4. QED
    BY <1>2, <2>1, <2>2, <2>3, BeginOpSInv, EndOpSInv, LogWriteSInv, CommitSInv, FinishCommitSInv, CrashSInv
       DEF Next
<1>3. QED
  BY <1>1, <1>2

(* ------------------------------ theorems --------------------------------- *)

\* The invariant holds throughout every behaviour of the log.
THEOREM LogInductive == Spec => []SInv
<1>1. QED
  BY InitSInv, NextSInv, PTL DEF Spec

\* The variables of the log keep their types.
THEOREM LogTypeCorrect == Spec => []TypeOK
<1>1. SInv => TypeOK
  BY DEF SInv
<1>2. QED
  BY <1>1, LogInductive, PTL

\* What is logged and what begin_op() has promised fit in log.lh.block, however many
\* calls overlap and however their log_write()s interleave.
THEOREM LogSpaceSuffices == Spec => []SpaceReserved
<1>1. SInv => SpaceReserved
  BY DEF SInv
<1>2. QED
  BY <1>1, LogInductive, PTL

\* The panic "committing" of end_op() is unreachable.
THEOREM CommitPanicUnreachable == Spec => []NoEndDuringCommit
<1>1. SInv => NoEndDuringCommit
  BY DEF SInv
<1>2. QED
  BY <1>1, LogInductive, PTL

\* No process is left asleep in begin_op() with nobody to wake it.
THEOREM SleepersHaveWaker == Spec => []SleepersWoken
<1>1. SInv => SleepersWoken
  BY DEF SInv
<1>2. QED
  BY <1>1, LogInductive, PTL

\* With one block more on disk than mkfs makes, write_log() never leaves the log.
THEOREM LargerLogFits ==
  ASSUME LOGSIZE < SIZE
  PROVE  Spec => []FitsOnDisk
<1>1. SInv => FitsOnDisk
  BY LogShort, LogAssumption DEF FitsOnDisk
<1>2. QED
  BY <1>1, LogInductive, PTL
=============================================================================
