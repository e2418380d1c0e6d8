--------------------------- MODULE LogRefinement ----------------------------
(* Log implements Transactions: calls that overlap, and commit() and the      *)
(* recovery of any number of crashes, are atomic.                              *)
EXTENDS LogProofs

Distinct(s) == \A i, j \in 1..Len(s) : s[i] = s[j] => i = j

(* What memory and disk have in common at every moment.  A buffer that is not *)
(* dirty may be dropped, so it equals its home block; the dirty ones are the   *)
(* blocks of the transaction, as far as they are not installed yet.  The log   *)
(* blocks hold the transaction from the moment the header names it until the  *)
(* header is erased, and what is installed is what they hold.                  *)
Consistent ==
  /\ Distinct(lh) /\ Distinct(head)
  /\ panic # "none" => phase = "idle"
  /\ phase = "install" => head = lh
  /\ phase \in {"idle", "write_log", "finish"} => head = << >>
  /\ phase = "boot" => lh = << >>
  /\ \A b \in Blocks : cache[b] # NULL /\ b \notin dirty => cache[b] = home[b]
  /\ \A b \in dirty : cache[b] # NULL
  /\ phase # "install" => dirty = Logged
  /\ phase = "install" =>
       dirty = IF committing THEN {lh[i] : i \in {j \in 1..Len(lh) : j >= tail}} ELSE {}
  /\ phase = "write_log" => \A i \in 1..Len(lh) : i < tail => logblk[i] = cache[lh[i]]
  /\ phase = "install" => \A i \in 1..Len(lh) :
       IF i < tail THEN home[lh[i]] = logblk[i] ELSE committing => logblk[i] = cache[lh[i]]

RInv == SInv /\ Consistent

\* While the blocks of a transaction are copied home, the log holds all of them.
LEMMA Installing ==
  ASSUME RInv, phase = "install"
  PROVE  /\ head = lh /\ Distinct(lh)
         /\ \A i \in 1..Len(lh) : i < tail => home[lh[i]] = logblk[i]
         /\ \A i \in 1..Len(lh) : ~(i < tail) /\ committing => logblk[i] = cache[lh[i]]
BY DEF RInv, Consistent

\* What the invariants say of the sequences, and of who is in progress.
LEMMA SeqFacts ==
  ASSUME RInv
  PROVE  /\ lh \in Seq(Blocks) /\ Len(lh) \in Nat /\ Len(lh) <= LOGSIZE /\ LOGSIZE \in Nat
         /\ head \in Seq(Blocks) /\ Len(head) \in Nat /\ Len(head) <= LOGSIZE
         /\ \A i \in 1..Len(lh) : lh[i] \in Blocks
         /\ \A i \in 1..Len(head) : head[i] \in Blocks
         /\ tail \in Nat /\ tail > 0
         /\ home \in [Blocks -> Vals] /\ logblk \in [1..LOGSIZE -> Vals]
         /\ cache \in [Blocks -> Vals \cup {NULL}] /\ dirty \subseteq Blocks
<1>1. lh \in Seq(Blocks) /\ head \in Seq(Blocks)
  BY DEF RInv, SInv, TypeOK
<1>2. SInv
  BY DEF RInv
<1>3. Len(lh) <= LOGSIZE /\ Len(head) <= LOGSIZE /\ LOGSIZE \in Nat
  BY <1>2, LogShort, Numbers DEF SInv, Bookkeeping
<1>4. /\ tail \in Nat /\ tail > 0
      /\ home \in [Blocks -> Vals] /\ logblk \in [1..LOGSIZE -> Vals]
      /\ cache \in [Blocks -> Vals \cup {NULL}] /\ dirty \subseteq Blocks
  BY <1>2 DEF SInv, TypeOK
<1>5. /\ Len(lh) \in Nat /\ \A i \in 1..Len(lh) : lh[i] \in Blocks
      /\ Len(head) \in Nat /\ \A i \in 1..Len(head) : head[i] \in Blocks
  BY <1>1
<1>6. QED
  BY <1>1, <1>3, <1>4, <1>5

\* Calls are in progress only outside commit() and recovery, and in no panic but theirs.
LEMMA ActiveIdle ==
  ASSUME RInv, NEW o \in Ops, op[o] = "active"
  PROVE  phase = "idle" /\ ~committing
BY DEF RInv, SInv, Bookkeeping, Active

\* The invariant holds when the machine is first switched on.
LEMMA InitConsistent == Init => Consistent
BY DEF Init, Consistent, Distinct, Logged

\* Steps that touch neither the disk nor the buffers.
LEMMA QuietConsistent ==
  ASSUME Consistent, UNCHANGED <<home, logblk, head, lh, cache, dirty, phase>>,
         phase \notin {"write_log", "install"} \/ UNCHANGED <<tail, committing>>,
         panic' = panic \/ phase = "idle"
  PROVE  Consistent'
<1>1. /\ Distinct(lh)' /\ Distinct(head)' /\ Logged' = Logged
      /\ panic' # "none" => phase' = "idle"
  BY DEF Consistent, Distinct, Logged
<1>2. CASE phase = "install"
  BY <1>1, <1>2 DEF Consistent
<1>3. CASE phase = "write_log"
  BY <1>1, <1>3 DEF Consistent
<1>4. CASE phase \notin {"write_log", "install"}
  BY <1>1, <1>4 DEF Consistent
<1>5. QED
  BY <1>2, <1>3, <1>4

LEMMA BeginConsistent ==
  ASSUME RInv, NEW o \in Ops, BeginOp(o) \/ \E b \in Blocks : LogWriteChecks(o, b)
  PROVE  Consistent'
<1>1. UNCHANGED <<home, logblk, head, lh, cache, dirty, phase, tail, committing>>
  BY DEF BeginOp, LogWriteChecks, disk, memory
<1>2. panic' = panic \/ phase = "idle"
  BY ActiveIdle DEF BeginOp, LogWriteChecks
<1>3. QED
  BY <1>1, <1>2, QuietConsistent DEF RInv

\* The commit that end_op() starts finds every block of the transaction in memory.
LEMMA EndConsistent ==
  ASSUME RInv, NEW o \in Ops, EndOp(o)
  PROVE  Consistent'
<1>1. phase = "idle" /\ ~committing
  BY ActiveIdle DEF EndOp
<1>2. /\ UNCHANGED <<home, logblk, head, lh, cache, dirty, panic>>
      /\ \/ UNCHANGED <<phase, tail, committing>>
         \/ phase' \in {"finish", "write_log"} /\ tail' = 1
  BY <1>1 DEF EndOp, disk
<1>3. CASE phase' = "idle"
  BY <1>1, <1>2, <1>3, QuietConsistent DEF RInv
<1>4. CASE phase' \in {"finish", "write_log"} /\ tail' = 1
  <2>1. /\ Distinct(lh)' /\ Distinct(head)' /\ Logged' = Logged
        /\ panic = "none"
    BY <1>2 DEF RInv, Consistent, Distinct, Logged, EndOp, Up
  <2>2. \A i \in 1..Len(lh) : ~(i < tail')
    BY <1>4, SeqFacts
  <2>3. QED
    BY <1>1, <1>2, <1>4, <2>1, <2>2 DEF RInv, Consistent
<1>5. QED
  BY <1>1, <1>2, <1>3, <1>4

LEMMA FinishConsistent ==
  ASSUME RInv, FinishCommit
  PROVE  Consistent'
<1>1. /\ phase = "finish" /\ phase' = "idle"
      /\ UNCHANGED <<home, logblk, head, lh, cache, dirty, panic>>
  BY DEF FinishCommit, disk
<1>2. Distinct(lh)' /\ Distinct(head)' /\ Logged' = Logged
  BY <1>1 DEF RInv, Consistent, Distinct, Logged
<1>3. QED
  BY <1>1, <1>2 DEF RInv, Consistent

\* log_write() pins the buffer whose block it puts into the log.
LEMMA LogWriteConsistent ==
  ASSUME RInv, NEW o \in Ops, NEW v \in Vals, LogWrite(o, v)
  PROVE  Consistent'
<1> DEFINE b == target[o]
<1>1. phase = "idle" /\ b \in Blocks /\ v # NULL
  BY ActiveIdle, LogAssumption DEF LogWrite, RInv, SInv, TypeOK
<1>2. /\ cache' = [cache EXCEPT ![b] = v] /\ dirty' = dirty \cup {b}
      /\ lh' = IF b \in Logged THEN lh ELSE Append(lh, b)
      /\ UNCHANGED <<home, logblk, head, phase, panic>>
  BY DEF LogWrite, Pinned, disk
<1> HIDE DEF b
<1>3. \A x \in Blocks : cache'[x] = IF x = b THEN v ELSE cache[x]
  BY <1>2, SeqFacts
<1>4. Distinct(lh)' /\ Logged' = Logged \cup {b}
  <2>1. CASE b \in Logged
    BY <1>2, <2>1 DEF Logged, Distinct, RInv, Consistent
  <2>2. CASE b \notin Logged
    <3>1. /\ lh' = Append(lh, b) /\ Len(lh') = Len(lh) + 1 /\ lh'[Len(lh) + 1] = b
          /\ \A i \in 1..Len(lh) : lh'[i] = lh[i] /\ lh[i] # b
          /\ 1..Len(lh') = (1..Len(lh)) \cup {Len(lh) + 1}
      BY <1>1, <1>2, <2>2, SeqFacts DEF Logged
    <3>2. Distinct(lh)
      BY DEF RInv, Consistent
    <3>3. Distinct(lh')
      <4>1. ASSUME NEW i \in 1..Len(lh'), NEW j \in 1..Len(lh'), lh'[i] = lh'[j]
            PROVE  i = j
        BY <3>1, <3>2, <4>1 DEF Distinct
      <4>2. QED
        BY <4>1 DEF Distinct
    <3>4. Logged' = Logged \cup {b}
      BY <3>1 DEF Logged
    <3>5. QED
      BY <3>3, <3>4 DEF Distinct
  <2>3. QED
    BY <2>1, <2>2
<1>5. Distinct(head)'
  BY <1>2 DEF RInv, Consistent, Distinct
<1>6. dirty' = Logged' /\ dirty \subseteq Blocks
  BY <1>1, <1>2, <1>4, SeqFacts DEF RInv, Consistent
<1>7. QED
  BY <1>1, <1>2, <1>3, <1>4, <1>5, <1>6 DEF RInv, Consistent

\* write_log() copies a buffer that is pinned, hence there.
LEMMA WriteLogConsistent ==
  ASSUME RInv, WriteLog
  PROVE  Consistent'
<1>1. /\ phase = "write_log" /\ tail \in 1..Len(lh) /\ tail' = tail + 1
      /\ logblk' = [logblk EXCEPT ![tail] = Data(lh[tail])]
      /\ UNCHANGED <<home, head, lh, cache, dirty, committing, phase, panic>>
  BY SeqFacts DEF WriteLog, memory
<1>2. lh[tail] \in dirty /\ cache[lh[tail]] # NULL
  BY <1>1 DEF RInv, Consistent, Logged
<1>3. Data(lh[tail]) = cache[lh[tail]]
  BY <1>2 DEF Data
<1>4. \A i \in 1..Len(lh) : logblk'[i] = IF i = tail THEN cache[lh[tail]] ELSE logblk[i]
  BY <1>1, <1>3, SeqFacts
<1>5. \A i \in 1..Len(lh) : i < tail' => logblk'[i] = cache[lh[i]]
  BY <1>1, <1>4, SeqFacts DEF RInv, Consistent
<1>6. Distinct(lh)' /\ Distinct(head)' /\ Logged' = Logged
  BY <1>1 DEF RInv, Consistent, Distinct, Logged
<1>7. QED
  BY <1>1, <1>5, <1>6 DEF RInv, Consistent

\* When write_head() names the transaction, all of it is in the log blocks.
LEMMA WriteHeadConsistent ==
  ASSUME RInv, WriteHead
  PROVE  Consistent'
<1>1. /\ phase = "write_log" /\ tail > Len(lh) /\ head' = lh /\ phase' = "install" /\ tail' = 1
      /\ UNCHANGED <<home, logblk, lh, cache, dirty, committing, panic>>
  BY DEF WriteHead, LogWritten, memory
<1>2. committing
  BY <1>1 DEF RInv, SInv, Bookkeeping
<1>3. dirty' = {lh'[i] : i \in {j \in 1..Len(lh') : j >= tail'}}
  BY <1>1, SeqFacts DEF RInv, Consistent, Logged
<1>4. \A i \in 1..Len(lh) : i < tail /\ ~(i < tail') /\ logblk'[i] = cache'[lh'[i]]
  BY <1>1, SeqFacts DEF RInv, Consistent
<1>5. Distinct(lh)' /\ Distinct(head)'
  BY <1>1 DEF RInv, Consistent, Distinct
<1>6. panic' = "none"
  BY <1>1 DEF WriteHead
<1>7. QED
  BY <1>1, <1>2, <1>3, <1>4, <1>5, <1>6 DEF RInv, Consistent

LEMMA ReadHeadConsistent ==
  ASSUME RInv, ReadHead
  PROVE  Consistent'
<1>1. /\ phase = "boot" /\ lh' = head /\ phase' = "install" /\ tail' = 1 /\ panic' = "none"
      /\ UNCHANGED <<home, logblk, head, cache, dirty, committing>>
  BY DEF ReadHead, disk
<1>2. ~committing' /\ dirty' = {}
  BY <1>1 DEF RInv, SInv, Bookkeeping, Consistent, Logged
<1>3. \A i \in 1..Len(lh') : ~(i < tail')
  BY <1>1, SeqFacts
<1>4. Distinct(lh)' /\ Distinct(head)'
  BY <1>1 DEF RInv, Consistent, Distinct
<1>5. QED
  BY <1>1, <1>2, <1>3, <1>4 DEF RInv, Consistent

\* install_trans() makes the home block, the buffer and the log block the same.
LEMMA InstallConsistent ==
  ASSUME RInv, InstallTrans
  PROVE  Consistent'
<1> DEFINE b == lh[tail]
           x == logblk[tail]
<1>1. /\ phase = "install" /\ tail \in 1..Len(lh) /\ tail' = tail + 1
      /\ home' = [home EXCEPT ![b] = x] /\ cache' = [cache EXCEPT ![b] = x]
      /\ dirty' = dirty \ {b}
      /\ UNCHANGED <<logblk, head, lh, committing, phase, panic>>
  BY SeqFacts DEF InstallTrans
<1>2. b \in Blocks /\ x \in Vals
  BY <1>1, SeqFacts
<1>3. \A i \in 1..Len(lh) : lh[i] = b => i = tail
  BY <1>1 DEF RInv, Consistent, Distinct
<1>4. x = logblk'[tail]
  BY <1>1
<1> HIDE DEF b, x
<1>5. \A y \in Blocks : /\ home'[y] = IF y = b THEN x ELSE home[y]
                        /\ cache'[y] = IF y = b THEN x ELSE cache[y]
  BY <1>1, SeqFacts
<1>6. lh[tail] = b
  BY DEF b
<1>7. \A y \in Blocks : cache'[y] # NULL /\ y \notin dirty' => cache'[y] = home'[y]
  BY <1>1, <1>5 DEF RInv, Consistent
<1>8. \A y \in dirty' : cache'[y] # NULL
  BY <1>1, <1>5, SeqFacts DEF RInv, Consistent
<1>9. dirty' = IF committing' THEN {lh'[i] : i \in {j \in 1..Len(lh') : j >= tail'}} ELSE {}
  <2>1. CASE committing
    <3>1. dirty = {lh[i] : i \in {j \in 1..Len(lh) : j >= tail}}
      BY <1>1, <2>1 DEF RInv, Consistent
    <3>2. {lh[i] : i \in {j \in 1..Len(lh) : j >= tail}} \ {b}
            = {lh[i] : i \in {j \in 1..Len(lh) : j >= tail + 1}}
      BY <1>1, <1>3, <1>6, SeqFacts
    <3>3. QED
      BY <1>1, <2>1, <3>1, <3>2, Zenon
  <2>2. CASE ~committing
    BY <1>1, <2>2 DEF RInv, Consistent
  <2>3. QED
    BY <2>1, <2>2
<1>10. ASSUME NEW i \in 1..Len(lh)
       PROVE  IF i < tail' THEN home'[lh[i]] = logblk[i] ELSE committing => logblk[i] = cache'[lh[i]]
  <2>1. CASE i = tail
    BY <1>1, <1>2, <1>4, <1>5, <1>6, <2>1, SeqFacts
  <2>2. CASE i # tail
    <3>1. lh[i] \in Blocks /\ lh[i] # b /\ (i < tail' <=> i < tail)
      BY <1>1, <1>3, <2>2, SeqFacts
    <3>2. QED
      BY <1>1, <1>5, <3>1 DEF RInv, Consistent
  <2>3. QED
    BY <2>1, <2>2
<1>11. Distinct(lh)' /\ Distinct(head)'
  BY <1>1 DEF RInv, Consistent, Distinct
<1>12. QED
  BY <1>1, <1>7, <1>8, <1>9, <1>10, <1>11 DEF RInv, Consistent

\* Everything is installed when the header is erased.
LEMMA EraseConsistent ==
  ASSUME RInv, EraseHead
  PROVE  Consistent'
<1>1. /\ phase = "install" /\ tail > Len(lh) /\ lh' = << >> /\ head' = << >>
      /\ phase' \in {"finish", "idle"}
      /\ UNCHANGED <<home, logblk, cache, dirty, panic>>
  BY DEF EraseHead
<1>2. dirty' = {} /\ Logged' = {}
  <2>1. {j \in 1..Len(lh) : j >= tail} = {}
    BY <1>1, SeqFacts
  <2>2. QED
    BY <1>1, <2>1 DEF RInv, Consistent, Logged
<1>3. Distinct(lh)' /\ Distinct(head)'
  BY <1>1 DEF Distinct
<1>4. panic' = "none"
  BY <1>1 DEF EraseHead
<1>5. QED
  BY <1>1, <1>2, <1>3, <1>4 DEF RInv, Consistent

LEMMA BufferConsistent ==
  ASSUME RInv, NEW b \in Blocks, Read(b) \/ Evict(b)
  PROVE  Consistent'
<1>c. Consistent
  BY DEF RInv
<1>1. /\ UNCHANGED <<home, logblk, head, lh, committing, dirty, phase, tail, panic>>
      /\ b \notin dirty
      /\ cache' = [cache EXCEPT ![b] = home[b]] \/ cache' = [cache EXCEPT ![b] = NULL]
  BY DEF Read, Evict, disk, RInv, Consistent
<1>2. /\ \A y \in Blocks : y # b => cache'[y] = cache[y]
      /\ cache'[b] \in {NULL, home[b]}
  BY <1>1, SeqFacts
<1>3. \A i \in 1..Len(lh) : phase = "write_log" \/ (phase = "install" /\ committing /\ i >= tail) =>
         lh[i] \in dirty /\ cache'[lh[i]] = cache[lh[i]]
  <2> SUFFICES ASSUME NEW i \in 1..Len(lh),
                      phase = "write_log" \/ (phase = "install" /\ committing /\ i >= tail)
               PROVE  lh[i] \in dirty /\ cache'[lh[i]] = cache[lh[i]]
    OBVIOUS
  <2>1. lh[i] \in Blocks
    BY SeqFacts
  <2>2. /\ phase = "write_log" => dirty = Logged
        /\ phase = "install" /\ committing => dirty = {lh[j] : j \in {j \in 1..Len(lh) : j >= tail}}
    BY <1>c DEF Consistent
  <2>3. lh[i] \in dirty
    BY <2>2 DEF Logged
  <2>4. QED
    BY <1>1, <1>2, <2>1, <2>3
<1>4. Distinct(lh)' /\ Distinct(head)' /\ Logged' = Logged
  <2>1. Distinct(lh) /\ Distinct(head)
    BY <1>c DEF Consistent
  <2>2. QED
    BY <1>1, <2>1 DEF Distinct, Logged
<1>5. \A i \in 1..Len(lh) : ~(i < tail) <=> i >= tail
  BY SeqFacts
<1>6. \A y \in Blocks : cache'[y] # NULL /\ y \notin dirty' => cache'[y] = home'[y]
  BY <1>1, <1>2 DEF RInv, Consistent
<1>7. \A y \in dirty' : cache'[y] # NULL
  BY <1>1, <1>2, SeqFacts DEF RInv, Consistent
<1>8. phase' = "write_log" => \A i \in 1..Len(lh') : i < tail' => logblk'[i] = cache'[lh'[i]]
  BY <1>1, <1>3 DEF RInv, Consistent
<1>9. phase' = "install" => \A i \in 1..Len(lh') :
        IF i < tail' THEN home'[lh'[i]] = logblk'[i] ELSE committing' => logblk'[i] = cache'[lh'[i]]
  BY <1>1, <1>3, <1>5 DEF RInv, Consistent
<1>10. QED
  <2>1. /\ panic # "none" => phase = "idle"
        /\ phase = "install" => head = lh
        /\ phase \in {"idle", "write_log", "finish"} => head = << >>
        /\ phase = "boot" => lh = << >>
        /\ phase # "install" => dirty = Logged
        /\ phase = "install" =>
             dirty = IF committing THEN {lh[i] : i \in {j \in 1..Len(lh) : j >= tail}} ELSE {}
    BY <1>c DEF Consistent
  <2>2. QED
    BY <1>1, <1>4, <1>6, <1>7, <1>8, <1>9, <2>1 DEF Consistent

LEMMA CrashConsistent ==
  ASSUME RInv, Crash
  PROVE  Consistent'
<1>1. /\ lh' = << >> /\ dirty' = {} /\ phase' = "boot" /\ panic' = "none"
      /\ \A b \in Blocks : cache'[b] = NULL
      /\ UNCHANGED <<home, logblk, head>>
  BY DEF Crash, disk
<1>2. Distinct(lh)' /\ Distinct(head)' /\ Logged' = {}
  BY <1>1 DEF RInv, Consistent, Distinct, Logged
<1>3. QED
  BY <1>1, <1>2 DEF Consistent

\* Both invariants hold throughout every behaviour of the log.
THEOREM LogConsistent == Spec => []RInv
<1>1. Init => RInv
  BY InitSInv, InitConsistent DEF RInv
<1>2. RInv /\ [Next]_vars => RInv'
  <2> SUFFICES ASSUME RInv, [Next]_vars PROVE Consistent'
    BY NextSInv DEF RInv
  <2>1. CASE UNCHANGED vars
    BY <2>1, QuietConsistent DEF RInv, vars, disk, memory
  <2>2. CASE Next
    BY <2>2, BeginConsistent, EndConsistent, FinishConsistent, LogWriteConsistent, WriteLogConsistent,
       WriteHeadConsistent, ReadHeadConsistent, InstallConsistent, EraseConsistent,
       BufferConsistent, CrashConsistent DEF Next
  <2>3. QED
    BY <2>1, <2>2
<1>3. QED
  BY <1>1, <1>2, PTL DEF Spec

(* ------------------------- the refinement -------------------------------- *)

\* What recover_from_log() makes of home blocks hm, log blocks lb and header hd.
Recovered(hm, lb, hd) ==
  [b \in Blocks |-> LET at == {i \in 1..Len(hd) : hd[i] = b}
                    IN  IF at = {} THEN hm[b] ELSE lb[CHOOSE i \in at : TRUE]]

\* What the calls see: the buffers while the system is up, else what is durable.
Seen == IF Up \/ panic # "none" THEN [b \in Blocks |-> Data(b)] ELSE Durable

LEMMA RecoveredAt ==
  ASSUME NEW hm, NEW lb, NEW hd \in Seq(Blocks), Distinct(hd)
  PROVE  /\ \A b \in Blocks : (\A i \in 1..Len(hd) : hd[i] # b) => Recovered(hm, lb, hd)[b] = hm[b]
         /\ \A i \in 1..Len(hd) : hd[i] \in Blocks /\ Recovered(hm, lb, hd)[hd[i]] = lb[i]
<1>1. ASSUME NEW b \in Blocks, \A i \in 1..Len(hd) : hd[i] # b
      PROVE  Recovered(hm, lb, hd)[b] = hm[b]
  <2>1. {i \in 1..Len(hd) : hd[i] = b} = {}
    BY <1>1
  <2>2. QED
    BY <2>1 DEF Recovered
<1>2. ASSUME NEW i \in 1..Len(hd)
      PROVE  hd[i] \in Blocks /\ Recovered(hm, lb, hd)[hd[i]] = lb[i]
  <2>1. hd[i] \in Blocks
    OBVIOUS
  <2>2. {j \in 1..Len(hd) : hd[j] = hd[i]} = {i}
    BY DEF Distinct
  <2>3. (CHOOSE j \in {i} : TRUE) = i
    OBVIOUS
  <2>4. QED
    BY <2>1, <2>2, <2>3 DEF Recovered
<1>3. QED
  BY <1>1, <1>2

\* Two disks recover to the same blocks if they do so block by block.
LEMMA RecoveredIs ==
  ASSUME NEW hm, NEW lb, NEW hd \in Seq(Blocks), Distinct(hd), NEW f,
         \A b \in Blocks : (\A i \in 1..Len(hd) : hd[i] # b) => f[b] = hm[b],
         \A i \in 1..Len(hd) : f[hd[i]] = lb[i]
  PROVE  Recovered(hm, lb, hd) = [b \in Blocks |-> f[b]]
<1>1. ASSUME NEW b \in Blocks
      PROVE  Recovered(hm, lb, hd)[b] = f[b]
  <2>1. CASE \A i \in 1..Len(hd) : hd[i] # b
    BY <2>1, RecoveredAt
  <2>2. CASE \E i \in 1..Len(hd) : hd[i] = b
    BY <2>2, RecoveredAt
  <2>3. QED
    BY <2>1, <2>2
<1>2. Recovered(hm, lb, hd) = [b \in Blocks |-> Recovered(hm, lb, hd)[b]]
  BY DEF Recovered
<1>3. QED
  BY <1>1, <1>2

LEMMA DurableRecovered ==
  /\ Durable = Recovered(home, logblk, head)
  /\ Durable' = Recovered(home', logblk', head')
BY DEF Durable, Recovered

\* With no header a machine comes up with its home blocks.
LEMMA NoHead ==
  ASSUME NEW hm, NEW lb
  PROVE  Recovered(hm, lb, << >>) = [b \in Blocks |-> hm[b]]
<1>1. \A b : {i \in 1..Len(<< >>) : << >>[i] = b} = {}
  OBVIOUS
<1>2. QED
  BY <1>1 DEF Recovered

\* The steps of Transactions, in the words of the mapping.
LEMMA Stutters ==
  ASSUME Durable' = Durable, Seen' = Seen, Active' = Active
  PROVE  UNCHANGED Abstract!vars
BY DEF Abstract!vars, Seen, Active

LEMMA Begins ==
  ASSUME NEW o \in Ops, o \notin Active, Active' = Active \cup {o}, Durable' = Durable, Seen' = Seen
  PROVE  Abstract!Next
BY DEF Abstract!Next, Abstract!Begin, Seen, Active

LEMMA Ends ==
  ASSUME NEW o \in Ops, o \in Active, Active' = Active \ {o}, Durable' = Durable, Seen' = Seen
  PROVE  Abstract!Next
BY DEF Abstract!Next, Abstract!End, Seen, Active

LEMMA Writes ==
  ASSUME NEW o \in Ops, o \in Active, NEW b \in Blocks, NEW v \in Vals,
         Seen' = [Seen EXCEPT ![b] = v], Durable' = Durable, Active' = Active
  PROVE  Abstract!Next
BY Zenon DEF Abstract!Next, Abstract!Write, Seen, Active

LEMMA Commits ==
  ASSUME Active = {}, Durable' = Seen, Seen' = Seen, Active' = Active
  PROVE  Abstract!Next
BY DEF Abstract!Next, Abstract!Commit, Seen, Active

LEMMA Crashes ==
  ASSUME Seen' = Durable, Active' = {}, Durable' = Durable
  PROVE  Abstract!Next
BY DEF Abstract!Next, Abstract!Crash, Seen, Active

\* What the calls see stays while the system is up and the buffers stay.
LEMMA SameSeen ==
  ASSUME Up, Up' \/ panic' # "none", \A b \in Blocks : Data(b)' = Data(b)
  PROVE  Seen' = Seen
BY DEF Seen

LEMMA BeginSim ==
  ASSUME RInv, NEW o \in Ops, BeginOp(o) \/ \E b \in Blocks : LogWriteChecks(o, b)
  PROVE  Abstract!Next \/ UNCHANGED Abstract!vars
<1>1. /\ Up /\ UNCHANGED <<home, logblk, head, cache, phase, committing>>
      /\ panic' = panic \/ panic' # "none"
  BY DEF BeginOp, LogWriteChecks, disk, memory
<1>2. Durable' = Durable
  BY <1>1 DEF Durable
<1>3. Seen' = Seen
  <2>1. Up' \/ panic' # "none"
    BY <1>1 DEF Up
  <2>2. \A b \in Blocks : Data(b)' = Data(b)
    BY <1>1 DEF Data
  <2>3. QED
    BY <1>1, <2>1, <2>2, SameSeen
<1>4. \/ op' = op
      \/ op[o] = "idle" /\ op' = [op EXCEPT ![o] = "active"]
      \/ op[o] = "idle" /\ op' = [op EXCEPT ![o] = "asleep"]
  BY DEF BeginOp, LogWriteChecks
<1>5. op \in [Ops -> {"idle", "asleep", "active", "commit"}]
  BY DEF RInv, SInv, TypeOK
<1>6. Active' = Active \/ (o \notin Active /\ Active' = Active \cup {o})
  BY <1>4, <1>5 DEF Active
<1>7. QED
  BY <1>2, <1>3, <1>6, Stutters, Begins

LEMMA EndSim ==
  ASSUME RInv, NEW o \in Ops, EndOp(o)
  PROVE  Abstract!Next
<1>1. /\ Up /\ phase = "idle" /\ ~committing /\ op[o] = "active"
      /\ UNCHANGED <<home, logblk, head, cache>>
  BY ActiveIdle DEF EndOp, disk
<1>2. /\ panic' = panic
      /\ \/ committing' /\ op' = [op EXCEPT ![o] = "commit"]
         \/ /\ phase' = phase
            /\ op' = [r \in Ops |-> IF r = o \/ Woken(r) THEN "idle" ELSE op[r]]
  BY <1>1 DEF EndOp
<1>3. op \in [Ops -> {"idle", "asleep", "active", "commit"}]
  BY DEF RInv, SInv, TypeOK
<1>4. \A r \in Ops : op'[r] = "active" <=> op[r] = "active" /\ r # o
  BY <1>2, <1>3 DEF Woken
<1>5. o \in Active /\ Active' = Active \ {o}
  BY <1>1, <1>4 DEF Active
<1>6. Durable' = Durable
  BY <1>1 DEF Durable
<1>7. Seen' = Seen
  <2>1. Up'
    BY <1>1, <1>2 DEF Up
  <2>2. \A b \in Blocks : Data(b)' = Data(b)
    BY <1>1 DEF Data
  <2>3. QED
    BY <1>1, <2>1, <2>2, SameSeen
<1>8. QED
  BY <1>5, <1>6, <1>7, Ends

LEMMA LogWriteSim ==
  ASSUME RInv, NEW o \in Ops, NEW v \in Vals, LogWrite(o, v)
  PROVE  Abstract!Next
<1> DEFINE b == target[o]
<1>1. b \in Blocks /\ v # NULL /\ o \in Active
  BY LogAssumption DEF LogWrite, RInv, SInv, TypeOK, Active
<1>2. /\ Up /\ cache' = [cache EXCEPT ![b] = v]
      /\ UNCHANGED <<home, logblk, head, committing, phase, op, panic>>
  BY DEF LogWrite, disk
<1> HIDE DEF b
<1>3. Durable' = Durable /\ Active' = Active
  BY <1>2 DEF Durable, Active
<1>4. \A x \in Blocks : Data(x)' = IF x = b THEN v ELSE Data(x)
  BY <1>1, <1>2, SeqFacts DEF Data
<1>5. Up'
  BY <1>2 DEF Up
<1>6. Seen = [x \in Blocks |-> Data(x)] /\ Seen' = [x \in Blocks |-> Data(x)']
  BY <1>2, <1>5 DEF Seen
<1>7. Seen' = [Seen EXCEPT ![b] = v]
  BY <1>1, <1>4, <1>6
<1>8. QED
  BY <1>1, <1>3, <1>7, Writes, Zenon

LEMMA WriteLogSim ==
  ASSUME RInv, WriteLog
  PROVE  UNCHANGED Abstract!vars
<1>1. /\ phase = "write_log" /\ panic = "none"
      /\ UNCHANGED <<home, head, cache, committing, phase, op, panic>>
  BY DEF WriteLog, memory
<1>2. committing /\ head = << >>
  BY <1>1 DEF RInv, SInv, Bookkeeping, Consistent
<1>3. Durable' = Durable
  BY <1>1, <1>2, NoHead, DurableRecovered
<1>4. Up /\ Up'
  BY <1>1, <1>2 DEF Up
<1>5. \A b \in Blocks : Data(b)' = Data(b)
  BY <1>1 DEF Data
<1>6. Active' = Active
  BY <1>1 DEF Active
<1>7. QED
  BY <1>3, <1>4, <1>5, <1>6, SameSeen, Stutters

\* The one write of the header makes what the calls see durable.
LEMMA WriteHeadSim ==
  ASSUME RInv, WriteHead
  PROVE  Abstract!Next
<1>1. /\ phase = "write_log" /\ panic = "none" /\ tail > Len(lh) /\ head' = lh
      /\ UNCHANGED <<home, logblk, lh, cache, committing, op, panic>>
  BY DEF WriteHead, LogWritten, memory
<1>2. committing /\ Active = {}
  BY <1>1 DEF RInv, SInv, Bookkeeping
<1>3. Up /\ Up'
  BY <1>1, <1>2 DEF Up
<1>4. \A b \in Blocks : Data(b)' = Data(b)
  BY <1>1 DEF Data
<1>5. Seen = [b \in Blocks |-> Data(b)]
  BY <1>3 DEF Seen
<1>6. ASSUME NEW b \in Blocks, \A i \in 1..Len(lh) : lh[i] # b
      PROVE  Seen[b] = home[b]
  <2>1. b \notin dirty
    BY <1>1, <1>6 DEF RInv, Consistent, Logged
  <2>2. QED
    BY <1>5, <2>1 DEF Data, RInv, Consistent
<1>7. ASSUME NEW i \in 1..Len(lh)
      PROVE  Seen[lh[i]] = logblk[i]
  <2>1. lh[i] \in Blocks /\ lh[i] \in dirty /\ i < tail
    BY <1>1, SeqFacts DEF RInv, Consistent, Logged
  <2>2. cache[lh[i]] # NULL /\ logblk[i] = cache[lh[i]]
    BY <1>1, <2>1 DEF RInv, Consistent
  <2>3. QED
    BY <1>5, <2>1, <2>2 DEF Data
<1>8. lh \in Seq(Blocks) /\ Distinct(lh)
  BY SeqFacts DEF RInv, Consistent
<1>9. Recovered(home, logblk, lh) = [b \in Blocks |-> Seen[b]]
  <2> DEFINE f == Seen
  <2>1. /\ \A b \in Blocks : (\A i \in 1..Len(lh) : lh[i] # b) => f[b] = home[b]
        /\ \A i \in 1..Len(lh) : f[lh[i]] = logblk[i]
    BY <1>6, <1>7
  <2> HIDE DEF f
  <2>2. Recovered(home, logblk, lh) = [b \in Blocks |-> f[b]]
    BY <1>8, <2>1, RecoveredIs
  <2>3. QED
    BY <2>2 DEF f
<1>10. Durable' = Seen
  BY <1>1, <1>5, <1>9, DurableRecovered
<1>11. Active' = Active
  BY <1>1 DEF Active
<1>12. QED
  BY <1>2, <1>3, <1>4, <1>10, <1>11, SameSeen, Commits

LEMMA ReadHeadSim ==
  ASSUME RInv, ReadHead
  PROVE  UNCHANGED Abstract!vars
<1>1. /\ phase = "boot" /\ phase' = "install" /\ panic = "none"
      /\ UNCHANGED <<home, logblk, head, committing, op, panic>>
  BY DEF ReadHead, disk
<1>2. ~committing
  BY <1>1 DEF RInv, SInv, Bookkeeping
<1>3. Durable' = Durable /\ Active' = Active
  BY <1>1 DEF Durable, Active
<1>4. Seen = Durable /\ Seen' = Durable'
  BY <1>1, <1>2 DEF Seen, Up
<1>5. QED
  BY <1>3, <1>4, Stutters

\* Installing changes nothing: the header names the block that is overwritten.
LEMMA InstallSim ==
  ASSUME RInv, InstallTrans
  PROVE  UNCHANGED Abstract!vars
<1> DEFINE b == lh[tail]
           x == logblk[tail]
<1>1. /\ phase = "install" /\ panic = "none" /\ tail \in 1..Len(lh)
      /\ home' = [home EXCEPT ![b] = x] /\ cache' = [cache EXCEPT ![b] = x]
      /\ UNCHANGED <<logblk, head, lh, committing, phase, op, panic>>
  BY SeqFacts DEF InstallTrans
<1>2. b \in Blocks /\ x \in Vals /\ x # NULL
  BY <1>1, SeqFacts, LogAssumption
<1>3. head = lh /\ head \in Seq(Blocks) /\ Distinct(head) /\ b = head[tail]
  BY <1>1, SeqFacts, Installing
<1>4. committing => cache[b] = x
  BY <1>1, Installing
<1> HIDE DEF b, x
<1>5. \A y \in Blocks : /\ home'[y] = IF y = b THEN x ELSE home[y]
                        /\ cache'[y] = IF y = b THEN x ELSE cache[y]
  BY <1>1, SeqFacts
<1>6. Durable' = Durable
  <2> DEFINE r == Recovered(home, logblk, head)
  <2>r. /\ \A y \in Blocks : (\A i \in 1..Len(head) : head[i] # y) => r[y] = home[y]
        /\ \A i \in 1..Len(head) : r[head[i]] = logblk[i]
    <3>1. head \in Seq(Blocks) /\ Distinct(head)
      BY <1>3
    <3>2. ASSUME NEW y \in Blocks, \A i \in 1..Len(head) : head[i] # y
          PROVE  Recovered(home, logblk, head)[y] = home[y]
      BY <3>1, <3>2, RecoveredAt
    <3>3. ASSUME NEW i \in 1..Len(head)
          PROVE  Recovered(home, logblk, head)[head[i]] = logblk[i]
      BY <3>1, <3>3, RecoveredAt
    <3>4. QED
      BY <3>2, <3>3, Zenon
  <2>d. Durable = r
    BY DurableRecovered
  <2> HIDE DEF r
  <2>1. \A y \in Blocks : (\A i \in 1..Len(head) : head[i] # y) => Durable[y] = home'[y]
    <3> SUFFICES ASSUME NEW y \in Blocks, \A i \in 1..Len(head) : head[i] # y
                 PROVE  Durable[y] = home'[y]
      OBVIOUS
    <3>1. y # b
      BY <1>1, <1>3
    <3>2. r[y] = home[y] /\ home'[y] = home[y]
      BY <1>5, <2>r, <3>1
    <3>3. QED
      BY <2>d, <3>2
  <2>2. \A i \in 1..Len(head) : Durable[head[i]] = logblk[i]
    BY <2>r, <2>d
  <2>3. Recovered(home', logblk, head) = [y \in Blocks |-> Durable[y]]
    BY <1>3, <2>1, <2>2, RecoveredIs
  <2>4. Durable = [y \in Blocks |-> Durable[y]]
    BY DEF Durable
  <2>5. QED
    BY <1>1, <2>3, <2>4, DurableRecovered
<1>7. Seen' = Seen
  <2>1. CASE committing
    <3>1. Up /\ Up'
      BY <1>1, <2>1 DEF Up
    <3>2. \A y \in Blocks : Data(y)' = Data(y)
      BY <1>2, <1>4, <1>5, <2>1 DEF Data
    <3>3. QED
      BY <3>1, <3>2, SameSeen
  <2>2. CASE ~committing
    BY <1>1, <1>6, <2>2 DEF Seen, Up
  <2>3. QED
    BY <2>1, <2>2
<1>8. Active' = Active
  BY <1>1 DEF Active
<1>9. QED
  BY <1>6, <1>7, <1>8, Stutters

\* Nor does erasing the header: every block it names has been installed.
LEMMA EraseSim ==
  ASSUME RInv, EraseHead
  PROVE  UNCHANGED Abstract!vars
<1>1. /\ phase = "install" /\ panic = "none" /\ tail > Len(lh) /\ head' = << >>
      /\ phase' = IF committing THEN "finish" ELSE "idle"
      /\ UNCHANGED <<home, logblk, cache, dirty, committing, op, panic>>
  BY DEF EraseHead
<1>2. head = lh /\ head \in Seq(Blocks) /\ Distinct(head)
  BY <1>1, SeqFacts, Installing
<1>3. \A i \in 1..Len(head) : home[head[i]] = logblk[i]
  BY <1>1, <1>2, SeqFacts, Installing
<1>4. Recovered(home, logblk, head) = [b \in Blocks |-> home[b]]
  BY <1>2, <1>3, RecoveredIs
<1>5. Durable = [b \in Blocks |-> home[b]] /\ Durable' = [b \in Blocks |-> home[b]]
  BY <1>1, <1>4, NoHead, DurableRecovered
<1>6. Seen' = Seen
  <2>1. CASE committing
    <3>1. Up /\ Up'
      BY <1>1, <2>1 DEF Up
    <3>2. \A b \in Blocks : Data(b)' = Data(b)
      BY <1>1 DEF Data
    <3>3. QED
      BY <3>1, <3>2, SameSeen
  <2>2. CASE ~committing
    <3>1. Seen = Durable /\ Seen' = [b \in Blocks |-> Data(b)']
      BY <1>1, <2>2 DEF Seen, Up
    <3>2. \A b \in Blocks : Data(b)' = home[b]
      BY <1>1, <2>2 DEF Data, RInv, Consistent
    <3>3. QED
      BY <1>5, <3>1, <3>2
  <2>3. QED
    BY <2>1, <2>2
<1>7. Active' = Active
  BY <1>1 DEF Active
<1>8. QED
  BY <1>5, <1>6, <1>7, Stutters

LEMMA FinishSim ==
  ASSUME RInv, FinishCommit
  PROVE  UNCHANGED Abstract!vars
<1>1. /\ phase = "finish" /\ panic = "none" /\ phase' = "idle"
      /\ op' = [r \in Ops |-> IF op[r] = "commit" \/ Woken(r) THEN "idle" ELSE op[r]]
      /\ UNCHANGED <<home, logblk, head, cache, panic>>
  BY DEF FinishCommit, disk
<1>2. committing
  BY <1>1 DEF RInv, SInv, Bookkeeping
<1>3. Up /\ Up'
  BY <1>1, <1>2 DEF Up
<1>4. \A b \in Blocks : Data(b)' = Data(b)
  BY <1>1 DEF Data
<1>5. Durable' = Durable
  BY <1>1 DEF Durable
<1>6. Active' = Active
  BY <1>1 DEF Active, Woken
<1>7. QED
  BY <1>3, <1>4, <1>5, <1>6, SameSeen, Stutters

\* A buffer that is read or recycled agrees with its home block.
LEMMA BufferSim ==
  ASSUME RInv, NEW b \in Blocks, Read(b) \/ Evict(b)
  PROVE  UNCHANGED Abstract!vars
<1>1. /\ Up /\ UNCHANGED <<home, logblk, head, committing, phase, op, panic>>
      /\ \/ cache[b] = NULL /\ cache' = [cache EXCEPT ![b] = home[b]]
         \/ cache[b] # NULL /\ b \notin dirty /\ cache' = [cache EXCEPT ![b] = NULL]
  BY DEF Read, Evict, disk
<1>2. \A y \in Blocks : y # b => cache'[y] = cache[y]
  BY <1>1, SeqFacts
<1>3. Data(b)' = Data(b)
  <2>1. CASE cache[b] = NULL
    BY <1>1, <2>1, SeqFacts DEF Data
  <2>2. CASE cache[b] # NULL
    <3>1. cache[b] = home[b] /\ cache'[b] = NULL
      BY <1>1, <2>2, SeqFacts DEF RInv, Consistent
    <3>2. QED
      BY <1>1, <2>2, <3>1 DEF Data
  <2>3. QED
    BY <2>1, <2>2
<1>4. \A y \in Blocks : Data(y)' = Data(y)
  BY <1>1, <1>2, <1>3 DEF Data
<1>5. Up' /\ Durable' = Durable /\ Active' = Active
  BY <1>1 DEF Up, Durable, Active
<1>6. QED
  BY <1>1, <1>4, <1>5, SameSeen, Stutters

\* A crash loses what is not durable and ends the calls.
LEMMA CrashSim ==
  ASSUME RInv, Crash
  PROVE  Abstract!Next
<1>1. /\ phase' = "boot" /\ panic' = "none" /\ committing' = FALSE
      /\ op' = [o \in Ops |-> "idle"]
      /\ UNCHANGED <<home, logblk, head>>
  BY DEF Crash, disk
<1>2. Durable' = Durable /\ Active' = {}
  BY <1>1 DEF Durable, Active
<1>3. ~committing'
  BY <1>1
<1>4. Seen' = Durable'
  BY <1>1, <1>3 DEF Seen, Up
<1>5. QED
  BY <1>2, <1>4, Crashes

\* The machine starts with equal blocks, durable and seen.
LEMMA InitSim == Init => Abstract!Init
<1> SUFFICES ASSUME Init PROVE Abstract!Init
  OBVIOUS
<1>1. PICK v \in Vals : home = [b \in Blocks |-> v]
  BY DEF Init
<1>2. head = << >> /\ phase = "boot" /\ panic = "none" /\ ~committing /\ Active = {}
  BY DEF Init, Active
<1>3. Durable = [b \in Blocks |-> v]
  BY <1>1, <1>2, NoHead, DurableRecovered
<1>4. Seen = Durable
  BY <1>2 DEF Seen, Up
<1>5. QED
  BY <1>2, <1>3, <1>4 DEF Abstract!Init, Seen, Active

\* log.c implements Transactions: overlapping calls reach the disk all together, when
\* none is in progress, or not at all, for any blocks, contents and calls, and with a
\* crash at any moment of commit() and of recovery.
THEOREM LogIsAtomic == Spec => ImplementsTransactions
<1>1. RInv /\ [Next]_vars => [Abstract!Next]_(Abstract!vars)
  <2> SUFFICES ASSUME RInv, [Next]_vars PROVE Abstract!Next \/ UNCHANGED Abstract!vars
    OBVIOUS
  <2>1. CASE UNCHANGED vars
    <3>1. UNCHANGED <<home, logblk, head, cache, committing, phase, op, panic>>
      BY <2>1 DEF vars, disk, memory
    <3>2. Durable' = Durable /\ Active' = Active
      BY <3>1 DEF Durable, Active
    <3>3. Seen' = Seen
      BY <3>1, <3>2 DEF Seen, Up, Data
    <3>4. QED
      BY <3>2, <3>3, Stutters
  <2>2. CASE Next
    BY <2>2, BeginSim, EndSim, LogWriteSim, WriteLogSim, WriteHeadSim, ReadHeadSim, InstallSim,
       EraseSim, FinishSim, BufferSim, CrashSim DEF Next
  <2>3. QED
    BY <2>1, <2>2
<1>2. QED
  BY <1>1, InitSim, LogConsistent, PTL DEF Spec, ImplementsTransactions, Abstract!Spec
=============================================================================
