---------------------------- MODULE ProcFamilies ----------------------------
(* Parents and children in the process table: every process has a parent that *)
(* can wait for it, and no process sleeps in wait() through the exit of its    *)
(* child, the arrival of an orphan or its own death.                          *)
EXTENDS ProcProofs

Live == {"RUNNABLE", "RUNNING", "SLEEPING"}

Waiting(p) == state[p] = "SLEEPING" /\ pc[p] = "wait"

(* Who is whose child.  A process that is in use has a live parent, also while *)
(* the lock is held: in the last step of exit() the process has no children   *)
(* left.  A slot gets a parent when fork() has filled it, and no sooner.      *)
Family ==
  /\ state[initproc] \in Live /\ parent[initproc] = NULL
  /\ pc[initproc] \notin {"reparent", "zombie"}
  /\ \A p \in Slots \ {initproc} : state[p] \in Live \cup {"ZOMBIE"} =>
       parent[p] # NULL /\ state[parent[p]] \in Live
  /\ \A p \in Slots : /\ parent[p] # p
                      /\ state[p] = "UNUSED" => parent[p] = NULL
                      /\ pc[p] = "alloced" => parent[local[p]] = NULL
                      /\ pc[p] = "zombie" => \A r \in Slots : parent[r] # p

(* What whoever sleeps in wait() waits for.  A zombie may be among its        *)
(* children only while exit() is on the way to wake initproc for it; and from  *)
(* the first wakeup1() of exit() on, the parent does not sleep there.          *)
Waits ==
  /\ \A p \in Slots : Waiting(p) =>
       /\ chan[p] = p /\ ~killed[p]
       /\ \E r \in Slots : parent[r] = p
       /\ \A r \in Slots : parent[r] = p /\ state[r] = "ZOMBIE" => p = initproc /\ wchan = initproc
  /\ \A p \in Slots : pc[p] = "reparent" /\ wchan # NULL => wchan = parent[p]
  /\ \A p \in Slots : pc[p] = "zombie" \/ (pc[p] = "reparent" /\ wchan = NULL) =>
       ~Waiting(parent[p])

FInv == Family /\ Waits

\* What the invariant says of the fields of a slot.
LEMMA SlotFacts ==
  ASSUME IInv
  PROVE  /\ \A r \in Slots : parent[r] # NULL => parent[r] \in Slots
         /\ \A r \in Slots : pc[r] = "alloced" => local[r] \in Slots /\ state[local[r]] = "EMBRYO"
         /\ \A r \in Slots : pc[r] \in {"reparent", "zombie"} => state[r] = "RUNNING"
<1>1. \A r \in Slots : parent[r] \in Ptr /\ local[r] \in Ptr
  BY DEF IInv, TypeOK
<1>2. ASSUME NEW r \in Slots, pc[r] = "alloced"
      PROVE  local[r] \in Slots /\ state[local[r]] = "EMBRYO"
  BY <1>1, <1>2 DEF IInv, ForkOwnsEmbryo, Ptr
<1>3. QED
  BY <1>1, <1>2 DEF Ptr, IInv, ThreadMatchesState

\* Families do not change when nobody gets another parent, no process in use stops
\* being in use or begins to be, and no fork() or exit() reaches its delicate part.
LEMMA SameFamily ==
  ASSUME IInv, Family, \A r \in Slots : parent'[r] = parent[r],
         \A r \in Slots : state[r] \in Live => state'[r] \in Live,
         \A r \in Slots : state'[r] \in Live \cup {"ZOMBIE"} => state[r] \in Live \cup {"ZOMBIE"},
         \A r \in Slots : state'[r] = "UNUSED" => parent[r] = NULL,
         \A r \in Slots : pc'[r] = "alloced" => local'[r] \in Slots /\ parent[local'[r]] = NULL,
         \A r \in Slots : pc'[r] = "zombie" => pc[r] = "zombie",
         pc'[initproc] \notin {"reparent", "zombie"}
  PROVE  Family'
<1>1. \A r \in Slots : parent[r] # NULL => parent[r] \in Slots
  BY SlotFacts
<1>2. state'[initproc] \in Live /\ parent'[initproc] = NULL
  BY Constants DEF Family
<1>3. ASSUME NEW p \in Slots \ {initproc}, state'[p] \in Live \cup {"ZOMBIE"}
      PROVE  parent'[p] # NULL /\ state'[parent'[p]] \in Live
  BY <1>1, <1>3 DEF Family
<1>4. ASSUME NEW p \in Slots
      PROVE  /\ parent'[p] # p
             /\ state'[p] = "UNUSED" => parent'[p] = NULL
             /\ pc'[p] = "alloced" => parent'[local'[p]] = NULL
             /\ pc'[p] = "zombie" => \A r \in Slots : parent'[r] # p
  BY <1>4 DEF Family
<1>5. QED
  BY <1>2, <1>3, <1>4 DEF Family, Live

\* Whoever sleeps in wait() slept there before with the same children and nobody
\* else exits.
LEMMA SameWaits ==
  ASSUME IInv, Family, Waits, \A r \in Slots : parent'[r] = parent[r], wchan' = wchan,
         \A r \in Slots : Waiting(r)' => Waiting(r) /\ chan'[r] = chan[r] /\ ~killed'[r],
         \A r \in Slots : state'[r] = "ZOMBIE" => state[r] = "ZOMBIE",
         \A r \in Slots : pc'[r] \in {"reparent", "zombie"} =>
           pc'[r] = pc[r]
  PROVE  Waits'
<1>1. ASSUME NEW p \in Slots, Waiting(p)'
      PROVE  /\ chan'[p] = p /\ ~killed'[p]
             /\ \E r \in Slots : parent'[r] = p
             /\ \A r \in Slots : parent'[r] = p /\ state'[r] = "ZOMBIE" =>
                  p = initproc /\ wchan' = initproc
  BY <1>1 DEF Waits
<1>2. ASSUME NEW p \in Slots, pc'[p] = "reparent", wchan' # NULL
      PROVE  wchan' = parent'[p]
  BY <1>2 DEF Waits
<1>3. ASSUME NEW p \in Slots, pc'[p] = "zombie" \/ (pc'[p] = "reparent" /\ wchan' = NULL)
      PROVE  ~Waiting(parent[p])'
  <2>1. ~Waiting(parent[p]) /\ state[p] = "RUNNING"
    BY <1>3, SlotFacts DEF Waits
  <2>2. p # initproc
    BY <1>3 DEF Family
  <2>3. parent[p] \in Slots
    BY <2>1, <2>2, SlotFacts DEF Family, Live
  <2>4. QED
    BY <2>1, <2>3
<1>4. QED
  <2>1. \A p \in Slots : parent'[p] = parent[p]
    OBVIOUS
  <2>2. QED
    BY <1>1, <1>2, <1>3, <2>1 DEF Waits, Waiting

\* A running process that goes to user space, into a system call or into getprio()
\* changes nobody's family.
LEMMA MovesFInv ==
  ASSUME IInv, FInv, NEW p \in Slots, state[p] = "RUNNING", NEW w \in {"user", "kern", "getprio"},
         pc' = [pc EXCEPT ![p] = w], \A r \in Slots \ {p} : local'[r] = local[r],
         UNCHANGED <<state, parent, chan, killed, wchan>>
  PROVE  FInv'
<1>1. \A r \in Slots : pc'[r] = IF r = p THEN w ELSE pc[r]
  BY DEF IInv, TypeOK
<1>2. \A r \in Slots : pc'[r] \in {"alloced", "reparent", "zombie"} => r # p /\ pc'[r] = pc[r]
  BY <1>1
<1>3. Family'
  <2>1. \A r \in Slots : pc'[r] = "alloced" => local'[r] \in Slots /\ parent[local'[r]] = NULL
    BY <1>2, SlotFacts DEF FInv, Family
  <2>2. pc'[initproc] \notin {"reparent", "zombie"}
    BY <1>2, Constants DEF FInv, Family
  <2>3. \A r \in Slots : state[r] = "UNUSED" => parent[r] = NULL
    BY DEF FInv, Family
  <2>4. QED
    BY <1>2, <2>1, <2>2, <2>3, SameFamily DEF FInv
<1>4. Waits'
  <2>1. ASSUME NEW r \in Slots, Waiting(r)'
        PROVE  Waiting(r) /\ chan'[r] = chan[r] /\ ~killed'[r]
    <3>1. r # p /\ Waiting(r)
      BY <2>1, <1>1 DEF Waiting
    <3>2. QED
      BY <3>1 DEF FInv, Waits
  <2>2. QED
    BY <1>2, <2>1, SameWaits DEF FInv
<1>5. QED
  BY <1>3, <1>4 DEF FInv

\* System calls that leave the table alone, getprio(), setprio() and the failure of
\* wait() change nobody's family.
LEMMA QuietFInv ==
  ASSUME IInv, FInv, NEW c \in Cpus,
         \/ Syscall(c) \/ Sysret(c) \/ GetprioReads(c) \/ WaitFails(c)
         \/ \E k \in Queried : GetprioFinds(c, k)
         \/ \E k \in Targets, q \in Prio : Setprio(c, k, q)
  PROVE  FInv'
<1>1. cpuproc[c] \in Slots /\ state[cpuproc[c]] = "RUNNING"
  <2>1. CASE WaitFails(c)
    BY <2>1, ScanningRuns DEF WaitFails
  <2>2. CASE ~WaitFails(c)
    BY <2>2, CurRunning, Constants
       DEF Syscall, Sysret, GetprioReads, GetprioFinds, Setprio, Running, Acquires, In, Cur
  <2>3. QED
    BY <2>1, <2>2
<1>2. /\ \E w \in {"user", "kern", "getprio"} : pc' = [pc EXCEPT ![cpuproc[c]] = w]
      /\ local' = local \/ \E x : local' = [local EXCEPT ![cpuproc[c]] = x]
      /\ UNCHANGED <<state, parent, chan, killed, wchan>>
  BY DEF Syscall, Sysret, GetprioReads, GetprioFinds, Setprio, WaitFails, Goto, Cur, table
<1>3. \A r \in Slots \ {cpuproc[c]} : local'[r] = local[r]
  BY <1>2 DEF IInv, TypeOK
<1>4. QED
  BY <1>1, <1>2, <1>3, MovesFInv, Zenon

\* So does the hand-over of the lock to the scheduler.
LEMMA SwitchOutFInv ==
  ASSUME IInv, FInv, NEW c \in Cpus, SwitchOut(c)
  PROVE  FInv'
BY DEF SwitchOut, table, threads, FInv, Family, Waits, Waiting

\* A live process that stays live, and does not enter wait(), fork() or exit(), keeps
\* the families: what scheduler(), yield(), sleep(), wakeup1() and kill() do.
LEMMA LiveFInv ==
  ASSUME IInv, FInv, NEW p \in Slots, state[p] \in Live, NEW to \in Live,
         state' = [state EXCEPT ![p] = to],
         \A r \in Slots : pc'[r] \in {"alloced", "wait", "reparent", "zombie"} => pc'[r] = pc[r],
         \A r \in Slots \ {p} : chan'[r] = chan[r] /\ (killed'[r] = killed[r]),
         to # "SLEEPING" \/ pc'[p] # "wait",
         UNCHANGED <<parent, local, wchan>>
  PROVE  FInv'
<1>1. \A r \in Slots : state'[r] = IF r = p THEN to ELSE state[r]
  BY DEF IInv, TypeOK
<1>2. Family'
  <2>1. \A r \in Slots : pc'[r] = "alloced" => local'[r] \in Slots /\ parent[local'[r]] = NULL
    BY SlotFacts DEF FInv, Family
  <2>2. pc'[initproc] \notin {"reparent", "zombie"}
    BY Constants DEF FInv, Family
  <2>3. \A r \in Slots : state'[r] = "UNUSED" => parent[r] = NULL
    BY <1>1 DEF FInv, Family, Live
  <2>4. /\ \A r \in Slots : state[r] \in Live => state'[r] \in Live
        /\ \A r \in Slots : state'[r] \in Live \cup {"ZOMBIE"} => state[r] \in Live \cup {"ZOMBIE"}
    BY <1>1
  <2>5. QED
    BY <2>1, <2>2, <2>3, <2>4, SameFamily DEF FInv
<1>3. Waits'
  <2>1. ASSUME NEW r \in Slots, Waiting(r)'
        PROVE  Waiting(r) /\ chan'[r] = chan[r] /\ ~killed'[r]
    <3>1. r # p /\ Waiting(r)
      BY <2>1, <1>1 DEF Waiting
    <3>2. ~killed[r]
      BY <3>1 DEF FInv, Waits
    <3>3. QED
      BY <3>1, <3>2
  <2>2. \A r \in Slots : state'[r] = "ZOMBIE" => state[r] = "ZOMBIE"
    BY <1>1 DEF Live
  <2>3. QED
    BY <2>1, <2>2, SameWaits DEF FInv
<1>4. QED
  BY <1>2, <1>3 DEF FInv

\* The scheduler and the timer interrupt keep the families.
LEMMA DispatchFInv ==
  ASSUME IInv, FInv, NEW c \in Cpus, Dispatch(c)
  PROVE  FInv'
<1> DEFINE p == Next2Run
<1>1. p \in Slots /\ state[p] = "RUNNABLE"
  BY Next2RunRunnable DEF Dispatch, IInv
<1>2. /\ state' = [state EXCEPT ![p] = "RUNNING"]
      /\ chan' = [chan EXCEPT ![p] = NULL]
      /\ pc' = [pc EXCEPT ![p] = IF @ = "sleep" THEN "kern" ELSE @]
      /\ UNCHANGED <<parent, killed, wchan, local>>
  BY DEF Dispatch
<1> HIDE DEF p
<1>3. /\ \A r \in Slots : pc'[r] \in {"alloced", "wait", "reparent", "zombie"} => pc'[r] = pc[r]
      /\ \A r \in Slots \ {p} : chan'[r] = chan[r]
  BY <1>1, <1>2 DEF IInv, TypeOK
<1>4. \A r \in Slots \ {p} : killed'[r] = killed[r]
  BY <1>2
<1>5. QED
  BY <1>1, <1>2, <1>3, <1>4, LiveFInv, Zenon DEF Live

LEMMA YieldFInv ==
  ASSUME IInv, FInv, NEW c \in Cpus, Yield(c)
  PROVE  FInv'
<1>1. cpuproc[c] \in Slots /\ state[cpuproc[c]] = "RUNNING"
  BY CurRunning, Constants DEF Yield, Acquires, Cur
<1>2. /\ state' = [state EXCEPT ![cpuproc[c]] = "RUNNABLE"]
      /\ UNCHANGED <<parent, chan, killed, wchan, pc, local>>
  BY DEF Yield, MakeRunnable, threads, Cur
<1>3. QED
  BY <1>1, <1>2, LiveFInv, Zenon DEF Live

\* sleep() on another channel than the process's own keeps the families.
LEMMA SleepFInv ==
  ASSUME IInv, FInv, NEW c \in Cpus, NEW ch \in Chans, Sleep(c, ch)
  PROVE  FInv'
<1> DEFINE p == cpuproc[c]
<1>1. p \in Slots /\ state[p] = "RUNNING"
  BY CurRunning, Constants DEF Sleep, Acquires, In, Cur
<1>2. /\ state' = [state EXCEPT ![p] = "SLEEPING"]
      /\ chan' = [chan EXCEPT ![p] = ch]
      /\ pc' = [pc EXCEPT ![p] = "sleep"]
      /\ UNCHANGED <<parent, killed, wchan, local>>
  BY DEF Sleep, Goto, Cur
<1> HIDE DEF p
<1>3. /\ \A r \in Slots : pc'[r] \in {"alloced", "wait", "reparent", "zombie"} => pc'[r] = pc[r]
      /\ \A r \in Slots \ {p} : chan'[r] = chan[r]
      /\ pc'[p] = "sleep"
  BY <1>1, <1>2 DEF IInv, TypeOK
<1>4. \A r \in Slots \ {p} : killed'[r] = killed[r]
  BY <1>2
<1>5. QED
  BY <1>1, <1>2, <1>3, <1>4, LiveFInv, Zenon DEF Live

\* So does a round of the wakeup1() loop.
LEMMA Wakeup1FInv ==
  ASSUME IInv, FInv, NEW c \in Cpus, Wakeup1(c)
  PROVE  FInv'
<1> DEFINE p == First(Sleepers(wchan))
<1>1. p \in Slots /\ state[p] = "SLEEPING"
  BY FirstIn DEF Wakeup1, Sleepers
<1>2. /\ state' = [state EXCEPT ![p] = "RUNNABLE"]
      /\ UNCHANGED <<parent, chan, killed, wchan, pc, local>>
  BY DEF Wakeup1, MakeRunnable, threads
<1> HIDE DEF p
<1>3. QED
  BY <1>1, <1>2, LiveFInv, Zenon DEF Live

\* wakeup() begins when nobody exits, so no zombie is left to be announced.
LEMMA WakeupFInv ==
  ASSUME IInv, FInv, NEW c \in Cpus, NEW ch \in Chans, Wakeup(c, ch)
  PROVE  FInv'
<1>1. ptlock = NULL /\ UNCHANGED <<state, parent, chan, killed, pc, local>>
  BY DEF Wakeup, Acquires, table, threads
<1>2. wchan = NULL /\ \A r \in Slots : pc[r] \notin {"reparent", "zombie"}
  BY <1>1, LockFree
<1>3. Family'
  BY <1>1 DEF FInv, Family
<1>4. Waits'
  BY <1>1, <1>2, Constants DEF FInv, Waits, Waiting
<1>5. QED
  BY <1>3, <1>4 DEF FInv

\* When the wakeup1() loop of exit() is over nobody sleeps on its channel, and a
\* process waiting for its children sleeps on its own address.
LEMMA WakeupEndsFInv ==
  ASSUME IInv, FInv, NEW c \in Cpus, WakeupEnds(c)
  PROVE  FInv'
<1>1. /\ wchan # NULL /\ wchan' = NULL
      /\ UNCHANGED <<state, parent, chan, killed, pc, local>>
  BY DEF WakeupEnds, table, threads
<1>2. \A r \in Slots : state[r] = "SLEEPING" => chan[r] # wchan
  BY DEF WakeupEnds, Sleepers
<1>3. Family'
  BY <1>1 DEF FInv, Family
<1>4. Waits'
  <2>1. ASSUME NEW p \in Slots, Waiting(p)
        PROVE  /\ chan[p] = p /\ p # wchan /\ ~killed[p]
               /\ \E r \in Slots : parent[r] = p
               /\ \A r \in Slots : ~(parent[r] = p /\ state[r] = "ZOMBIE")
    BY <2>1, <1>2 DEF FInv, Waits, Waiting
  <2>2. ASSUME NEW p \in Slots, pc[p] \in {"reparent", "zombie"}
        PROVE  ~Waiting(parent[p])
    <3>1. parent[p] \in Slots
      BY <2>2, SlotFacts DEF FInv, Family, Live
    <3>2. QED
      BY <1>1, <2>1, <2>2, <3>1 DEF FInv, Waits
  <2>3. QED
    BY <1>1, <2>1, <2>2 DEF Waits, Waiting
<1>5. QED
  BY <1>3, <1>4 DEF FInv

\* kill() wakes the process it marks if that one sleeps.
LEMMA KillFInv ==
  ASSUME IInv, FInv, NEW c \in Cpus, NEW k \in Targets, Kill(c, k)
  PROVE  FInv'
<1> DEFINE me == cpuproc[c]
           S == {r \in Slots : pid[r] = k}
           p == First(S)
<1>1. me \in Slots /\ state[me] = "RUNNING"
  BY LockFree DEF Kill, Acquires, In, Cur
<1>2. /\ pc' = [pc EXCEPT ![me] = "user"]
      /\ UNCHANGED <<parent, chan, wchan, local>>
  BY DEF Kill, Goto, Cur
<1>3. CASE S = {}
  <2>1. UNCHANGED <<killed, state>>
    BY <1>3 DEF Kill
  <2>2. QED
    BY <1>1, <1>2, <2>1, MovesFInv, Zenon
<1>4. CASE S # {}
  <2>1. p \in Slots
    BY <1>4, FirstIn
  <2>2. /\ killed' = [killed EXCEPT ![p] = TRUE]
        /\ IF state[p] = "SLEEPING" THEN state' = [state EXCEPT ![p] = "RUNNABLE"]
           ELSE state' = state
    BY <1>4 DEF Kill, MakeRunnable, KillWakes
  <2> HIDE DEF me, p, S
  <2>3. /\ \A r \in Slots : state'[r] = IF r = p /\ state[p] = "SLEEPING" THEN "RUNNABLE" ELSE state[r]
        /\ \A r \in Slots : pc'[r] = IF r = me THEN "user" ELSE pc[r]
    BY <1>2, <2>1, <2>2 DEF IInv, TypeOK
  <2>4. \A r \in Slots : r # p => killed'[r] = killed[r]
    BY <2>2 DEF IInv, TypeOK
  <2>5. \A r \in Slots : pc'[r] \in {"alloced", "reparent", "zombie"} => pc'[r] = pc[r]
    BY <2>3
  <2>6. Family'
    <3>1. \A r \in Slots : pc'[r] = "alloced" => local'[r] \in Slots /\ parent[local'[r]] = NULL
      BY <1>2, <2>5, SlotFacts DEF FInv, Family
    <3>2. pc'[initproc] \notin {"reparent", "zombie"}
      BY <2>5, Constants DEF FInv, Family
    <3>3. \A r \in Slots : state'[r] = "UNUSED" => parent[r] = NULL
      BY <2>3 DEF FInv, Family
    <3>4. /\ \A r \in Slots : state[r] \in Live => state'[r] \in Live
          /\ \A r \in Slots : state'[r] \in Live \cup {"ZOMBIE"} => state[r] \in Live \cup {"ZOMBIE"}
      BY <2>3 DEF Live
    <3>5. QED
      BY <1>2, <2>5, <3>1, <3>2, <3>3, <3>4, SameFamily DEF FInv
  <2>7. Waits'
    <3>1. ASSUME NEW r \in Slots, Waiting(r)'
          PROVE  Waiting(r) /\ chan'[r] = chan[r] /\ ~killed'[r]
      <4>1. r # p /\ r # me /\ Waiting(r)
        BY <3>1, <2>3 DEF Waiting
      <4>2. ~killed[r]
        BY <4>1 DEF FInv, Waits
      <4>3. QED
        BY <4>1, <4>2, <2>4, <1>2
    <3>2. \A r \in Slots : state'[r] = "ZOMBIE" => state[r] = "ZOMBIE"
      BY <2>3
    <3>3. QED
      BY <1>2, <2>5, <3>1, <3>2, SameWaits DEF FInv
  <2>8. QED
    BY <2>6, <2>7 DEF FInv
<1>5. QED
  BY <1>3, <1>4

\* allocproc() takes a slot that has no parent; the failure of fork() gives back one
\* that has none yet.
LEMMA ForkSlotFInv ==
  ASSUME IInv, FInv, NEW p \in Slots, state[p] = "RUNNING", NEW np \in Slots, NEW w, NEW to,
         state' = [state EXCEPT ![np] = to], pc' = [pc EXCEPT ![p] = w],
         \/ to = "EMBRYO" /\ state[np] = "UNUSED" /\ w = "alloced" /\ local'[p] = np
         \/ to = "UNUSED" /\ state[np] = "EMBRYO" /\ w = "user" /\ parent[np] = NULL,
         \A r \in Slots \ {p} : local'[r] = local[r],
         UNCHANGED <<parent, chan, killed, wchan>>
  PROVE  FInv'
<1>1. /\ \A r \in Slots : state'[r] = IF r = np THEN to ELSE state[r]
      /\ \A r \in Slots : pc'[r] = IF r = p THEN w ELSE pc[r]
  BY DEF IInv, TypeOK
<1>2. parent[np] = NULL
  BY DEF FInv, Family
<1>3. \A r \in Slots : pc'[r] \in {"reparent", "zombie", "wait"} => pc'[r] = pc[r]
  BY <1>1
<1>4. Family'
  <2>1. \A r \in Slots : pc'[r] = "alloced" => local'[r] \in Slots /\ parent[local'[r]] = NULL
    BY <1>1, <1>2, SlotFacts DEF FInv, Family
  <2>2. pc'[initproc] \notin {"reparent", "zombie"}
    BY <1>3, Constants DEF FInv, Family
  <2>3. \A r \in Slots : state'[r] = "UNUSED" => parent[r] = NULL
    BY <1>1, <1>2 DEF FInv, Family
  <2>4. /\ \A r \in Slots : state[r] \in Live => state'[r] \in Live
        /\ \A r \in Slots : state'[r] \in Live \cup {"ZOMBIE"} => state[r] \in Live \cup {"ZOMBIE"}
    BY <1>1 DEF Live
  <2>5. QED
    BY <1>3, <2>1, <2>2, <2>3, <2>4, SameFamily DEF FInv
<1>5. Waits'
  <2>1. ASSUME NEW r \in Slots, Waiting(r)'
        PROVE  Waiting(r) /\ chan'[r] = chan[r] /\ ~killed'[r]
    <3>1. Waiting(r)
      BY <2>1, <1>1, <1>3 DEF Waiting
    <3>2. QED
      BY <3>1 DEF FInv, Waits
  <2>2. \A r \in Slots : state'[r] = "ZOMBIE" => state[r] = "ZOMBIE"
    BY <1>1
  <2>3. QED
    BY <1>3, <2>1, <2>2, SameWaits DEF FInv
<1>6. QED
  BY <1>4, <1>5 DEF FInv

LEMMA AllocProcFInv ==
  ASSUME IInv, FInv, NEW c \in Cpus, AllocProc(c)
  PROVE  FInv'
<1> DEFINE me == cpuproc[c]
           np == First(Unused)
<1>1. me \in Slots /\ state[me] = "RUNNING"
  BY LockFree DEF AllocProc, Acquires, In, Cur
<1>2. np \in Slots /\ state[np] = "UNUSED"
  BY FirstIn DEF AllocProc, Unused
<1>3. /\ state' = [state EXCEPT ![np] = "EMBRYO"]
      /\ pc' = [pc EXCEPT ![me] = "alloced"]
      /\ local' = [local EXCEPT ![me] = np]
      /\ UNCHANGED <<parent, chan, killed, wchan>>
  BY DEF AllocProc, Goto, Cur
<1> HIDE DEF me, np
<1>4. local'[me] = np /\ \A r \in Slots \ {me} : local'[r] = local[r]
  BY <1>1, <1>3 DEF IInv, TypeOK
<1>5. QED
  BY <1>1, <1>2, <1>3, <1>4, ForkSlotFInv, Zenon

LEMMA ForkFailsFInv ==
  ASSUME IInv, FInv, NEW c \in Cpus, ForkFails(c)
  PROVE  FInv'
<1> DEFINE me == cpuproc[c]
           np == local[me]
<1>1. me \in Slots /\ state[me] = "RUNNING" /\ pc[me] = "alloced"
  BY CurRunning DEF ForkFails, Running, In, Cur
<1>2. np \in Slots /\ state[np] = "EMBRYO" /\ parent[np] = NULL
  BY <1>1, SlotFacts DEF FInv, Family
<1>3. /\ state' = [state EXCEPT ![np] = "UNUSED"]
      /\ pc' = [pc EXCEPT ![me] = "user"]
      /\ local' = [local EXCEPT ![me] = NULL]
      /\ UNCHANGED <<parent, chan, killed, wchan>>
  BY DEF ForkFails, Goto, Cur
<1> HIDE DEF me, np
<1>4. \A r \in Slots \ {me} : local'[r] = local[r]
  BY <1>3 DEF IInv, TypeOK
<1>5. QED
  BY <1>1, <1>2, <1>3, <1>4, ForkSlotFInv, Zenon

\* np->parent = curproc, stored without the lock, gives a live parent to a slot that
\* had none and that no other fork() writes to.
LEMMA ForkCopiesFInv ==
  ASSUME IInv, FInv, NEW c \in Cpus, ForkCopies(c)
  PROVE  FInv'
<1> DEFINE me == cpuproc[c]
           np == local[me]
<1>1. me \in Slots /\ state[me] = "RUNNING" /\ pc[me] = "alloced"
  BY CurRunning DEF ForkCopies, Running, In, Cur
<1>2. np \in Slots /\ state[np] = "EMBRYO" /\ parent[np] = NULL
  BY <1>1, SlotFacts DEF FInv, Family
<1>3. \A r \in Slots : r # me /\ pc[r] = "alloced" => local[r] \in Slots /\ local[r] # np
  BY <1>1, SlotFacts DEF IInv, ForkOwnsEmbryo
<1>4. /\ parent' = [parent EXCEPT ![np] = me]
      /\ pc' = [pc EXCEPT ![me] = "copied"]
      /\ UNCHANGED <<state, chan, killed, wchan, local>>
  BY DEF ForkCopies, Goto, Cur
<1> HIDE DEF me, np
<1>5. /\ \A r \in Slots : parent'[r] = IF r = np THEN me ELSE parent[r]
      /\ \A r \in Slots : pc'[r] = IF r = me THEN "copied" ELSE pc[r]
  BY <1>4 DEF IInv, TypeOK
<1>6. np # initproc /\ np # me /\ me # NULL
  BY <1>1, <1>2, Constants DEF FInv, Family, Live
<1>7. Family'
  <2>1. /\ state'[initproc] \in Live /\ parent'[initproc] = NULL
        /\ pc'[initproc] \notin {"reparent", "zombie"}
    BY <1>4, <1>5, <1>6, Constants DEF FInv, Family
  <2>2. \A r \in Slots \ {initproc} : state'[r] \in Live \cup {"ZOMBIE"} =>
          parent'[r] # NULL /\ state'[parent'[r]] \in Live
    BY <1>2, <1>4, <1>5 DEF FInv, Family, Live
  <2>3. \A r \in Slots : parent'[r] # r /\ (state'[r] = "UNUSED" => parent'[r] = NULL)
    BY <1>2, <1>4, <1>5, <1>6 DEF FInv, Family
  <2>4. \A r \in Slots : pc'[r] = "alloced" => parent'[local'[r]] = NULL
    BY <1>3, <1>4, <1>5 DEF FInv, Family
  <2>5. \A r \in Slots : pc'[r] = "zombie" => \A t \in Slots : parent'[t] # r
    BY <1>5 DEF FInv, Family
  <2>6. QED
    BY <2>1, <2>2, <2>3, <2>4, <2>5 DEF Family, Live
<1>8. Waits'
  <2>1. ASSUME NEW r \in Slots, Waiting(r)'
        PROVE  Waiting(r) /\ r # me
    BY <2>1, <1>1, <1>4, <1>5 DEF Waiting
  <2>2. ASSUME NEW r \in Slots, Waiting(r)'
        PROVE  chan'[r] = r /\ ~killed'[r]
    BY <2>1, <2>2, <1>4 DEF FInv, Waits
  <2>3. ASSUME NEW r \in Slots, Waiting(r)'
        PROVE  /\ \E t \in Slots : parent'[t] = r
               /\ \A t \in Slots : parent'[t] = r /\ state'[t] = "ZOMBIE" =>
                    r = initproc /\ wchan' = initproc
    <3>1. Waiting(r) /\ r # me
      BY <2>1, <2>3
    <3>2. r # NULL
      BY Constants
    <3>3. QED
      BY <3>1, <3>2, <1>2, <1>4, <1>5 DEF FInv, Waits
  <2>4. ASSUME NEW r \in Slots, pc'[r] \in {"reparent", "zombie"}
        PROVE  pc[r] = pc'[r] /\ parent'[r] = parent[r] /\ parent[r] \in Slots
    <3>1. pc[r] = pc'[r] /\ r # initproc
      BY <2>4, <1>5 DEF FInv, Family
    <3>2. state[r] = "RUNNING"
      BY <2>4, <3>1, SlotFacts
    <3>3. QED
      BY <3>1, <3>2, <1>2, <1>5, SlotFacts DEF FInv, Family, Live
  <2>5. \A r \in Slots : pc'[r] = "reparent" /\ wchan' # NULL => wchan' = parent'[r]
    BY <2>4, <1>4 DEF FInv, Waits
  <2>6. \A r \in Slots : pc'[r] = "zombie" \/ (pc'[r] = "reparent" /\ wchan' = NULL) =>
          ~Waiting(parent[r])
    BY <2>4, <1>4 DEF FInv, Waits
  <2>7. QED
    BY <2>1, <2>2, <2>3, <2>4, <2>5, <2>6 DEF Waits, Waiting
<1>9. QED
  BY <1>7, <1>8 DEF FInv

\* fork() makes its child ready while the parent runs.
LEMMA ForkPublishesFInv ==
  ASSUME IInv, FInv, NEW c \in Cpus, ForkPublishes(c)
  PROVE  FInv'
<1> DEFINE me == cpuproc[c]
           np == local[me]
<1>1. me \in Slots /\ state[me] = "RUNNING" /\ pc[me] = "copied"
  BY LockFree DEF ForkPublishes, Acquires, In, Cur
<1>2. np \in Slots /\ state[np] = "EMBRYO" /\ parent[np] = me
  BY <1>1 DEF IInv, ForkOwnsEmbryo, TypeOK, Ptr
<1>3. pc[np] = "user"
  BY <1>2 DEF IInv, ThreadMatchesState
<1>4. /\ state' = [state EXCEPT ![np] = "RUNNABLE"]
      /\ pc' = [pc EXCEPT ![me] = "user"]
      /\ local' = [local EXCEPT ![me] = NULL]
      /\ UNCHANGED <<parent, chan, killed, wchan>>
  BY DEF ForkPublishes, MakeRunnable, Goto, Cur
<1> HIDE DEF me, np
<1>5. /\ \A r \in Slots : state'[r] = IF r = np THEN "RUNNABLE" ELSE state[r]
      /\ \A r \in Slots : pc'[r] = IF r = me THEN "user" ELSE pc[r]
      /\ \A r \in Slots \ {me} : local'[r] = local[r]
  BY <1>4 DEF IInv, TypeOK
<1>6. Family'
  <2>1. /\ state'[initproc] \in Live /\ parent'[initproc] = NULL
        /\ pc'[initproc] \notin {"reparent", "zombie"}
    BY <1>4, <1>5, Constants DEF FInv, Family, Live
  <2>2. ASSUME NEW r \in Slots \ {initproc}, state'[r] \in Live \cup {"ZOMBIE"}
        PROVE  parent'[r] # NULL /\ state'[parent'[r]] \in Live
    <3>1. CASE r = np
      BY <3>1, <1>1, <1>2, <1>4, <1>5, Constants DEF Live
    <3>2. CASE r # np
      <4>1. parent[r] \in Slots /\ state[parent[r]] \in Live
        BY <2>2, <3>2, <1>5, SlotFacts DEF FInv, Family
      <4>2. QED
        BY <4>1, <1>4, <1>5, Constants DEF Live
    <3>3. QED
      BY <3>1, <3>2
  <2>3. \A r \in Slots : parent'[r] # r /\ (state'[r] = "UNUSED" => parent'[r] = NULL)
    BY <1>4, <1>5 DEF FInv, Family
  <2>4. \A r \in Slots : pc'[r] = "alloced" => parent'[local'[r]] = NULL
    BY <1>4, <1>5 DEF FInv, Family
  <2>5. \A r \in Slots : pc'[r] = "zombie" => \A t \in Slots : parent'[t] # r
    BY <1>4, <1>5 DEF FInv, Family
  <2>6. QED
    BY <2>1, <2>2, <2>3, <2>4, <2>5 DEF Family, Live
<1>7. Waits'
  <2>1. ASSUME NEW r \in Slots, Waiting(r)'
        PROVE  Waiting(r) /\ chan'[r] = chan[r] /\ ~killed'[r]
    <3>1. Waiting(r)
      BY <2>1, <1>5 DEF Waiting
    <3>2. QED
      BY <3>1, <1>4 DEF FInv, Waits
  <2>2. /\ \A r \in Slots : state'[r] = "ZOMBIE" => state[r] = "ZOMBIE"
        /\ \A r \in Slots : pc'[r] \in {"reparent", "zombie"} => pc'[r] = pc[r]
    BY <1>5
  <2>3. QED
    BY <1>4, <2>1, <2>2, SameWaits DEF FInv
<1>8. QED
  BY <1>6, <1>7 DEF FInv

\* wait() frees a child of its own that has exited: nobody's parent, since exit()
\* passed the children on, and a child nobody else waits for.
LEMMA WaitReapsFInv ==
  ASSUME IInv, FInv, NEW c \in Cpus, WaitReaps(c)
  PROVE  FInv'
<1> DEFINE me == cpuproc[c]
           p == First(Zombies(me))
<1>1. /\ me \in Slots /\ state[me] = "RUNNING" /\ wchan = NULL
      /\ \A r \in Slots : pc[r] \notin {"reparent", "zombie"}
  BY ScanningRuns DEF WaitReaps
<1>2. p \in Slots /\ state[p] = "ZOMBIE" /\ parent[p] = me
  BY FirstIn DEF WaitReaps, Zombies, Children, Cur
<1>3. /\ state' = [state EXCEPT ![p] = "UNUSED"]
      /\ parent' = [parent EXCEPT ![p] = NULL]
      /\ killed' = [killed EXCEPT ![p] = FALSE]
      /\ pc' = [pc EXCEPT ![me] = "user"]
      /\ UNCHANGED <<chan, wchan, local>>
  BY DEF WaitReaps, Goto, Cur
<1> HIDE DEF me, p
<1>4. /\ \A r \in Slots : state'[r] = IF r = p THEN "UNUSED" ELSE state[r]
      /\ \A r \in Slots : parent'[r] = IF r = p THEN NULL ELSE parent[r]
      /\ \A r \in Slots : pc'[r] = IF r = me THEN "user" ELSE pc[r]
  BY <1>3 DEF IInv, TypeOK
<1>5. \A r \in Slots \ {p} : killed'[r] = killed[r]
  BY <1>3 DEF IInv, TypeOK
<1>6. Family'
  <2>1. /\ state'[initproc] \in Live /\ parent'[initproc] = NULL
        /\ pc'[initproc] \notin {"reparent", "zombie"}
    BY <1>2, <1>4, Constants DEF FInv, Family, Live
  <2>2. ASSUME NEW r \in Slots \ {initproc}, state'[r] \in Live \cup {"ZOMBIE"}
        PROVE  parent'[r] # NULL /\ state'[parent'[r]] \in Live
    <3>1. r # p /\ state[r] \in Live \cup {"ZOMBIE"}
      BY <2>2, <1>4 DEF Live
    <3>2. parent[r] \in Slots /\ state[parent[r]] \in Live
      BY <3>1, SlotFacts DEF FInv, Family
    <3>3. parent[r] # p
      BY <3>2, <1>2 DEF Live
    <3>4. QED
      BY <3>1, <3>2, <3>3, <1>4, Constants
  <2>3. \A r \in Slots : parent'[r] # r /\ (state'[r] = "UNUSED" => parent'[r] = NULL)
    BY <1>4, Constants DEF FInv, Family
  <2>4. ASSUME NEW r \in Slots, pc'[r] = "alloced"
        PROVE  parent'[local'[r]] = NULL
    <3>1. pc[r] = "alloced"
      BY <2>4, <1>4
    <3>2. local[r] \in Slots /\ parent[local[r]] = NULL
      BY <3>1, SlotFacts DEF FInv, Family
    <3>3. QED
      BY <3>2, <1>3, <1>4
  <2>5. \A r \in Slots : pc'[r] = "zombie" => \A t \in Slots : parent'[t] # r
    BY <1>1, <1>4
  <2>6. QED
    BY <2>1, <2>2, <2>3, <2>4, <2>5 DEF Family, Live
<1>7. Waits'
  <2>1. ASSUME NEW r \in Slots, Waiting(r)'
        PROVE  Waiting(r) /\ r # me /\ r # p
    BY <2>1, <1>4 DEF Waiting
  <2>2. ASSUME NEW r \in Slots, Waiting(r)'
        PROVE  chan'[r] = r /\ ~killed'[r]
    BY <2>1, <2>2, <1>3, <1>5 DEF FInv, Waits
  <2>3. ASSUME NEW r \in Slots, Waiting(r)'
        PROVE  /\ \E t \in Slots : parent'[t] = r
               /\ \A t \in Slots : parent'[t] = r /\ state'[t] = "ZOMBIE" =>
                    r = initproc /\ wchan' = initproc
    <3>1. Waiting(r) /\ r # me
      BY <2>1, <2>3
    <3>2. PICK t \in Slots : parent[t] = r
      BY <3>1 DEF FInv, Waits
    <3>3. parent'[t] = r
      BY <3>1, <3>2, <1>2, <1>4
    <3>4. ASSUME NEW u \in Slots, parent'[u] = r, state'[u] = "ZOMBIE"
          PROVE  r = initproc /\ wchan' = initproc
      BY <3>1, <3>4, <1>3, <1>4, Constants DEF FInv, Waits
    <3>5. QED
      BY <3>3, <3>4
  <2>4. \A r \in Slots : pc'[r] \notin {"reparent", "zombie"}
    BY <1>1, <1>4
  <2>5. QED
    BY <2>2, <2>3, <2>4 DEF Waits, Waiting
<1>8. QED
  BY <1>6, <1>7 DEF FInv

\* wait() goes to sleep only with a child left, none of them a zombie, and unmarked.
LEMMA WaitSleepsFInv ==
  ASSUME IInv, FInv, NEW c \in Cpus, WaitSleeps(c)
  PROVE  FInv'
<1> DEFINE me == cpuproc[c]
<1>1. /\ me \in Slots /\ state[me] = "RUNNING" /\ wchan = NULL
      /\ \A r \in Slots : pc[r] \notin {"reparent", "zombie"}
  BY ScanningRuns DEF WaitSleeps
<1>2. /\ state' = [state EXCEPT ![me] = "SLEEPING"]
      /\ chan' = [chan EXCEPT ![me] = me]
      /\ pc' = [pc EXCEPT ![me] = "wait"]
      /\ UNCHANGED <<parent, killed, wchan, local>>
  BY DEF WaitSleeps, Goto, Cur
<1>3. /\ \E r \in Slots : parent[r] = me
      /\ \A r \in Slots : ~(parent[r] = me /\ state[r] = "ZOMBIE")
  BY DEF WaitSleeps, Zombies, Children, Cur
<1>4. ~killed'[me]
  BY <1>2 DEF WaitSleeps, Cur
<1> HIDE DEF me
<1>5. /\ \A r \in Slots : state'[r] = IF r = me THEN "SLEEPING" ELSE state[r]
      /\ \A r \in Slots : chan'[r] = IF r = me THEN me ELSE chan[r]
      /\ \A r \in Slots : pc'[r] = IF r = me THEN "wait" ELSE pc[r]
  BY <1>2 DEF IInv, TypeOK
<1>6. Family'
  <2>1. \A r \in Slots : pc'[r] = "alloced" => local'[r] \in Slots /\ parent[local'[r]] = NULL
    BY <1>2, <1>5, SlotFacts DEF FInv, Family
  <2>2. /\ \A r \in Slots : pc'[r] = "zombie" => pc[r] = "zombie"
        /\ pc'[initproc] \notin {"reparent", "zombie"}
    BY <1>5, Constants DEF FInv, Family
  <2>3. \A r \in Slots : state'[r] = "UNUSED" => parent[r] = NULL
    BY <1>5 DEF FInv, Family
  <2>4. /\ \A r \in Slots : state[r] \in Live => state'[r] \in Live
        /\ \A r \in Slots : state'[r] \in Live \cup {"ZOMBIE"} => state[r] \in Live \cup {"ZOMBIE"}
    BY <1>1, <1>5 DEF Live
  <2>5. QED
    BY <1>2, <2>1, <2>2, <2>3, <2>4, SameFamily DEF FInv
<1>7. Waits'
  <2>1. ASSUME NEW r \in Slots, Waiting(r)'
        PROVE  /\ chan'[r] = r /\ ~killed'[r]
               /\ \E t \in Slots : parent'[t] = r
               /\ \A t \in Slots : parent'[t] = r /\ state'[t] = "ZOMBIE" =>
                    r = initproc /\ wchan' = initproc
    <3>1. CASE r = me
      <4>1. chan'[r] = r /\ ~killed'[r]
        BY <3>1, <1>1, <1>4, <1>5
      <4>2. QED
        BY <3>1, <4>1, <1>2, <1>3, <1>5
    <3>2. CASE r # me
      <4>1. Waiting(r)
        BY <2>1, <3>2, <1>5 DEF Waiting
      <4>2. ~killed'[r]
        BY <4>1, <1>2 DEF FInv, Waits
      <4>3. \A t \in Slots : state'[t] = "ZOMBIE" => state[t] = "ZOMBIE"
        BY <1>5
      <4>4. QED
        BY <3>2, <4>1, <4>2, <4>3, <1>2, <1>5 DEF FInv, Waits
    <3>3. QED
      BY <3>1, <3>2
  <2>2. \A r \in Slots : pc'[r] \notin {"reparent", "zombie"}
    BY <1>1, <1>5
  <2>3. QED
    BY <2>1, <2>2 DEF Waits, Waiting
<1>8. QED
  BY <1>6, <1>7 DEF FInv

\* exit() first wakes the parent, whose address is the channel.
LEMMA ExitFInv ==
  ASSUME IInv, FInv, NEW c \in Cpus, Exit(c)
  PROVE  FInv'
<1> DEFINE p == cpuproc[c]
<1>1. /\ p \in Slots /\ state[p] = "RUNNING" /\ wchan = NULL
      /\ \A r \in Slots : pc[r] \notin {"reparent", "zombie"}
  BY LockFree DEF Exit, Acquires, In, Cur
<1>2. /\ killed' = killed \/ killed' = [killed EXCEPT ![p] = TRUE]
      /\ UNCHANGED <<state, parent, chan, local>>
      /\ \/ p = initproc /\ UNCHANGED <<wchan, pc>>
         \/ p # initproc /\ wchan' = parent[p] /\ pc' = [pc EXCEPT ![p] = "reparent"]
  BY DEF Exit, Goto, Cur
<1> HIDE DEF p
<1>3. \A r \in Slots : pc'[r] = IF r = p /\ p # initproc THEN "reparent" ELSE pc[r]
  BY <1>2 DEF IInv, TypeOK
<1>4. \A r \in Slots \ {p} : killed'[r] = killed[r]
  BY <1>2 DEF IInv, TypeOK
<1>5. Family'
  <2>1. \A r \in Slots : pc'[r] = "alloced" => local'[r] \in Slots /\ parent[local'[r]] = NULL
    BY <1>2, <1>3, SlotFacts DEF FInv, Family
  <2>2. /\ \A r \in Slots : pc'[r] = "zombie" => pc[r] = "zombie"
        /\ pc'[initproc] \notin {"reparent", "zombie"}
    BY <1>3, Constants DEF FInv, Family
  <2>3. \A r \in Slots : state'[r] = "UNUSED" => parent[r] = NULL
    BY <1>2 DEF FInv, Family
  <2>4. QED
    BY <1>2, <2>1, <2>2, <2>3, SameFamily DEF FInv
<1>6. Waits'
  <2>1. ASSUME NEW r \in Slots, Waiting(r)'
        PROVE  /\ chan'[r] = r /\ ~killed'[r]
               /\ \E t \in Slots : parent'[t] = r
               /\ \A t \in Slots : ~(parent'[t] = r /\ state'[t] = "ZOMBIE")
    <3>1. Waiting(r) /\ r # p
      BY <2>1, <1>1, <1>2, <1>3 DEF Waiting
    <3>2. ~killed'[r]
      BY <3>1, <1>4 DEF FInv, Waits
    <3>3. QED
      BY <3>1, <3>2, <1>1, <1>2, Constants DEF FInv, Waits
  <2>2. ASSUME NEW r \in Slots, pc'[r] \in {"reparent", "zombie"}
        PROVE  pc'[r] = "reparent" /\ wchan' = parent'[r] /\ wchan' # NULL
    <3>1. r = p /\ p # initproc
      BY <2>2, <1>1, <1>3
    <3>2. parent[p] # NULL
      BY <3>1, <1>1 DEF FInv, Family, Live
    <3>3. QED
      BY <3>1, <3>2, <1>2, <1>3
  <2>3. QED
    BY <2>1, <2>2 DEF Waits, Waiting
<1>7. QED
  BY <1>5, <1>6 DEF FInv

\* Only one process is in the last part of exit(): it holds the lock.
LEMMA OneExits ==
  ASSUME IInv, NEW c \in Cpus, ptlock = c, cpuproc[c] # NULL,
         pc[cpuproc[c]] \in {"reparent", "zombie"}
  PROVE  /\ cpuproc[c] \in Slots /\ state[cpuproc[c]] = "RUNNING"
         /\ \A r \in Slots : pc[r] \in {"reparent", "zombie"} => r = cpuproc[c]
<1>1. cpuproc[c] \in Slots
  BY DEF IInv, TypeOK, Ptr
<1>2. QED
  BY <1>1, SlotFacts DEF IInv, ThreadMatchesState, Cur

\* exit() passes the children on to initproc, and announces those that are zombies.
LEMMA ExitReparentsFInv ==
  ASSUME IInv, FInv, NEW c \in Cpus, ExitReparents(c)
  PROVE  FInv'
<1> DEFINE p == cpuproc[c]
<1>1. /\ p \in Slots /\ state[p] = "RUNNING" /\ pc[p] = "reparent" /\ wchan = NULL
      /\ \A r \in Slots : pc[r] \in {"reparent", "zombie"} => r = p
  BY OneExits DEF ExitReparents, In, Cur
<1>2. /\ \A r \in Slots : parent'[r] = IF parent[r] = p THEN initproc ELSE parent[r]
      /\ pc' = [pc EXCEPT ![p] = "zombie"]
      /\ UNCHANGED <<state, chan, killed, local>>
  BY DEF ExitReparents, Adopted, Children, Goto, Cur
<1>3. \/ wchan' = initproc
      \/ wchan' = NULL /\ \A r \in Slots : ~(parent[r] = p /\ state[r] = "ZOMBIE")
  BY DEF ExitReparents, OrphanWakeup, Zombies, Children, Cur
<1>3z. ASSUME NEW r \in Slots, parent[r] = p, state[r] = "ZOMBIE"
       PROVE  wchan' = initproc
  BY <1>3, <1>3z
<1> HIDE DEF p
<1>4. \A r \in Slots : pc'[r] = IF r = p THEN "zombie" ELSE pc[r]
  BY <1>2 DEF IInv, TypeOK
<1>5. p # initproc /\ parent[initproc] = NULL /\ initproc \in Slots /\ p # NULL
  BY <1>1, Constants DEF FInv, Family
<1>6. Family'
  <2>1. /\ state'[initproc] \in Live /\ parent'[initproc] = NULL
        /\ pc'[initproc] \notin {"reparent", "zombie"}
    BY <1>2, <1>4, <1>5 DEF FInv, Family
  <2>2. ASSUME NEW r \in Slots \ {initproc}, state'[r] \in Live \cup {"ZOMBIE"}
        PROVE  parent'[r] # NULL /\ state'[parent'[r]] \in Live
    BY <2>2, <1>2, <1>5, Constants DEF FInv, Family
  <2>3. \A r \in Slots : parent'[r] # r /\ (state'[r] = "UNUSED" => parent'[r] = NULL)
    BY <1>2, <1>5 DEF FInv, Family
  <2>4. ASSUME NEW r \in Slots, pc'[r] = "alloced"
        PROVE  parent'[local'[r]] = NULL
    <3>1. pc[r] = "alloced"
      BY <2>4, <1>4
    <3>2. local[r] \in Slots /\ parent[local[r]] = NULL
      BY <3>1, SlotFacts DEF FInv, Family
    <3>3. QED
      BY <3>2, <1>2, <1>5
  <2>5. \A r \in Slots : pc'[r] = "zombie" => \A t \in Slots : parent'[t] # r
    BY <1>1, <1>2, <1>4, <1>5
  <2>6. QED
    BY <2>1, <2>2, <2>3, <2>4, <2>5 DEF Family, Live
<1>7. Waits'
  <2>1. ASSUME NEW r \in Slots, Waiting(r)'
        PROVE  Waiting(r) /\ r # p
    BY <2>1, <1>1, <1>2, <1>4 DEF Waiting
  <2>2. ASSUME NEW r \in Slots, Waiting(r)'
        PROVE  chan'[r] = r /\ ~killed'[r]
    BY <2>1, <2>2, <1>2 DEF FInv, Waits
  <2>3. ASSUME NEW r \in Slots, Waiting(r)'
        PROVE  \E t \in Slots : parent'[t] = r
    BY <2>1, <2>3, <1>2 DEF FInv, Waits
  <2>4. ASSUME NEW r \in Slots, Waiting(r)', NEW t \in Slots, parent'[t] = r, state'[t] = "ZOMBIE"
        PROVE  r = initproc /\ wchan' = initproc
    <3>1. parent[t] # r
      BY <2>1, <2>4, <1>1, <1>2, <1>5, Constants DEF FInv, Waits
    <3>2. parent[t] = p /\ r = initproc /\ state[t] = "ZOMBIE"
      BY <2>4, <3>1, <1>2
    <3>3. QED
      BY <3>2, <1>3z
  <2>5. ASSUME NEW r \in Slots, pc'[r] \in {"reparent", "zombie"}
        PROVE  pc'[r] = "zombie" /\ ~Waiting(parent'[r]) /\ parent'[r] \in Slots /\ parent'[r] # p
    <3>1. r = p
      BY <2>5, <1>1, <1>4
    <3>2. parent[p] \in Slots /\ parent[p] # p
      BY <1>1, <1>5, SlotFacts DEF FInv, Family, Live
    <3>3. ~Waiting(parent[p])
      BY <1>1 DEF FInv, Waits
    <3>4. QED
      BY <3>1, <3>2, <3>3, <1>1, <1>2, <1>4
  <2>6. \A r \in Slots : pc'[r] \in {"reparent", "zombie"} => ~Waiting(parent[r])'
    BY <2>5, <2>1 DEF Waiting
  <2>7. QED
    BY <2>2, <2>3, <2>4, <2>5, <2>6 DEF Waits, Waiting
<1>8. QED
  BY <1>6, <1>7 DEF FInv

\* The process that becomes a zombie has no children, and its parent is awake.
LEMMA ExitEndsFInv ==
  ASSUME IInv, FInv, NEW c \in Cpus, ExitEnds(c)
  PROVE  FInv'
<1> DEFINE p == cpuproc[c]
<1>1. /\ p \in Slots /\ state[p] = "RUNNING" /\ pc[p] = "zombie" /\ wchan = NULL
      /\ \A r \in Slots : pc[r] \in {"reparent", "zombie"} => r = p
  BY OneExits DEF ExitEnds, In, Cur
<1>2. /\ state' = [state EXCEPT ![p] = "ZOMBIE"]
      /\ pc' = [pc EXCEPT ![p] = "user"]
      /\ UNCHANGED <<parent, chan, killed, local, wchan>>
  BY DEF ExitEnds, Goto, Cur
<1> HIDE DEF p
<1>3. /\ \A r \in Slots : state'[r] = IF r = p THEN "ZOMBIE" ELSE state[r]
      /\ \A r \in Slots : pc'[r] = IF r = p THEN "user" ELSE pc[r]
  BY <1>2 DEF IInv, TypeOK
<1>4. p # initproc /\ \A r \in Slots : parent[r] # p
  BY <1>1 DEF FInv, Family
<1>5. ~Waiting(parent[p])
  BY <1>1 DEF FInv, Waits
<1>6. Family'
  <2>1. /\ state'[initproc] \in Live /\ parent'[initproc] = NULL
        /\ pc'[initproc] \notin {"reparent", "zombie"}
    BY <1>2, <1>3, <1>4, Constants DEF FInv, Family
  <2>2. ASSUME NEW r \in Slots \ {initproc}, state'[r] \in Live \cup {"ZOMBIE"}
        PROVE  parent'[r] # NULL /\ state'[parent'[r]] \in Live
    <3>0. state[r] \in Live \cup {"ZOMBIE"}
      BY <2>2, <1>1, <1>3 DEF Live
    <3>1. parent[r] # NULL /\ state[parent[r]] \in Live
      BY <2>2, <3>0 DEF FInv, Family
    <3>2. parent[r] \in Slots /\ parent[r] # p
      BY <3>1, <1>4, SlotFacts
    <3>3. QED
      BY <3>1, <3>2, <1>2, <1>3
  <2>3. \A r \in Slots : parent'[r] # r /\ (state'[r] = "UNUSED" => parent'[r] = NULL)
    BY <1>2, <1>3 DEF FInv, Family
  <2>4. \A r \in Slots : pc'[r] = "alloced" => parent'[local'[r]] = NULL
    BY <1>2, <1>3 DEF FInv, Family
  <2>5. \A r \in Slots : pc'[r] # "zombie"
    BY <1>1, <1>3
  <2>6. QED
    BY <2>1, <2>2, <2>3, <2>4, <2>5 DEF Family, Live
<1>7. Waits'
  <2>1. ASSUME NEW r \in Slots, Waiting(r)'
        PROVE  Waiting(r) /\ r # p
    BY <2>1, <1>3 DEF Waiting
  <2>2. ASSUME NEW r \in Slots, Waiting(r)'
        PROVE  chan'[r] = r /\ ~killed'[r] /\ \E t \in Slots : parent'[t] = r
    BY <2>1, <2>2, <1>2 DEF FInv, Waits
  <2>3. ASSUME NEW r \in Slots, Waiting(r)', NEW t \in Slots, parent'[t] = r, state'[t] = "ZOMBIE"
        PROVE  r = initproc /\ wchan' = initproc
    <3>1. Waiting(r) /\ parent[t] = r
      BY <2>1, <2>3, <1>2
    <3>2. t # p
      BY <3>1, <1>5
    <3>3. QED
      BY <2>3, <3>1, <3>2, <1>2, <1>3 DEF FInv, Waits
  <2>4. \A r \in Slots : pc'[r] \notin {"reparent", "zombie"}
    BY <1>1, <1>3
  <2>5. QED
    BY <2>2, <2>3, <2>4 DEF Waits, Waiting
<1>8. QED
  BY <1>6, <1>7 DEF FInv

\* After userinit() there is initproc and nobody else.
LEMMA InitFInv == Init => FInv
<1> SUFFICES ASSUME Init PROVE FInv
  OBVIOUS
<1>1. /\ \A p \in Slots : /\ state[p] = IF p = initproc THEN "RUNNABLE" ELSE "UNUSED"
                          /\ parent[p] = NULL /\ pc[p] = "user"
      /\ wchan = NULL
  BY DEF Init
<1>2. QED
  BY <1>1, Constants DEF FInv, Family, Waits, Waiting, Live

\* Every step keeps the families and the promises to whoever waits.
LEMMA NextFInv == IInv /\ FInv /\ [Next]_vars => FInv'
<1> SUFFICES ASSUME IInv, FInv, [Next]_vars PROVE FInv'
  OBVIOUS
<1>1. CASE UNCHANGED vars
  <2>1. UNCHANGED <<state, parent, chan, killed, pc, local, wchan>>
    BY <1>1 DEF vars, table, threads
  <2>2. Family /\ Waits
    BY DEF FInv
  <2>3. Family'
    BY <2>1, <2>2 DEF Family
  <2>4. Waits'
    BY <2>1, <2>2 DEF Waits, Waiting
  <2>5. QED
    BY <2>3, <2>4 DEF FInv
<1>2. ASSUME NEW c \in Cpus, Step(c) PROVE FInv'
  BY <1>2, DispatchFInv, SwitchOutFInv, YieldFInv, QuietFInv, AllocProcFInv, ForkFailsFInv,
     ForkCopiesFInv, ForkPublishesFInv, WaitReapsFInv, WaitSleepsFInv, SleepFInv, WakeupFInv,
     Wakeup1FInv, WakeupEndsFInv, KillFInv, ExitFInv, ExitReparentsFInv, ExitEndsFInv
     DEF Step
<1>3. QED
  BY <1>1, <1>2 DEF Next, Halted

\* Both invariants hold in every state of the process table.
THEOREM FamiliesInductive == Spec => [](IInv /\ FInv)
<1>1. Init => IInv /\ FInv
  BY InitIInv, InitFInv
<1>2. IInv /\ FInv /\ [Next]_vars => (IInv /\ FInv)'
  BY NextIInv, NextFInv
<1>3. QED
  BY <1>1, <1>2, PTL DEF Spec

\* No wakeup of wait() is lost: whoever sleeps there has a child left, none of them a
\* zombie, and has not been killed, whatever exit(), fork(), kill() and wait() of any
\* number of processes on any number of CPUs did in between.
THEOREM WaitsWoken == Spec => []WaitMissesNothing
<1>1. IInv /\ FInv => WaitMissesNothing
  <2> SUFFICES ASSUME IInv, FInv, ptlock = NULL, NEW p \in Slots, Waiting(p)
               PROVE  Zombies(p) = {} /\ Children(p) # {} /\ ~killed[p]
    BY DEF WaitMissesNothing, Waiting
  <2>1. wchan = NULL
    BY LockFree
  <2>2. ~killed[p]
    BY DEF FInv, Waits
  <2>3. Zombies(p) = {} /\ Children(p) # {}
    BY <2>1, Constants DEF FInv, Waits, Zombies, Children
  <2>4. QED
    BY <2>2, <2>3
<1>2. QED
  BY <1>1, FamiliesInductive, PTL

\* Every process but initproc, zombies included, has a live parent to reap it.
THEOREM ParentsCanReap == Spec => []ParentsLive
<1>1. IInv /\ FInv => ParentsLive
  BY DEF FInv, Family, Live, ParentsLive
<1>2. QED
  BY <1>1, FamiliesInductive, PTL

\* Only allocproc(), wait() and a failing fork() change a pid or free a slot.
LEMMA SlotKept ==
  ASSUME IInv, NEW c \in Cpus, Step(c), ~AllocProc(c), ~WaitReaps(c), ~ForkFails(c), NEW x \in Slots
  PROVE  pid'[x] = pid[x] /\ (state'[x] = "UNUSED" => state[x] = "UNUSED")
<1> DEFINE Kept == pid'[x] = pid[x] /\ (state'[x] = "UNUSED" => state[x] = "UNUSED")
<1>1. ASSUME NEW y, NEW to \in Live \cup {"ZOMBIE"}, pid' = pid, state' = [state EXCEPT ![y] = to]
      PROVE  Kept
  BY <1>1 DEF IInv, TypeOK, Live
<1>2. ASSUME pid' = pid, state' = state PROVE Kept
  BY <1>2
<1> HIDE DEF Kept
<1>3. ASSUME \/ SwitchOut(c) \/ Syscall(c) \/ Sysret(c) \/ ForkCopies(c) \/ WaitFails(c)
             \/ \E ch \in Chans : Wakeup(c, ch)
             \/ WakeupEnds(c) \/ GetprioReads(c) \/ Exit(c) \/ ExitReparents(c)
             \/ \E k \in Queried : GetprioFinds(c, k)
             \/ \E k \in Targets, q \in Prio : Setprio(c, k, q)
      PROVE  Kept
  BY <1>2, <1>3, Zenon DEF SwitchOut, Syscall, Sysret, ForkCopies, WaitFails, Wakeup, WakeupEnds,
     GetprioReads, Exit, ExitReparents, GetprioFinds, Setprio, table
<1>4. ASSUME Dispatch(c) PROVE Kept
  BY <1>1, <1>4, Zenon DEF Dispatch, Live
<1>5. ASSUME Yield(c) PROVE Kept
  BY <1>1, <1>5, Zenon DEF Yield, MakeRunnable, Live
<1>6. ASSUME ForkPublishes(c) PROVE Kept
  BY <1>1, <1>6, Zenon DEF ForkPublishes, MakeRunnable, Live
<1>7. ASSUME WaitSleeps(c) PROVE Kept
  BY <1>1, <1>7, Zenon DEF WaitSleeps, Live
<1>8. ASSUME NEW ch \in Chans, Sleep(c, ch) PROVE Kept
  BY <1>1, <1>8, Zenon DEF Sleep, Live
<1>9. ASSUME Wakeup1(c) PROVE Kept
  BY <1>1, <1>9, Zenon DEF Wakeup1, MakeRunnable, Live
<1>10. ASSUME NEW k \in Targets, Kill(c, k) PROVE Kept
  <2>1. /\ pid' = pid
        /\ \/ state' = state
           \/ state' = [state EXCEPT ![First({r \in Slots : pid[r] = k})] = "RUNNABLE"]
    BY <1>10 DEF Kill, MakeRunnable
  <2>2. QED
    BY <1>1, <1>2, <2>1 DEF Live
<1>11. ASSUME ExitEnds(c) PROVE Kept
  BY <1>1, <1>11, Zenon DEF ExitEnds
<1>12. Kept
  BY <1>3, <1>4, <1>5, <1>6, <1>7, <1>8, <1>9, <1>10, <1>11 DEF Step
<1>13. QED
  BY <1>12 DEF Kept

\* The slot getprio() found keeps its process until the read, when that process is
\* the caller or its child: only its parent can reap it, and the parent is here.
THEOREM GetprioReadsOwn == Spec => GetprioOfOwn
<1>1. IInv /\ FInv /\ [Next]_vars =>
        [\A p \in Slots :
           pc[p] = "getprio" /\ pc'[p] = "getprio" /\ local[p] \in Children(p) \cup {p}
             => pid'[local[p]] = pid[local[p]] /\ state'[local[p]] # "UNUSED"]_vars
  <2> SUFFICES ASSUME IInv, FInv, NEW c \in Cpus, Step(c), NEW p \in Slots,
                      pc[p] = "getprio", NEW x, x = local[p], x \in Children(p) \cup {p}
               PROVE  pid'[x] = pid[x] /\ state'[x] # "UNUSED"
    BY DEF Next, Halted
  <2>1. state[p] \notin {"UNUSED", "EMBRYO", "ZOMBIE"}
    BY DEF IInv, ThreadMatchesState
  <2>2. x \in Slots /\ (x = p \/ parent[x] = p) /\ p # NULL
    BY Constants DEF Children
  <2>3. state[x] # "UNUSED"
    BY <2>1, <2>2 DEF FInv, Family
  <2>4. CASE AllocProc(c)
    <3> DEFINE np == First(Unused)
    <3>1. np \in Slots /\ state[np] = "UNUSED"
      BY <2>4, FirstIn DEF AllocProc, Unused
    <3>2. state' = [state EXCEPT ![np] = "EMBRYO"] /\ pid' = [pid EXCEPT ![np] = nextpid]
      BY <2>4 DEF AllocProc
    <3> HIDE DEF np
    <3>3. QED
      BY <2>2, <2>3, <3>1, <3>2 DEF IInv, TypeOK
  <2>5. CASE WaitReaps(c)
    <3> DEFINE r == First(Zombies(cpuproc[c]))
    <3>1. pc[cpuproc[c]] \in {"kern", "wait"}
      BY <2>5, ScanningRuns, Zenon DEF WaitReaps
    <3>2. r \in Slots /\ state[r] = "ZOMBIE" /\ parent[r] = cpuproc[c]
      BY <2>5, FirstIn, Zenon DEF WaitReaps, Zombies, Children, Cur
    <3>3. state' = [state EXCEPT ![r] = "UNUSED"] /\ pid' = [pid EXCEPT ![r] = 0]
      BY <2>5, Zenon DEF WaitReaps, Cur
    <3> HIDE DEF r
    <3>4. x # r
      BY <2>1, <2>2, <3>1, <3>2
    <3>5. QED
      BY <2>2, <2>3, <3>3, <3>4 DEF IInv, TypeOK
  <2>6. CASE ForkFails(c)
    <3> DEFINE me == cpuproc[c]
               np == local[me]
    <3>1. me \in Slots /\ pc[me] = "alloced"
      BY <2>6, CurRunning DEF ForkFails, Running, In, Cur
    <3>2. np \in Slots /\ state[np] = "EMBRYO" /\ parent[np] = NULL
      BY <3>1, SlotFacts DEF FInv, Family
    <3>3. state' = [state EXCEPT ![np] = "UNUSED"] /\ pid' = pid
      BY <2>6, Zenon DEF ForkFails, Cur
    <3> HIDE DEF me, np
    <3>4. x # np
      BY <2>1, <2>2, <3>2
    <3>5. QED
      BY <2>2, <2>3, <3>3, <3>4 DEF IInv, TypeOK
  <2>7. CASE ~AllocProc(c) /\ ~WaitReaps(c) /\ ~ForkFails(c)
    BY <2>2, <2>3, <2>7, SlotKept
  <2>8. QED
    BY <2>4, <2>5, <2>6, <2>7
<1>2. QED
  BY <1>1, FamiliesInductive, PTL DEF Spec, GetprioOfOwn
=============================================================================
