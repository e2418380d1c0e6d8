----------------------------- MODULE ProcProofs -----------------------------
(* The remaining steps of Proc keep its invariant, and what follows from it: *)
(* the run queues of the process table are never corrupted, whatever the     *)
(* number of processes, CPUs and channels.                                    *)
EXTENDS ProcInvariant

\* A CPU that executes code of its process without holding the lock for it is the
\* only one on that process, which is RUNNING.
LEMMA CurRunning ==
  ASSUME IInv, NEW c \in Cpus, cpuproc[c] # NULL, ptlock # c
  PROVE  cpuproc[c] \in Slots /\ state[cpuproc[c]] = "RUNNING"
BY DEF IInv, TypeOK, Ptr, StackInUse, Cur

\* A running process that goes back to user space, or elsewhere outside fork and
\* exit, leaves the forks of the others alone.
LEMMA GotoKeepsThreads ==
  ASSUME IInv, NEW p \in Slots, state[p] = "RUNNING", NEW w \in {"user", "kern", "getprio"},
         pc' = [pc EXCEPT ![p] = w], \A r \in Slots \ {p} : local'[r] = local[r],
         UNCHANGED <<state, parent, cpuproc, ptlock>>
  PROVE  ForkOwnsEmbryo' /\ ThreadMatchesState'
<1>1. \A r \in Slots : pc'[r] = IF r = p THEN w ELSE pc[r]
  BY DEF IInv, TypeOK
<1>2. ForkOwnsEmbryo'
  BY <1>1 DEF IInv, ForkOwnsEmbryo
<1>3. ThreadMatchesState'
  BY <1>1 DEF IInv, ThreadMatchesState, Cur
<1>4. QED
  BY <1>2, <1>3

\* Entering and leaving a system call keeps the invariant.
LEMMA SyscallIInv ==
  ASSUME IInv, NEW c \in Cpus, Syscall(c) \/ Sysret(c)
  PROVE  IInv'
<1> DEFINE p == cpuproc[c]
<1>1. p \in Slots /\ state[p] = "RUNNING"
  BY CurRunning DEF Syscall, Sysret, Running, Cur
<1>2. PICK w \in {"user", "kern"} :
        /\ pc' = [pc EXCEPT ![p] = w]
        /\ UNCHANGED <<table, ptlock, wchan, cpuproc, local, arg, panic>>
  BY DEF Syscall, Sysret, Goto, Cur
<1>3. ForkOwnsEmbryo' /\ ThreadMatchesState'
  BY <1>1, <1>2, GotoKeepsThreads, Zenon DEF table
<1>4. TypeOK'
  BY <1>1, <1>2 DEF IInv, TypeOK, PC, table
<1>5. QueuesTrack'
  BY <1>2, SameQueues DEF IInv, table
<1>6. QED
  BY <1>2, <1>3, <1>4, <1>5 DEF IInv, NoQueuePanic, StackInUse, WakeupLocked, Cur, table

\* Both halves of getprio() keep the invariant.
LEMMA GetprioIInv ==
  ASSUME IInv, NEW c \in Cpus, GetprioReads(c) \/ \E k \in Queried : GetprioFinds(c, k)
  PROVE  IInv'
<1> DEFINE p == cpuproc[c]
<1>1. p \in Slots /\ state[p] = "RUNNING"
  BY CurRunning, Constants DEF GetprioReads, GetprioFinds, Running, Acquires, In, Cur
<1>2. PICK w \in {"user", "getprio"}, x \in Ptr, k \in 0..MaxPid :
        /\ pc' = [pc EXCEPT ![p] = w]
        /\ local' = [local EXCEPT ![p] = x]
        /\ arg' = [arg EXCEPT ![p] = k]
        /\ UNCHANGED <<table, ptlock, wchan, cpuproc, panic>>
  <2>1. CASE GetprioReads(c)
    <3>1. NULL \in Ptr /\ 0 \in 0..MaxPid
      BY Constants, MaxPidAssumption
    <3>2. /\ pc' = [pc EXCEPT ![p] = "user"]
          /\ local' = [local EXCEPT ![p] = NULL]
          /\ arg' = [arg EXCEPT ![p] = 0]
          /\ UNCHANGED <<table, ptlock, wchan, cpuproc, panic>>
      BY <2>1 DEF GetprioReads, Goto, Cur
    <3>3. QED
      BY <3>1, <3>2, Zenon
  <2>2. CASE \E k \in Queried : GetprioFinds(c, k)
    <3>1. PICK k \in Queried : GetprioFinds(c, k)
      BY <2>2
    <3>2. First(Named(k)) \in Ptr
      BY <3>1, FirstIn, Constants DEF GetprioFinds, Named
    <3>3. k \in 0..MaxPid
      BY PidsAssumption
    <3>4. QED
      BY <3>1, <3>2, <3>3, Zenon DEF GetprioFinds, Goto, Cur
  <2>3. QED
    BY <2>1, <2>2
<1>3. ForkOwnsEmbryo' /\ ThreadMatchesState'
  <2>1. \A r \in Slots \ {p} : local'[r] = local[r]
    BY <1>2 DEF IInv, TypeOK
  <2>2. QED
    BY <1>1, <1>2, <2>1, GotoKeepsThreads, Zenon DEF table
<1>4. TypeOK'
  BY <1>1, <1>2 DEF IInv, TypeOK, PC, table
<1>5. QueuesTrack'
  BY <1>2, SameQueues DEF IInv, table
<1>6. QED
  BY <1>2, <1>3, <1>4, <1>5 DEF IInv, NoQueuePanic, StackInUse, WakeupLocked, Cur, table

\* allocproc() keeps the invariant: nobody else's fork has the slot it takes.
LEMMA AllocProcIInv ==
  ASSUME IInv, NEW c \in Cpus, AllocProc(c)
  PROVE  IInv'
<1> DEFINE p == cpuproc[c]
           np == First(Unused)
<1> USE DEF IInv
<1>1. p \in Slots /\ state[p] = "RUNNING" /\ ptlock = NULL
  BY LockFree DEF AllocProc, Acquires, In, Cur
<1>2. np \in Slots /\ state[np] = "UNUSED"
  BY FirstIn DEF AllocProc, Unused
<1>3. /\ state' = [state EXCEPT ![np] = "EMBRYO"]
      /\ pid' = [pid EXCEPT ![np] = nextpid]
      /\ nextpid <= MaxPid /\ nextpid' = nextpid + 1
      /\ local' = [local EXCEPT ![p] = np]
      /\ pc' = [pc EXCEPT ![p] = "alloced"]
      /\ UNCHANGED <<parent, chan, killed, priority, rq, ptlock, wchan, cpuproc, arg, panic>>
  BY DEF AllocProc, Goto, Cur
<1> HIDE DEF p, np
<1>4. TypeOK'
  <2>1. nextpid \in 0..MaxPid /\ nextpid + 1 \in 1..(MaxPid + 1)
    <3>1. nextpid \in 1..(MaxPid + 1) /\ nextpid <= MaxPid
      BY <1>3 DEF TypeOK
    <3>2. QED
      BY <3>1, MaxPidAssumption
  <2>2. QED
    BY <1>1, <1>2, <1>3, <2>1, Constants DEF TypeOK, PState, PC
<1>5. /\ \A r \in Slots : state'[r] = IF r = np THEN "EMBRYO" ELSE state[r]
      /\ \A r \in Slots : pc'[r] = IF r = p THEN "alloced" ELSE pc[r]
      /\ \A r \in Slots : local'[r] = IF r = p THEN np ELSE local[r]
      /\ \A r \in Slots : local[r] \in Ptr
      /\ \A d \in Cpus : cpuproc[d] \in Ptr
  BY <1>1, <1>2, <1>3 DEF TypeOK
<1>6. QueuesTrack'
  BY <1>2, <1>3, <1>5, SameRunnable
<1>7. StackInUse'
  BY <1>2, <1>3, <1>5, LockFree, <1>1 DEF StackInUse, Cur
<1>8. ForkOwnsEmbryo'
  BY <1>1, <1>2, <1>3, <1>5, Constants DEF ForkOwnsEmbryo, Ptr
<1>9. ThreadMatchesState'
  BY <1>1, <1>2, <1>3, <1>5, LockFree DEF ThreadMatchesState
<1>10. QED
  BY <1>1, <1>3, <1>4, <1>6, <1>7, <1>8, <1>9, LockFree DEF NoQueuePanic, WakeupLocked

\* The failure path of fork() and its copying, both without the lock, keep the
\* invariant: the slot they write to is the caller's own.
LEMMA ForkUnlockedIInv ==
  ASSUME IInv, NEW c \in Cpus, ForkFails(c) \/ ForkCopies(c)
  PROVE  IInv'
<1> DEFINE p == cpuproc[c]
           np == local[p]
<1> USE DEF IInv
<1>1. p \in Slots /\ state[p] = "RUNNING" /\ pc[p] = "alloced"
  BY CurRunning DEF ForkFails, ForkCopies, Running, In, Cur
<1>2. np \in Slots /\ state[np] = "EMBRYO" /\ pc[np] = "user" /\ np # p
  BY <1>1 DEF ForkOwnsEmbryo, ThreadMatchesState, TypeOK, Ptr
<1>3. \A r \in Slots \ {p} : pc[r] \in {"alloced", "copied"} => local[r] # np
  BY <1>1 DEF ForkOwnsEmbryo
<1>4. UNCHANGED <<pid, chan, killed, priority, rq, nextpid, ptlock, wchan, cpuproc, arg, panic>>
  BY DEF ForkFails, ForkCopies
<1>5. \A d \in Cpus : cpuproc[d] = NULL \/ cpuproc[d] \in Slots
  BY DEF TypeOK, Ptr
<1>6. CASE ForkFails(c)
  <2>1. /\ state' = [state EXCEPT ![np] = "UNUSED"]
        /\ local' = [local EXCEPT ![p] = NULL]
        /\ pc' = [pc EXCEPT ![p] = "user"]
        /\ UNCHANGED parent
    BY <1>6 DEF ForkFails, Goto, Cur
  <2> HIDE DEF p, np
  <2>2. TypeOK'
    BY <1>1, <1>2, <1>4, <2>1, Constants DEF TypeOK, PState, PC
  <2>3. /\ \A r \in Slots : state'[r] = IF r = np THEN "UNUSED" ELSE state[r]
        /\ \A r \in Slots : pc'[r] = IF r = p THEN "user" ELSE pc[r]
        /\ \A r \in Slots : local'[r] = IF r = p THEN NULL ELSE local[r]
        /\ \A r \in Slots : local[r] \in Ptr
    BY <1>1, <1>2, <2>1 DEF TypeOK
  <2>4. QueuesTrack'
    BY <1>2, <1>4, <2>3, SameRunnable
  <2>5. StackInUse' /\ WakeupLocked'
    <3>1. \A d \in Cpus : cpuproc[d] = np => ptlock = d /\ wchan = NULL
      BY <1>2, Constants DEF StackInUse, WakeupLocked, Cur
    <3>2. QED
      BY <3>1, <1>2, <1>4, <1>5, <2>3 DEF StackInUse, WakeupLocked, Cur
  <2>6. ForkOwnsEmbryo'
    BY <1>1, <1>2, <1>3, <2>1, <2>3 DEF ForkOwnsEmbryo, Ptr
  <2>7. ThreadMatchesState'
    BY <1>1, <1>2, <1>4, <2>3 DEF ThreadMatchesState, Cur
  <2>8. QED
    BY <1>4, <2>2, <2>4, <2>5, <2>6, <2>7 DEF NoQueuePanic
<1>7. CASE ForkCopies(c)
  <2>1. /\ parent' = [parent EXCEPT ![np] = p]
        /\ pc' = [pc EXCEPT ![p] = "copied"]
        /\ UNCHANGED <<state, local>>
    BY <1>7 DEF ForkCopies, Goto, Cur
  <2>2. local'[p] = np /\ np # NULL
    BY <1>2, <2>1, Constants
  <2> HIDE DEF p, np
  <2>3. TypeOK'
    BY <1>1, <1>2, <1>4, <2>1, Constants DEF TypeOK, PC
  <2>4. /\ \A r \in Slots : parent'[r] = IF r = np THEN p ELSE parent[r]
        /\ \A r \in Slots : pc'[r] = IF r = p THEN "copied" ELSE pc[r]
        /\ \A r \in Slots : local[r] \in Ptr
    BY <1>1, <1>2, <2>1 DEF TypeOK
  <2>5. ForkOwnsEmbryo'
    BY <1>1, <1>2, <1>3, <2>1, <2>2, <2>4 DEF ForkOwnsEmbryo, Ptr
  <2>6. ThreadMatchesState'
    BY <1>1, <1>4, <2>1, <2>4 DEF ThreadMatchesState, Cur
  <2>7. QueuesTrack'
    BY <1>4, <2>1, SameQueues
  <2>8. QED
    BY <1>4, <2>1, <2>3, <2>5, <2>6, <2>7 DEF NoQueuePanic, StackInUse, WakeupLocked, Cur
<1>8. QED
  BY <1>6, <1>7

\* No CPU changes its process and the same processes are RUNNING.
LEMMA SameRunning ==
  ASSUME StackInUse, cpuproc' = cpuproc, \A d \in Cpus : cpuproc[d] \in Ptr,
         \A r \in Slots : state'[r] = "RUNNING" <=> state[r] = "RUNNING",
         ptlock' = ptlock \/ \A d \in Cpus : cpuproc[d] # NULL => state[cpuproc[d]] = "RUNNING"
  PROVE  StackInUse'
<1>1. ASSUME NEW d \in Cpus, cpuproc[d] # NULL
      PROVE  /\ \A e \in Cpus : cpuproc[e] = cpuproc[d] => e = d
             /\ state'[cpuproc[d]] = "RUNNING" \/ ptlock' = d
  <2>1. /\ \A e \in Cpus : cpuproc[e] = cpuproc[d] => e = d
        /\ state[cpuproc[d]] = "RUNNING" \/ ptlock = d
    BY <1>1 DEF StackInUse, Cur
  <2>2. cpuproc[d] \in Slots
    BY <1>1 DEF Ptr
  <2>3. QED
    BY <1>1, <2>1, <2>2
<1>2. ASSUME NEW r \in Slots, state'[r] = "RUNNING"
      PROVE  \E d \in Cpus : cpuproc[d] = r
  BY <1>2 DEF StackInUse, Cur
<1>3. QED
  BY <1>1, <1>2 DEF StackInUse, Cur

\* The forks in progress afterwards were in progress before, and keep their slot.
LEMMA SameForks ==
  ASSUME ForkOwnsEmbryo, \A r \in Slots : local[r] \in Ptr,
         \A r \in Slots : pc'[r] \in {"alloced", "copied"} =>
           /\ pc'[r] = pc[r] /\ local'[r] = local[r]
           /\ state'[local[r]] = state[local[r]] /\ parent'[local[r]] = parent[local[r]]
  PROVE  ForkOwnsEmbryo'
<1>1. ASSUME NEW r \in Slots, pc'[r] \in {"alloced", "copied"}
      PROVE  /\ local'[r] # NULL /\ state'[local'[r]] = "EMBRYO"
             /\ pc'[r] = "copied" => parent'[local'[r]] = r
             /\ \A t \in Slots \ {r} : pc'[t] \in {"alloced", "copied"} => local'[t] # local'[r]
  <2>1. /\ pc'[r] = pc[r] /\ local'[r] = local[r]
        /\ state'[local[r]] = state[local[r]] /\ parent'[local[r]] = parent[local[r]]
    BY <1>1
  <2>2. /\ local[r] # NULL /\ state[local[r]] = "EMBRYO"
        /\ pc[r] = "copied" => parent[local[r]] = r
        /\ \A t \in Slots \ {r} : pc[t] \in {"alloced", "copied"} => local[t] # local[r]
    BY <1>1, <2>1 DEF ForkOwnsEmbryo
  <2>3. QED
    BY <2>1, <2>2
<1>2. QED
  BY <1>1 DEF ForkOwnsEmbryo

\* The child becoming ready at the end of fork() keeps the invariant.
LEMMA ForkPublishesIInv ==
  ASSUME IInv, NEW c \in Cpus, ForkPublishes(c)
  PROVE  IInv'
<1> DEFINE p == cpuproc[c]
           np == local[p]
           q == priority[parent[np]]
<1> USE DEF IInv
<1>1. p \in Slots /\ state[p] = "RUNNING" /\ pc[p] = "copied" /\ ptlock = NULL
  BY LockFree DEF ForkPublishes, Acquires, In, Cur
<1>2. np \in Slots /\ state[np] = "EMBRYO" /\ pc[np] = "user" /\ parent[np] = p /\ np # p
  BY <1>1 DEF ForkOwnsEmbryo, ThreadMatchesState, TypeOK, Ptr
<1>3. q \in Prio
  BY <1>1, <1>2 DEF TypeOK
<1>4. \A r \in Slots \ {p} : pc[r] \in {"alloced", "copied"} => local[r] # np
  BY <1>1 DEF ForkOwnsEmbryo
<1>5. /\ MakeRunnable(np, q)
      /\ state' = [state EXCEPT ![np] = "RUNNABLE"]
      /\ priority' = [priority EXCEPT ![np] = q]
      /\ local' = [local EXCEPT ![p] = NULL]
      /\ pc' = [pc EXCEPT ![p] = "user"]
      /\ UNCHANGED <<pid, parent, chan, killed, nextpid, ptlock, wchan, cpuproc, arg>>
  BY DEF ForkPublishes, Goto, Cur, MakeRunnable
<1> HIDE DEF p, np, q
<1>6. /\ \A r \in Slots : state'[r] = IF r = np THEN "RUNNABLE" ELSE state[r]
      /\ \A r \in Slots : priority'[r] = IF r = np THEN q ELSE priority[r]
      /\ \A r \in Slots : pc'[r] = IF r = p THEN "user" ELSE pc[r]
      /\ \A r \in Slots : local'[r] = IF r = p THEN NULL ELSE local[r]
      /\ \A r \in Slots : local[r] \in Ptr
      /\ priority' \in [Slots -> Prio] /\ UNCHANGED <<cpuproc, ptlock, parent>>
  BY <1>1, <1>2, <1>3, <1>5 DEF TypeOK
<1>7. rq' \in RunQueues /\ QueuesTrack' /\ panic' = panic
  BY <1>2, <1>3, <1>5, <1>6, MakeRunnableTracks
<1>8. TypeOK'
  BY <1>1, <1>2, <1>3, <1>5, <1>7, Constants DEF TypeOK, PState, PC
<1>9. StackInUse'
  <2>1. \A r \in Slots : state'[r] = "RUNNING" <=> state[r] = "RUNNING"
    BY <1>2, <1>6
  <2>2. cpuproc' = cpuproc /\ ptlock' = ptlock /\ \A d \in Cpus : cpuproc[d] \in Ptr
    BY <1>6 DEF TypeOK
  <2>3. QED
    BY <2>1, <2>2, SameRunning
<1>10. ForkOwnsEmbryo'
  <2>1. ASSUME NEW r \in Slots, pc'[r] \in {"alloced", "copied"}
        PROVE  /\ pc'[r] = pc[r] /\ local'[r] = local[r]
               /\ state'[local[r]] = state[local[r]] /\ parent'[local[r]] = parent[local[r]]
    <3>1. r # p /\ pc'[r] = pc[r] /\ local'[r] = local[r]
      BY <1>6, <2>1
    <3>2. local[r] # np /\ local[r] # NULL
      BY <1>4, <2>1, <3>1 DEF ForkOwnsEmbryo
    <3>3. local[r] \in Slots
      BY <1>6, <3>2 DEF Ptr
    <3>4. QED
      BY <1>6, <3>1, <3>2, <3>3
  <2>2. QED
    BY <1>6, <2>1, SameForks
<1>11. ThreadMatchesState'
  <2>1. ASSUME NEW r \in Slots
        PROVE  /\ state'[r] \in {"UNUSED", "EMBRYO", "ZOMBIE"} => pc'[r] = "user"
               /\ state'[r] = "SLEEPING" => pc'[r] \in {"wait", "sleep"}
               /\ pc'[r] \notin {"reparent", "zombie"}
    <3>1. /\ state'[r] = IF r = np THEN "RUNNABLE" ELSE state[r]
          /\ pc'[r] = IF r = p THEN "user" ELSE pc[r]
      BY <1>6
    <3>2. /\ state[r] \in {"UNUSED", "EMBRYO", "ZOMBIE"} => pc[r] = "user"
          /\ state[r] = "SLEEPING" => pc[r] \in {"wait", "sleep"}
      BY DEF ThreadMatchesState
    <3>3. pc[r] \notin {"reparent", "zombie"}
      BY <1>1, LockFree
    <3>4. QED
      BY <1>1, <1>2, <3>1, <3>2, <3>3
  <2>2. QED
    BY <2>1 DEF ThreadMatchesState
<1>12. QED
  BY <1>1, <1>5, <1>7, <1>8, <1>9, <1>10, <1>11, LockFree DEF NoQueuePanic, WakeupLocked

\* The process in the loop of wait() is RUNNING and the only one on its CPU.
LEMMA ScanningRuns ==
  ASSUME IInv, NEW c \in Cpus, Scanning(c)
  PROVE  /\ cpuproc[c] \in Slots /\ state[cpuproc[c]] = "RUNNING"
         /\ pc[cpuproc[c]] \in {"kern", "wait"}
         /\ ptlock \in {NULL, c} /\ wchan = NULL
         /\ \A d \in Cpus : cpuproc[d] # NULL =>
              /\ cpuproc[d] \in Slots /\ state[cpuproc[d]] = "RUNNING"
              /\ \A e \in Cpus : cpuproc[e] = cpuproc[d] => e = d
         /\ \A r \in Slots : pc[r] \notin {"reparent", "zombie"}
<1>1. CASE ptlock = NULL
  BY <1>1, LockFree DEF Scanning, In, Cur
<1>2. CASE ptlock = c
  <2>1. cpuproc[c] # NULL /\ pc[cpuproc[c]] = "wait" /\ state[cpuproc[c]] = "RUNNING" /\ wchan = NULL
    BY <1>2, Constants DEF Scanning, In, Cur
  <2>2. \A d \in Cpus : cpuproc[d] # NULL => cpuproc[d] \in Slots
    BY DEF IInv, TypeOK, Ptr
  <2>3. \A d \in Cpus : cpuproc[d] # NULL =>
          /\ state[cpuproc[d]] = "RUNNING"
          /\ \A e \in Cpus : cpuproc[e] = cpuproc[d] => e = d
    BY <1>2, <2>1 DEF IInv, StackInUse, Cur
  <2>4. \A r \in Slots : pc[r] \notin {"reparent", "zombie"}
    BY <1>2, <2>1 DEF IInv, ThreadMatchesState, Cur
  <2>5. QED
    BY <1>2, <2>1, <2>2, <2>3, <2>4
<1>3. QED
  BY <1>1, <1>2 DEF Scanning

\* wait() reaping a child keeps the invariant: the zombie is in no queue, so
\* clearing its links changes none.
LEMMA WaitReapsIInv ==
  ASSUME IInv, NEW c \in Cpus, WaitReaps(c)
  PROVE  IInv'
<1> DEFINE me == cpuproc[c]
           p == First(Zombies(me))
<1> USE DEF IInv
<1>1. me \in Slots /\ state[me] = "RUNNING" /\ Scanning(c)
  BY ScanningRuns DEF WaitReaps
<1>2. p \in Slots /\ state[p] = "ZOMBIE"
  BY FirstIn DEF WaitReaps, Zombies, Children, Cur
<1>3. rq.next[p] = NULL /\ rq.previous[p] = NULL
  <2>1. Sets \in Members /\ \A k \in Prio : p \notin Sets[k]
    BY <1>2, SetsFacts
  <2> HIDE DEF p
  <2>2. QED
    BY <1>2, <2>1, HeadTracks DEF QueuesTrack, TypeOK
<1>4. /\ pid' = [pid EXCEPT ![p] = 0]
      /\ parent' = [parent EXCEPT ![p] = NULL]
      /\ killed' = [killed EXCEPT ![p] = FALSE]
      /\ state' = [state EXCEPT ![p] = "UNUSED"]
      /\ priority' = [priority EXCEPT ![p] = HI_PRIO]
      /\ rq' = [queue    |-> rq.queue,
                next     |-> [rq.next EXCEPT ![p] = NULL],
                previous |-> [rq.previous EXCEPT ![p] = NULL]]
      /\ ptlock' = NULL
      /\ pc' = [pc EXCEPT ![me] = "user"]
      /\ UNCHANGED <<chan, nextpid, wchan, cpuproc, local, arg, panic>>
  BY DEF WaitReaps, Goto, Cur
<1> HIDE DEF me, p
<1>5. rq' = rq
  <2>1. rq \in RunQueues
    BY DEF TypeOK
  <2>2. [rq.next EXCEPT ![p] = NULL] = rq.next /\ [rq.previous EXCEPT ![p] = NULL] = rq.previous
    BY <1>2, <1>3, <2>1 DEF RunQueues
  <2>3. rq = [queue |-> rq.queue, next |-> rq.next, previous |-> rq.previous]
    BY <2>1 DEF RunQueues
  <2>4. QED
    BY <1>4, <2>2, <2>3
<1>6. /\ \A r \in Slots : state'[r] = IF r = p THEN "UNUSED" ELSE state[r]
      /\ \A r \in Slots : pc'[r] = IF r = me THEN "user" ELSE pc[r]
      /\ \A r \in Slots : parent'[r] = IF r = p THEN NULL ELSE parent[r]
      /\ \A r \in Slots : priority'[r] = IF r = p THEN HI_PRIO ELSE priority[r]
      /\ \A r \in Slots : local[r] \in Ptr
      /\ UNCHANGED <<cpuproc, local>> /\ ptlock' = NULL
  BY <1>1, <1>2, <1>4 DEF TypeOK
<1>7. TypeOK'
  <2>1. 0 \in 0..MaxPid
    BY MaxPidAssumption
  <2>2. QED
    BY <1>1, <1>2, <1>4, <1>5, <2>1, Constants DEF TypeOK, PState, PC
<1>8. QueuesTrack'
  <2>1. \A q \in Prio : Runnable(q)' = Runnable(q)
    BY <1>2, <1>6 DEF Runnable
  <2>2. QED
    BY <1>5, <2>1 DEF QueuesTrack, Sets
<1>9. StackInUse'
  <2>1. \A r \in Slots : state'[r] = "RUNNING" <=> state[r] = "RUNNING"
    BY <1>2, <1>6
  <2>2. cpuproc' = cpuproc /\ \A d \in Cpus : cpuproc[d] \in Ptr
    BY <1>6 DEF TypeOK
  <2>3. \A d \in Cpus : cpuproc[d] # NULL => state[cpuproc[d]] = "RUNNING"
    BY <1>1, ScanningRuns
  <2>4. QED
    BY <2>1, <2>2, <2>3, SameRunning
<1>10. ForkOwnsEmbryo'
  BY <1>1, <1>2, <1>6 DEF ForkOwnsEmbryo, Ptr
<1>11. ThreadMatchesState'
  <2>1. \A r \in Slots : pc[r] \notin {"reparent", "zombie"} /\ pc'[r] \notin {"reparent", "zombie"}
    BY <1>1, <1>6, ScanningRuns
  <2>2. state[me] = "RUNNING" /\ state[p] = "ZOMBIE"
    BY <1>1, <1>2
  <2>3. ThreadMatchesState
    BY DEF IInv
  <2>4. QED
    BY <1>6, <2>1, <2>2, <2>3 DEF ThreadMatchesState
<1>12. QED
  BY <1>1, <1>4, <1>7, <1>8, <1>9, <1>10, <1>11, ScanningRuns DEF NoQueuePanic, WakeupLocked

\* wait() returning -1 keeps the invariant.
LEMMA WaitFailsIInv ==
  ASSUME IInv, NEW c \in Cpus, WaitFails(c)
  PROVE  IInv'
<1> DEFINE me == cpuproc[c]
<1> USE DEF IInv
<1>1. me \in Slots /\ state[me] = "RUNNING" /\ Scanning(c)
  BY ScanningRuns DEF WaitFails
<1>2. /\ ptlock' = NULL
      /\ pc' = [pc EXCEPT ![me] = "user"]
      /\ UNCHANGED <<table, wchan, cpuproc, local, arg, panic>>
  BY DEF WaitFails, Goto, Cur
<1>3. UNCHANGED <<state, pid, parent, chan, killed, priority, rq, nextpid>>
  BY <1>2 DEF table
<1> HIDE DEF me
<1>4. TypeOK'
  BY <1>1, <1>2, <1>3, Constants DEF TypeOK, PC
<1>5. /\ \A r \in Slots : pc'[r] = IF r = me THEN "user" ELSE pc[r]
      /\ UNCHANGED <<state, cpuproc>> /\ ptlock' = NULL
  BY <1>1, <1>2, <1>3 DEF TypeOK
<1>6. StackInUse'
  BY <1>1, <1>2, <1>3, ScanningRuns DEF StackInUse, Cur
<1>7. ForkOwnsEmbryo'
  BY <1>1, <1>2, <1>3, <1>5 DEF ForkOwnsEmbryo
<1>8. ThreadMatchesState'
  BY <1>1, <1>5, ScanningRuns DEF ThreadMatchesState
<1>9. QED
  BY <1>1, <1>2, <1>3, <1>4, <1>6, <1>7, <1>8, ScanningRuns, SameQueues, Zenon
     DEF NoQueuePanic, WakeupLocked

\* Falling asleep, in wait() or on another channel, keeps the invariant.
LEMMA SleepIInv ==
  ASSUME IInv, NEW c \in Cpus, WaitSleeps(c) \/ \E ch \in Chans : Sleep(c, ch)
  PROVE  IInv'
<1> DEFINE me == cpuproc[c]
<1> USE DEF IInv
<1>1. Scanning(c)
  BY DEF WaitSleeps, Sleep, Acquires, Scanning
<1>2. me \in Slots /\ state[me] = "RUNNING"
  BY <1>1, ScanningRuns
<1>3. PICK w \in {"wait", "sleep"}, ch \in Ptr \cup Chans :
        /\ chan' = [chan EXCEPT ![me] = ch]
        /\ state' = [state EXCEPT ![me] = "SLEEPING"]
        /\ ptlock' = c
        /\ pc' = [pc EXCEPT ![me] = w]
        /\ UNCHANGED <<pid, parent, killed, priority, rq, nextpid, wchan, cpuproc,
                       local, arg, panic>>
  <2>1. CASE WaitSleeps(c)
    <3>1. me \in Ptr \cup Chans
      BY <1>2, Constants
    <3>2. QED
      BY <2>1, <3>1, Zenon DEF WaitSleeps, Goto, Cur
  <2>2. CASE \E ch \in Chans : Sleep(c, ch)
    BY <2>2, Zenon DEF Sleep, Goto, Cur
  <2>3. QED
    BY <2>1, <2>2
<1> HIDE DEF me
<1>4. TypeOK'
  BY <1>2, <1>3 DEF TypeOK, PState, PC
<1>5. /\ \A r \in Slots : pc'[r] = IF r = me THEN w ELSE pc[r]
      /\ \A r \in Slots : state'[r] = IF r = me THEN "SLEEPING" ELSE state[r]
      /\ \A r \in Slots : local[r] \in Ptr
      /\ UNCHANGED <<cpuproc, local, parent, priority, rq>> /\ ptlock' = c
  BY <1>2, <1>3 DEF TypeOK
<1>6. QueuesTrack'
  BY <1>2, <1>5, SameRunnable
<1>7. StackInUse'
  <2>1. \A d \in Cpus : cpuproc[d] = me => d = c
    BY <1>1, <1>2, Constants, ScanningRuns DEF me
  <2>2. QED
    <3>1. ASSUME NEW d \in Cpus, cpuproc[d] # NULL
          PROVE  /\ \A e \in Cpus : cpuproc[e] = cpuproc[d] => e = d
                 /\ state'[cpuproc[d]] = "RUNNING" \/ ptlock' = d
      <4>1. /\ cpuproc[d] \in Slots /\ state[cpuproc[d]] = "RUNNING"
            /\ \A e \in Cpus : cpuproc[e] = cpuproc[d] => e = d
        BY <1>1, <3>1, ScanningRuns
      <4>2. QED
        BY <1>5, <2>1, <4>1
    <3>2. ASSUME NEW r \in Slots, state'[r] = "RUNNING"
          PROVE  \E d \in Cpus : cpuproc[d] = r
      <4>1. state[r] = "RUNNING"
        BY <1>5, <3>2
      <4>2. QED
        BY <4>1 DEF StackInUse, Cur
    <3>3. cpuproc' = cpuproc
      BY <1>5
    <3>4. QED
      BY <3>1, <3>2, <3>3 DEF StackInUse, Cur
<1>8. ForkOwnsEmbryo'
  BY <1>2, <1>5 DEF ForkOwnsEmbryo, Ptr
<1>9. ThreadMatchesState'
  BY <1>1, <1>2, <1>5, ScanningRuns DEF ThreadMatchesState
<1>10. QED
  BY <1>1, <1>3, <1>4, <1>6, <1>7, <1>8, <1>9, ScanningRuns, Zenon DEF NoQueuePanic, WakeupLocked

\* The start of a wakeup1() loop keeps the invariant.
LEMMA WakeupIInv ==
  ASSUME IInv, NEW c \in Cpus, NEW ch \in Chans, Wakeup(c, ch)
  PROVE  IInv'
<1> USE DEF IInv
<1>1. /\ ptlock = NULL /\ ptlock' = c /\ wchan' = ch
      /\ UNCHANGED <<state, pid, parent, chan, killed, priority, rq, nextpid,
                     pc, local, arg, cpuproc, panic>>
  BY DEF Wakeup, Acquires, table, threads
<1>2. TypeOK'
  BY <1>1 DEF TypeOK
<1>3. StackInUse' /\ WakeupLocked'
  BY <1>1, LockFree, Constants DEF StackInUse, WakeupLocked, Cur
<1>4. ThreadMatchesState'
  BY <1>1, LockFree DEF ThreadMatchesState
<1>5. QED
  BY <1>1, <1>2, <1>3, <1>4, SameQueues DEF NoQueuePanic, ForkOwnsEmbryo

\* One round of a wakeup1() loop keeps the invariant.
LEMMA Wakeup1IInv ==
  ASSUME IInv, NEW c \in Cpus, Wakeup1(c)
  PROVE  IInv'
<1> DEFINE p == First(Sleepers(wchan))
<1> USE DEF IInv
<1>1. p \in Slots /\ state[p] = "SLEEPING"
  BY FirstIn, Zenon DEF Wakeup1, Sleepers
<1>2. priority[p] \in Prio /\ pc[p] \in {"wait", "sleep"}
  BY <1>1 DEF TypeOK, ThreadMatchesState
<1>3. /\ MakeRunnable(p, priority[p])
      /\ state' = [state EXCEPT ![p] = "RUNNABLE"]
      /\ UNCHANGED <<pid, parent, chan, killed, priority, nextpid, pc, local, arg,
                     ptlock, wchan, cpuproc>>
  BY DEF Wakeup1, MakeRunnable, threads
<1> HIDE DEF p
<1>4. rq' \in RunQueues /\ QueuesTrack' /\ panic' = panic
  <2>1. priority' = priority /\ priority \in [Slots -> Prio]
    BY <1>3 DEF TypeOK
  <2>2. QED
    BY <1>1, <1>2, <1>3, <2>1, MakeRunnableTracks
<1>5. TypeOK'
  BY <1>1, <1>3, <1>4 DEF TypeOK, PState
<1>6. /\ \A r \in Slots : state'[r] = IF r = p THEN "RUNNABLE" ELSE state[r]
      /\ \A r \in Slots : local[r] \in Ptr
      /\ \A d \in Cpus : cpuproc[d] \in Ptr
      /\ UNCHANGED <<cpuproc, ptlock, wchan, pc, local, parent>>
  BY <1>1, <1>3 DEF TypeOK
<1>7. StackInUse'
  <2>1. \A r \in Slots : state'[r] = "RUNNING" <=> state[r] = "RUNNING"
    BY <1>1, <1>6
  <2>2. QED
    BY <1>6, <2>1, SameRunning
<1>8. WakeupLocked'
  BY <1>1, <1>6 DEF WakeupLocked, Cur, Ptr
<1>9. ForkOwnsEmbryo'
  BY <1>1, <1>6 DEF ForkOwnsEmbryo, Ptr
<1>10. ThreadMatchesState'
  BY <1>1, <1>2, <1>6 DEF ThreadMatchesState, Cur
<1>11. QED
  BY <1>4, <1>5, <1>7, <1>8, <1>9, <1>10 DEF NoQueuePanic

\* The end of a wakeup1() loop keeps the invariant.
LEMMA WakeupEndsIInv ==
  ASSUME IInv, NEW c \in Cpus, WakeupEnds(c)
  PROVE  IInv'
<1> USE DEF IInv
<1>1. /\ ptlock = c /\ wchan # NULL /\ wchan' = NULL
      /\ ptlock' = IF In(c, "reparent") \/ In(c, "zombie") THEN c ELSE NULL
      /\ UNCHANGED <<state, pid, parent, chan, killed, priority, rq, nextpid,
                     pc, local, arg, cpuproc, panic>>
  BY DEF WakeupEnds, table, threads
<1>2. TypeOK'
  BY <1>1, Constants DEF TypeOK
<1>3. StackInUse' /\ WakeupLocked'
  BY <1>1, Zenon DEF StackInUse, WakeupLocked, Cur
<1>4. ThreadMatchesState'
  <2>1. ASSUME NEW r \in Slots, pc[r] \in {"reparent", "zombie"}
        PROVE  state[r] = "RUNNING" /\ cpuproc[c] = r /\ ptlock' = c
    <3>1. state[r] = "RUNNING" /\ cpuproc[c] = r
      BY <1>1, <2>1 DEF ThreadMatchesState, Cur
    <3>2. In(c, "reparent") \/ In(c, "zombie")
      BY <2>1, <3>1, Constants DEF In, Cur
    <3>3. QED
      BY <1>1, <3>1, <3>2
  <2>2. QED
    BY <1>1, <2>1 DEF ThreadMatchesState, Cur
<1>5. QED
  BY <1>1, <1>2, <1>3, <1>4, SameQueues DEF NoQueuePanic, ForkOwnsEmbryo

\* kill() keeps the invariant, whether or not it wakes the process.
LEMMA KillIInv ==
  ASSUME IInv, NEW c \in Cpus, NEW k \in Targets, Kill(c, k)
  PROVE  IInv'
<1> DEFINE me == cpuproc[c]
           S == {r \in Slots : pid[r] = k}
           p == First(S)
<1> USE DEF IInv
<1>1. me \in Slots /\ state[me] = "RUNNING" /\ ptlock = NULL
  BY LockFree, Zenon DEF Kill, Acquires, In, Cur
<1>2. /\ pc' = [pc EXCEPT ![me] = "user"]
      /\ UNCHANGED <<pid, parent, chan, priority, nextpid, ptlock, wchan, cpuproc, local, arg>>
  BY DEF Kill, Goto, Cur
<1>3. S # {} => p \in Slots
  BY FirstIn
<1>4. \/ UNCHANGED <<killed, state, rq, panic>>
      \/ p \in Slots /\ killed' = [killed EXCEPT ![p] = TRUE] /\ UNCHANGED <<state, rq, panic>>
      \/ /\ p \in Slots /\ killed' = [killed EXCEPT ![p] = TRUE]
         /\ state[p] = "SLEEPING" /\ MakeRunnable(p, priority[p])
  BY <1>3 DEF Kill, KillWakes
<1> HIDE DEF me, S, p
<1>5. killed' \in [Slots -> BOOLEAN]
  BY <1>4, Zenon DEF TypeOK
<1>6. /\ \A r \in Slots : pc'[r] = IF r = me THEN "user" ELSE pc[r]
      /\ \A r \in Slots : local[r] \in Ptr
      /\ UNCHANGED <<cpuproc, ptlock, local, parent>>
  BY <1>1, <1>2 DEF TypeOK
<1>7. /\ rq' \in RunQueues /\ QueuesTrack' /\ panic' = panic
      /\ state' \in [Slots -> PState]
      /\ \A r \in Slots : \/ state'[r] = state[r]
                          \/ state[r] = "SLEEPING" /\ state'[r] = "RUNNABLE"
  <2>1. CASE UNCHANGED <<state, rq, panic>>
    BY <1>2, <2>1, SameQueues DEF TypeOK
  <2>2. CASE p \in Slots /\ state[p] = "SLEEPING" /\ MakeRunnable(p, priority[p])
    <3>1. priority' = priority /\ priority \in [Slots -> Prio] /\ priority[p] \in Prio
      BY <1>2, <2>2 DEF TypeOK
    <3>2. rq' \in RunQueues /\ QueuesTrack' /\ panic' = panic
      BY <2>2, <3>1, MakeRunnableTracks
    <3>3. state' = [state EXCEPT ![p] = "RUNNABLE"]
      BY <2>2 DEF MakeRunnable
    <3>4. QED
      BY <2>2, <3>2, <3>3 DEF TypeOK, PState
  <2>3. QED
    BY <1>4, <2>1, <2>2
<1>8. TypeOK'
  BY <1>1, <1>2, <1>5, <1>7, Zenon DEF TypeOK, PC
<1>9. StackInUse'
  <2>1. \A r \in Slots : state'[r] = "RUNNING" <=> state[r] = "RUNNING"
    BY <1>7
  <2>2. cpuproc' = cpuproc /\ ptlock' = ptlock /\ \A d \in Cpus : cpuproc[d] \in Ptr
    BY <1>6 DEF TypeOK
  <2>3. QED
    BY <2>1, <2>2, SameRunning
<1>10. ForkOwnsEmbryo'
  <2>1. ASSUME NEW r \in Slots, pc'[r] \in {"alloced", "copied"}
        PROVE  /\ pc'[r] = pc[r] /\ local'[r] = local[r]
               /\ state'[local[r]] = state[local[r]] /\ parent'[local[r]] = parent[local[r]]
    <3>1. pc'[r] = pc[r] /\ local'[r] = local[r] /\ parent' = parent
      BY <1>6, <2>1
    <3>2. local[r] # NULL /\ state[local[r]] = "EMBRYO"
      BY <2>1, <3>1 DEF ForkOwnsEmbryo
    <3>3. local[r] \in Slots
      BY <1>6, <3>2 DEF Ptr
    <3>4. QED
      BY <1>7, <3>1, <3>2, <3>3
  <2>2. QED
    BY <1>6, <2>1, SameForks
<1>11. ThreadMatchesState'
  <2>1. ASSUME NEW r \in Slots
        PROVE  /\ state'[r] \in {"UNUSED", "EMBRYO", "ZOMBIE"} => pc'[r] = "user"
               /\ state'[r] = "SLEEPING" => pc'[r] \in {"wait", "sleep"}
               /\ pc'[r] \notin {"reparent", "zombie"}
    <3>1. /\ state'[r] = state[r] \/ state'[r] = "RUNNABLE"
          /\ pc'[r] = IF r = me THEN "user" ELSE pc[r]
      BY <1>6, <1>7
    <3>2. /\ state[r] \in {"UNUSED", "EMBRYO", "ZOMBIE"} => pc[r] = "user"
          /\ state[r] = "SLEEPING" => pc[r] \in {"wait", "sleep"}
      BY DEF ThreadMatchesState
    <3>3. pc[r] \notin {"reparent", "zombie"}
      BY <1>1, LockFree
    <3>4. QED
      BY <1>1, <3>1, <3>2, <3>3
  <2>2. QED
    BY <2>1 DEF ThreadMatchesState
<1>12. QED
  BY <1>1, <1>2, <1>7, <1>8, <1>9, <1>10, <1>11, LockFree, Zenon DEF NoQueuePanic, WakeupLocked

\* setprio() moves a ready process from one queue to the other and leaves both
\* exact; of any other process it changes the priority only.
LEMMA SetprioTracks ==
  ASSUME IInv, NEW c \in Cpus, NEW k \in Targets, NEW q \in Prio, Setprio(c, k, q)
  PROVE  /\ rq' \in RunQueues /\ priority' \in [Slots -> Prio]
         /\ QueuesTrack' /\ panic' = panic
<1> DEFINE p == First(Named(k))
           old == priority[p]
           out == Dequeue(rq, p, old)
<1> USE DEF IInv
<1>1. state' = state
  BY Zenon DEF Setprio
<1>2. CASE UNCHANGED <<priority, rq, panic>>
  BY <1>1, <1>2, SameQueues DEF TypeOK
<1>3. CASE /\ Named(k) # {} /\ old # q
           /\ priority' = [priority EXCEPT ![p] = q]
           /\ state[p] # "RUNNABLE"
           /\ UNCHANGED <<rq, panic>>
  <2>1. p \in Slots
    BY <1>3, FirstIn DEF Named
  <2> HIDE DEF p
  <2>2. \A r \in Slots : priority'[r] = IF r = p THEN q ELSE priority[r]
    BY <1>3, <2>1 DEF TypeOK
  <2>3. \A j \in Prio : Runnable(j)' = Runnable(j)
    BY <1>1, <1>3, <2>1, <2>2 DEF Runnable
  <2>4. QED
    BY <1>3, <2>1, <2>3 DEF QueuesTrack, Sets, TypeOK
<1>4. CASE /\ Named(k) # {} /\ old # q
           /\ priority' = [priority EXCEPT ![p] = q]
           /\ state[p] = "RUNNABLE"
           /\ rq' = Enqueue(out, p, q)
           /\ panic' = IF DequeuePanics(rq, p, old) THEN "dequeue"
                       ELSE IF EnqueuePanics(out, p) THEN "enqueue" ELSE panic
  <2>1. p \in Slots /\ old \in Prio
    <3>1. p \in Slots
      BY <1>4, FirstIn, Zenon DEF Named
    <3>2. QED
      BY <3>1 DEF TypeOK
  <2> DEFINE T == [Sets EXCEPT ![old] = @ \ {p}]
  <2>2. Sets \in Members /\ p \in Sets[old] /\ \A j \in Prio \ {old} : p \notin Sets[j]
    BY <1>4, <2>1, SetsFacts, Zenon
  <2> HIDE DEF p, old
  <2>3. ~DequeuePanics(rq, p, old) /\ out \in RunQueues /\ Tracks(out, T)
    BY <2>1, <2>2, DequeueTracks DEF QueuesTrack, TypeOK
  <2>4. T \in Members /\ \A j \in Prio : p \notin T[j]
    BY <2>1, <2>2 DEF Members
  <2> HIDE DEF out
  <2>5. /\ ~EnqueuePanics(out, p) /\ Enqueue(out, p, q) \in RunQueues
        /\ Tracks(Enqueue(out, p, q), [T EXCEPT ![q] = @ \cup {p}])
    <3> HIDE DEF T
    <3>1. QED
      BY <2>1, <2>3, <2>4, EnqueueTracks
  <2>6. \A r \in Slots : priority'[r] = IF r = p THEN q ELSE priority[r]
    BY <1>4, <2>1 DEF TypeOK
  <2>7. \A j \in Prio : Runnable(j)' = IF j = q THEN Runnable(j) \cup {p}
                                       ELSE IF j = old THEN Runnable(j) \ {p} ELSE Runnable(j)
    BY <1>1, <1>4, <2>1, <2>2, <2>6 DEF Runnable, Sets
  <2>8. Sets' = [T EXCEPT ![q] = @ \cup {p}]
    BY <1>4, <2>1, <2>7, Zenon DEF Sets
  <2>9. QED
    BY <1>4, <2>1, <2>3, <2>5, <2>8 DEF QueuesTrack, TypeOK
<1>5. QED
  BY <1>2, <1>3, <1>4, Zenon DEF Setprio

\* setprio() keeps the invariant.
LEMMA SetprioIInv ==
  ASSUME IInv, NEW c \in Cpus, NEW k \in Targets, NEW q \in Prio, Setprio(c, k, q)
  PROVE  IInv'
<1> DEFINE me == cpuproc[c]
<1> USE DEF IInv
<1>1. me \in Slots /\ state[me] = "RUNNING"
  BY LockFree, Zenon DEF Setprio, Acquires, In, Cur
<1>2. /\ pc' = [pc EXCEPT ![me] = "user"]
      /\ UNCHANGED <<state, pid, parent, chan, killed, nextpid, ptlock, wchan, cpuproc, local, arg>>
  BY Zenon DEF Setprio, Goto, Cur
<1>3. rq' \in RunQueues /\ priority' \in [Slots -> Prio] /\ QueuesTrack' /\ panic' = panic
  BY SetprioTracks
<1>4. TypeOK'
  BY <1>1, <1>2, <1>3, Zenon DEF TypeOK, PC
<1>5. ForkOwnsEmbryo' /\ ThreadMatchesState'
  BY <1>1, <1>2, GotoKeepsThreads, Zenon
<1>6. QED
  BY <1>2, <1>3, <1>4, <1>5 DEF NoQueuePanic, StackInUse, WakeupLocked, Cur
\* exit() up to its first wakeup1() keeps the invariant.
LEMMA ExitIInv ==
  ASSUME IInv, NEW c \in Cpus, Exit(c)
  PROVE  IInv'
<1> DEFINE p == cpuproc[c]
<1> USE DEF IInv
<1>1. p \in Slots /\ state[p] = "RUNNING" /\ ptlock = NULL
  BY LockFree DEF Exit, Acquires, In, Cur
<1>2. /\ UNCHANGED <<state, pid, parent, chan, priority, rq, nextpid, cpuproc, local, arg>>
      /\ killed' = killed \/ killed' = [killed EXCEPT ![p] = TRUE]
  BY DEF Exit, Cur
<1>3. killed' \in [Slots -> BOOLEAN]
  BY <1>1, <1>2, Zenon DEF TypeOK
<1>4. QueuesTrack'
  BY <1>2, SameQueues
<1>5. CASE panic' = "init_exiting" /\ UNCHANGED <<ptlock, wchan, pc>>
  <2>1. TypeOK'
    BY <1>2, <1>3, <1>5 DEF TypeOK
  <2>2. StackInUse' /\ WakeupLocked'
    BY <1>2, <1>5, Zenon DEF StackInUse, WakeupLocked, Cur
  <2>3. ForkOwnsEmbryo' /\ ThreadMatchesState'
    <3>1. UNCHANGED <<state, parent, local, pc, cpuproc, ptlock>>
      BY <1>2, <1>5
    <3>2. ForkOwnsEmbryo'
      BY <3>1, Zenon DEF ForkOwnsEmbryo
    <3>3. ThreadMatchesState'
      BY <3>1 DEF ThreadMatchesState, Cur
    <3>4. QED
      BY <3>2, <3>3
  <2>4. QED
    BY <1>4, <1>5, <2>1, <2>2, <2>3 DEF NoQueuePanic
<1>6. CASE /\ ptlock' = c /\ wchan' = parent[p]
           /\ pc' = [pc EXCEPT ![p] = "reparent"] /\ UNCHANGED panic
  <2> HIDE DEF p
  <2>1. TypeOK'
    BY <1>1, <1>2, <1>3, <1>6 DEF TypeOK, PC
  <2>2. /\ \A r \in Slots : pc'[r] = IF r = p THEN "reparent" ELSE pc[r]
        /\ UNCHANGED <<state, cpuproc, local, parent>> /\ ptlock' = c
    BY <1>1, <1>2, <1>6 DEF TypeOK
  <2>3. StackInUse' /\ WakeupLocked'
    BY <1>1, <2>2, LockFree, Constants DEF StackInUse, WakeupLocked, Cur
  <2>4. ForkOwnsEmbryo'
    BY <2>2, Zenon DEF ForkOwnsEmbryo
  <2>5. ThreadMatchesState'
    BY <1>1, <2>2, LockFree DEF ThreadMatchesState, Cur, p
  <2>6. QED
    BY <1>4, <1>6, <2>1, <2>3, <2>4, <2>5 DEF NoQueuePanic
<1>7. QED
  BY <1>5, <1>6 DEF Exit, Goto, Cur

\* exit() passing the children on to initproc keeps the invariant: a fork in
\* progress is of another process, whose child is not touched.
LEMMA ExitReparentsIInv ==
  ASSUME IInv, NEW c \in Cpus, ExitReparents(c)
  PROVE  IInv'
<1> DEFINE p == cpuproc[c]
<1> USE DEF IInv
<1>1. p \in Slots /\ state[p] = "RUNNING" /\ ptlock = c /\ pc[p] = "reparent"
  BY DEF ExitReparents, In, Cur, TypeOK, Ptr, ThreadMatchesState
<1>2. /\ parent' = [r \in Slots |-> IF parent[r] = p THEN initproc ELSE parent[r]]
      /\ wchan' \in {initproc, NULL}
      /\ pc' = [pc EXCEPT ![p] = "zombie"]
      /\ UNCHANGED <<state, pid, chan, killed, priority, rq, nextpid, ptlock, cpuproc,
                     local, arg, panic>>
  BY Zenon DEF ExitReparents, Adopted, OrphanWakeup, Children, Goto, Cur
<1> HIDE DEF p
<1>3. TypeOK'
  BY <1>1, <1>2, Constants DEF TypeOK, PC
<1>4. /\ \A r \in Slots : pc'[r] = IF r = p THEN "zombie" ELSE pc[r]
      /\ \A r \in Slots : local[r] \in Ptr
  BY <1>1, <1>2 DEF TypeOK
<1>5. StackInUse'
  BY <1>2 DEF StackInUse, Cur
<1>6. WakeupLocked'
  <2>1. ASSUME NEW d \in Cpus, cpuproc[d] # NULL PROVE state[cpuproc[d]] = "RUNNING"
    BY <1>1, <2>1 DEF StackInUse, Cur, p
  <2>2. QED
    BY <1>1, <1>2, <2>1, Constants DEF WakeupLocked, Cur
<1>7. ForkOwnsEmbryo'
  <2>1. \A r \in Slots : pc'[r] \in {"alloced", "copied"} => r # p /\ pc'[r] = pc[r]
    BY <1>4
  <2>2. \A r \in Slots : local[r] # NULL => local[r] \in Slots
    BY <1>4 DEF Ptr
  <2>3. QED
    BY <1>1, <1>2, <2>1, <2>2 DEF ForkOwnsEmbryo
<1>8. ThreadMatchesState'
  BY <1>1, <1>2, <1>4 DEF ThreadMatchesState, Cur
<1>9. QED
  BY <1>2, <1>3, <1>5, <1>6, <1>7, <1>8, SameQueues DEF NoQueuePanic

\* exit() making the process a zombie keeps the invariant.
LEMMA ExitEndsIInv ==
  ASSUME IInv, NEW c \in Cpus, ExitEnds(c)
  PROVE  IInv'
<1> DEFINE p == cpuproc[c]
<1> USE DEF IInv
<1>1. p \in Slots /\ state[p] = "RUNNING" /\ ptlock = c /\ pc[p] = "zombie" /\ wchan = NULL
  BY DEF ExitEnds, In, Cur, TypeOK, Ptr, ThreadMatchesState
<1>2. /\ state' = [state EXCEPT ![p] = "ZOMBIE"]
      /\ pc' = [pc EXCEPT ![p] = "user"]
      /\ UNCHANGED <<pid, parent, chan, killed, priority, rq, nextpid, ptlock, wchan,
                     cpuproc, local, arg, panic>>
  BY DEF ExitEnds, Goto, Cur
<1>3. \A r \in Slots \ {p} : pc[r] \notin {"reparent", "zombie"}
  BY <1>1 DEF ThreadMatchesState, Cur
<1>4. \A d \in Cpus : cpuproc[d] = p => d = c
  BY <1>1, Constants DEF StackInUse, Cur
<1> HIDE DEF p
<1>5. TypeOK'
  BY <1>1, <1>2 DEF TypeOK, PState, PC
<1>6. /\ \A r \in Slots : pc'[r] = IF r = p THEN "user" ELSE pc[r]
      /\ \A r \in Slots : state'[r] = IF r = p THEN "ZOMBIE" ELSE state[r]
      /\ \A r \in Slots : local[r] \in Ptr
      /\ \A d \in Cpus : cpuproc[d] \in Ptr
      /\ UNCHANGED <<cpuproc, ptlock, local, parent>>
  BY <1>1, <1>2 DEF TypeOK
<1>7. QueuesTrack'
  BY <1>1, <1>2, <1>6, SameRunnable
<1>8. StackInUse'
  BY <1>1, <1>4, <1>6 DEF StackInUse, Cur, Ptr
<1>9. ForkOwnsEmbryo'
  BY <1>1, <1>6 DEF ForkOwnsEmbryo, Ptr
<1>10. ThreadMatchesState'
  BY <1>1, <1>3, <1>6 DEF ThreadMatchesState
<1>11. QED
  BY <1>1, <1>2, <1>5, <1>7, <1>8, <1>9, <1>10 DEF NoQueuePanic, WakeupLocked

\* Every step keeps the invariant.
LEMMA NextIInv == IInv /\ [Next]_vars => IInv'
<1> SUFFICES ASSUME IInv, [Next]_vars PROVE IInv'
  OBVIOUS
<1>1. CASE UNCHANGED vars
  <2>1. UNCHANGED <<state, pid, parent, chan, killed, priority, rq, nextpid, pc, local, arg,
                    ptlock, wchan, cpuproc, panic>>
    BY <1>1 DEF vars, table, threads
  <2>2. TypeOK'
    BY <2>1 DEF IInv, TypeOK
  <2>3. StackInUse' /\ WakeupLocked'
    BY <2>1 DEF IInv, StackInUse, WakeupLocked, Cur
  <2>4. ForkOwnsEmbryo'
    BY <2>1 DEF IInv, ForkOwnsEmbryo
  <2>5. ThreadMatchesState'
    BY <2>1 DEF IInv, ThreadMatchesState, Cur
  <2>6. QueuesTrack'
    BY <2>1, SameQueues DEF IInv
  <2>7. QED
    BY <2>1, <2>2, <2>3, <2>4, <2>5, <2>6 DEF IInv, NoQueuePanic
<1>2. ASSUME NEW c \in Cpus, Step(c) PROVE IInv'
  BY <1>2, DispatchIInv, SwitchOutIInv, YieldIInv, SyscallIInv, AllocProcIInv, ForkUnlockedIInv,
     ForkPublishesIInv, WaitReapsIInv, WaitFailsIInv, SleepIInv, WakeupIInv, Wakeup1IInv,
     WakeupEndsIInv, KillIInv, SetprioIInv, GetprioIInv, ExitIInv, ExitReparentsIInv, ExitEndsIInv
     DEF Step
<1>3. QED
  BY <1>1, <1>2 DEF Next, Halted

\* The inductive invariant holds in every reachable state.
THEOREM Inductive == Spec => []IInv
BY InitIInv, NextIInv, PTL DEF Spec

\* proc.c keeps every field of the process table, the queues and the CPUs in range.
THEOREM TypeCorrect == Spec => []TypeOK
<1>1. IInv => TypeOK
  BY DEF IInv
<1>2. QED
  BY <1>1, Inductive, PTL

\* The panics of enqueue() and dequeue() are unreachable.
THEOREM QueuePanicsUnreachable == Spec => []NoQueuePanic
<1>1. IInv => NoQueuePanic
  BY DEF IInv
<1>2. QED
  BY <1>1, Inductive, PTL

\* No two CPUs share a kernel stack, and none is freed or dispatched while in use.
THEOREM StacksExclusive == Spec => []StackInUse
<1>1. IInv => StackInUse
  BY DEF IInv
<1>2. QED
  BY <1>1, Inductive, PTL

\* A kernel thread is where p->state says: no thread of a slot that is free or has
\* exited is in the kernel, and a sleeper is in sleep().
THEOREM ThreadsMatchStates == Spec => []ThreadMatchesState
<1>1. IInv => ThreadMatchesState
  BY DEF IInv
<1>2. QED
  BY <1>1, Inductive, PTL

\* The slot a fork() writes to without the lock is an EMBRYO of its own.
THEOREM ForksExclusive == Spec => []ForkOwnsEmbryo
<1>1. IInv => ForkOwnsEmbryo
  BY DEF IInv
<1>2. QED
  BY <1>1, Inductive, PTL

\* Any step changes a state along the life cycle, and only the scheduler, switching
\* to the process it picked, makes one RUNNING.
LEMMA StepChanges ==
  ASSUME IInv, NEW c \in Cpus, Step(c)
  PROVE  \A p \in Slots : \/ state'[p] = state[p]
                          \/ /\ <<state[p], state'[p]>> \in Lifecycle
                             /\ state'[p] = "RUNNING" => p = Next2Run /\ Dispatch(c)
<1> DEFINE Good == \A p \in Slots : \/ state'[p] = state[p]
                                    \/ /\ <<state[p], state'[p]>> \in Lifecycle
                                       /\ state'[p] = "RUNNING" => p = Next2Run /\ Dispatch(c)
<1>1. ASSUME NEW r \in Slots, NEW to \in PState, state' = [state EXCEPT ![r] = to],
             <<state[r], to>> \in Lifecycle, to = "RUNNING" => r = Next2Run /\ Dispatch(c)
      PROVE  Good
  <2>1. \A p \in Slots : state'[p] = IF p = r THEN to ELSE state[p]
    BY <1>1 DEF IInv, TypeOK
  <2>2. QED
    BY <1>1, <2>1
<1> SUFFICES Good
  OBVIOUS
<1> HIDE DEF Good
<1>2. CASE Dispatch(c)
  BY <1>1, <1>2, Next2RunRunnable, Zenon DEF IInv, Dispatch, Lifecycle, PState
<1>3. CASE Yield(c)
  BY <1>1, <1>3, LockFree, Zenon DEF Yield, Acquires, Cur, MakeRunnable, Lifecycle, PState
<1>4. CASE AllocProc(c)
  <2>1. First(Unused) \in Slots /\ state[First(Unused)] = "UNUSED"
    BY <1>4, FirstIn DEF AllocProc, Unused
  <2>2. QED
    BY <1>1, <1>4, <2>1, Zenon DEF AllocProc, Lifecycle, PState
<1>5. CASE ForkFails(c) \/ ForkPublishes(c)
  <2>1. cpuproc[c] \in Slots /\ pc[cpuproc[c]] \in {"alloced", "copied"}
    BY <1>5, CurRunning, Constants
       DEF ForkFails, ForkPublishes, Running, Acquires, In, Cur
  <2>2. local[cpuproc[c]] \in Slots /\ state[local[cpuproc[c]]] = "EMBRYO"
    BY <2>1 DEF IInv, TypeOK, Ptr, ForkOwnsEmbryo
  <2>3. QED
    <3>1. \E to \in {"UNUSED", "RUNNABLE"} : state' = [state EXCEPT ![local[cpuproc[c]]] = to]
      BY <1>5 DEF ForkFails, ForkPublishes, MakeRunnable, Cur
    <3>2. QED
      BY <1>1, <2>2, <3>1, Zenon DEF Lifecycle, PState
<1>6. CASE WaitReaps(c)
  <2>1. First(Zombies(Cur(c))) \in Slots /\ state[First(Zombies(Cur(c)))] = "ZOMBIE"
    BY <1>6, FirstIn, Zenon DEF WaitReaps, Zombies, Children
  <2>2. QED
    BY <1>1, <1>6, <2>1, Zenon DEF WaitReaps, Lifecycle, PState
<1>7. CASE WaitSleeps(c) \/ \E ch \in Chans : Sleep(c, ch)
  <2>1. cpuproc[c] \in Slots /\ state[cpuproc[c]] = "RUNNING"
    BY <1>7, ScanningRuns DEF WaitSleeps, Sleep, Acquires, Scanning
  <2>2. QED
    <3>1. state' = [state EXCEPT ![cpuproc[c]] = "SLEEPING"]
      BY <1>7 DEF WaitSleeps, Sleep, Cur
    <3>2. QED
      BY <1>1, <2>1, <3>1, Zenon DEF Lifecycle, PState
<1>8. CASE Wakeup1(c)
  <2>1. First(Sleepers(wchan)) \in Slots /\ state[First(Sleepers(wchan))] = "SLEEPING"
    BY <1>8, FirstIn, Zenon DEF Wakeup1, Sleepers
  <2>2. QED
    BY <1>1, <1>8, <2>1, Zenon DEF Wakeup1, MakeRunnable, Lifecycle, PState
<1>9. CASE \E k \in Targets : Kill(c, k)
  <2>1. PICK k \in Targets : Kill(c, k)
    BY <1>9
  <2> DEFINE S == {r \in Slots : pid[r] = k}
  <2>2. CASE state' = state
    BY <2>2 DEF Good
  <2>3. CASE S # {} /\ state[First(S)] = "SLEEPING" /\ MakeRunnable(First(S), priority[First(S)])
    <3>1. First(S) \in Slots
      BY <2>3, FirstIn
    <3>2. QED
      BY <1>1, <2>3, <3>1, Zenon DEF MakeRunnable, Lifecycle, PState
  <2>4. QED
    BY <2>1, <2>2, <2>3 DEF Kill, KillWakes
<1>10. CASE ExitEnds(c)
  <2>1. cpuproc[c] \in Slots /\ state[cpuproc[c]] = "RUNNING"
    BY <1>10 DEF IInv, ExitEnds, In, Cur, TypeOK, Ptr, ThreadMatchesState
  <2>2. QED
    BY <1>1, <1>10, <2>1, Zenon DEF ExitEnds, Cur, Lifecycle, PState
<1>11. CASE state' = state
  BY <1>11 DEF Good
<1>12. QED
  <2>1. CASE SwitchOut(c) \/ Syscall(c) \/ Sysret(c) \/ ForkCopies(c) \/ WaitFails(c)
    BY <1>11, <2>1, Zenon DEF SwitchOut, Syscall, Sysret, ForkCopies, WaitFails, table
  <2>2. CASE WakeupEnds(c) \/ \E ch \in Chans : Wakeup(c, ch)
    BY <1>11, <2>2 DEF WakeupEnds, Wakeup, table
  <2>3. CASE GetprioReads(c) \/ \E k \in Queried : GetprioFinds(c, k)
    BY <1>11, <2>3 DEF GetprioReads, GetprioFinds, table
  <2>4. CASE Exit(c) \/ ExitReparents(c)
    BY <1>11, <2>4 DEF Exit, ExitReparents
  <2>5. CASE \E k \in Targets : \E q \in Prio : Setprio(c, k, q)
    BY <1>11, <2>5, Zenon DEF Setprio
  <2>6. QED
    BY <1>2, <1>3, <1>4, <1>5, <1>6, <1>7, <1>8, <1>9, <1>10,
       <2>1, <2>2, <2>3, <2>4, <2>5 DEF Step

\* Every slot follows the life cycle, for any number of processes and CPUs.
THEOREM LifecycleCorrect == Spec => LifecycleRespected
<1>1. IInv /\ [Next]_vars =>
        [\A p \in Slots : state'[p] = state[p] \/ <<state[p], state'[p]>> \in Lifecycle]_vars
  BY StepChanges DEF Next, Halted
<1>2. QED
  BY <1>1, Inductive, PTL DEF Spec, LifecycleRespected

\* A process of normal priority starts only when none of high priority is ready.
THEOREM PriorityRespected == Spec => HighGoesFirst
<1>1. IInv /\ [Next]_vars =>
        [\A p \in Slots : state[p] = "RUNNABLE" /\ state'[p] = "RUNNING" /\ priority[p] = NORM_PRIO
                            => Runnable(HI_PRIO) = {}]_vars
  <2> SUFFICES ASSUME IInv, NEW c \in Cpus, Step(c), NEW p \in Slots,
                      state[p] = "RUNNABLE", state'[p] = "RUNNING", priority[p] = NORM_PRIO
               PROVE  Runnable(HI_PRIO) = {}
    BY DEF Next, Halted
  <2>1. p = Next2Run /\ Dispatch(c)
    BY StepChanges
  <2>2. QED
    BY <2>1, Next2RunRunnable DEF IInv, Dispatch
<1>2. QED
  BY <1>1, Inductive, PTL DEF Spec, HighGoesFirst
=============================================================================
