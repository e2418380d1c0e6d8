------------------------------- MODULE Proc --------------------------------
(* The process table and the scheduler: proc.c, with the part of trap.c that *)
(* makes a process give up the CPU or die.                                   *)
(*                                                                           *)
(* A critical section of ptable.lock is one step where nothing in it can be  *)
(* seen from outside.  The lock is a variable because three sections span    *)
(* several steps: the wakeup1() loop, exit(), and the hand-over through      *)
(* sched() and scheduler(), where one thread acquires and another releases.  *)
(* What the code does without the lock (the failure paths of fork, np->parent,*)
(* the last read of getprio) is a step of its own that may come at any time. *)
EXTENDS RunQueue, FiniteSets

CONSTANTS
  Cpus,        \* the processors
  Chans,       \* sleep channels other than the address of a process
  MaxPid,      \* bound on the pids handed out
  Targets,     \* the pids kill and setprio are given
  Queried      \* the pids getprio is given

ASSUME CpusAssumption == NULL \notin Cpus
ASSUME ChansAssumption == Chans \subseteq Nat /\ Chans \cap Ptr = {}
ASSUME MaxPidAssumption == MaxPid \in Nat \ {0}
ASSUME PidsAssumption == Targets \cup Queried \subseteq 0..MaxPid

VARIABLES
  state, pid, parent, chan, killed, priority,   \* fields of struct proc
  rq,          \* ptable.queue and the next/previous links
  nextpid,
  ptlock,      \* the CPU that holds ptable.lock, or NULL
  wchan,       \* the channel a wakeup1() loop is scanning for, or NULL
  cpuproc,     \* c->proc for every CPU
  pc,          \* where the kernel thread of a slot is
  local,       \* the slot its local variable points to (np of fork, p of getprio)
  arg,         \* the pid getprio was asked about
  panic        \* the panic() that stopped the machine, or "none"

table == <<state, pid, parent, chan, killed, priority, rq, nextpid>>
threads == <<pc, local, arg>>
vars == <<table, threads, ptlock, wchan, cpuproc, panic>>

initproc == 1

PState == {"UNUSED", "EMBRYO", "SLEEPING", "RUNNABLE", "RUNNING", "ZOMBIE"}

(* user: in user space; kern: in a system call, or in its body again after a *)
(* sleep; alloced, copied: in fork; getprio: between the release of the lock *)
(* and the read; wait, sleep: blocked there; reparent, zombie: in exit.      *)
PC == {"user", "kern", "alloced", "copied", "getprio", "wait", "sleep",
       "reparent", "zombie"}

TypeOK ==
  /\ state \in [Slots -> PState]
  /\ pid \in [Slots -> 0..MaxPid]
  /\ parent \in [Slots -> Ptr]
  /\ chan \in [Slots -> Ptr \cup Chans]
  /\ killed \in [Slots -> BOOLEAN]
  /\ priority \in [Slots -> Prio]
  /\ rq \in RunQueues
  /\ nextpid \in 1..(MaxPid + 1)
  /\ ptlock \in Cpus \cup {NULL}
  /\ wchan \in Ptr \cup Chans
  /\ cpuproc \in [Cpus -> Ptr]
  /\ pc \in [Slots -> PC]
  /\ local \in [Slots -> Ptr]
  /\ arg \in [Slots -> 0..MaxPid]
  /\ panic \in {"none", "init_exiting", "enqueue", "dequeue"}

(* ------------------------------- helpers -------------------------------- *)

\* A loop over ptable.proc stops at the lowest slot of those that match.
First(S) == CHOOSE p \in S : \A r \in S : p <= r

Cur(c) == cpuproc[c]
In(c, where) == Cur(c) # NULL /\ pc[Cur(c)] = where

\* The CPU runs code of its process, and not with the lock held on its behalf.
Running(c) == panic = "none" /\ Cur(c) # NULL /\ ptlock # c

\* acquire(&ptable.lock) succeeds now.
Acquires == panic = "none" /\ ptlock = NULL

Children(p) == {r \in Slots : parent[r] = p}

\* Mutant of Zombies: the test of p->parent is missing.
AnyZombies(p) == {r \in Slots : state[r] = "ZOMBIE"}

Zombies(p) == {r \in Children(p) : state[r] = "ZOMBIE"}
Sleepers(ch) == {r \in Slots : state[r] = "SLEEPING" /\ chan[r] = ch}
Named(k) == {r \in Slots : pid[r] = k /\ state[r] # "UNUSED"}

\* p->state = RUNNABLE; enqueue(p), with p->priority = q
MakeRunnable(p, q) ==
  /\ state' = [state EXCEPT ![p] = "RUNNABLE"]
  /\ rq' = Enqueue(rq, p, q)
  /\ panic' = IF EnqueuePanics(rq, p) THEN "enqueue" ELSE panic

Goto(p, where) == pc' = [pc EXCEPT ![p] = where]

(* -------------------------- boot and the scheduler ----------------------- *)

\* After userinit(): slot 1 is initproc, ready at normal priority.
Init ==
  /\ state = [p \in Slots |-> IF p = initproc THEN "RUNNABLE" ELSE "UNUSED"]
  /\ pid = [p \in Slots |-> IF p = initproc THEN 1 ELSE 0]
  /\ parent = [p \in Slots |-> NULL]
  /\ chan = [p \in Slots |-> NULL]
  /\ killed = [p \in Slots |-> FALSE]
  /\ priority = [p \in Slots |-> IF p = initproc THEN NORM_PRIO ELSE HI_PRIO]
  /\ rq = Enqueue(EmptyQueues, initproc, NORM_PRIO)
  /\ nextpid = 2
  /\ ptlock = NULL
  /\ wchan = NULL
  /\ cpuproc = [c \in Cpus |-> NULL]
  /\ pc = [p \in Slots |-> "user"]
  /\ local = [p \in Slots |-> NULL]
  /\ arg = [p \in Slots |-> 0]
  /\ panic = "none"

\* Mutant of Next2Run: the queues are tried in the wrong order.
Next2RunSwapped ==
  IF rq.queue[NORM_PRIO] # NULL THEN rq.queue[NORM_PRIO] ELSE rq.queue[HI_PRIO]

\* The process scheduler() picks: the head of the first queue that has one.
Next2Run == IF rq.queue[HI_PRIO] # NULL THEN rq.queue[HI_PRIO] ELSE rq.queue[NORM_PRIO]

(* An idle CPU takes the lock, picks a process and switches to it.  The       *)
(* process comes back from sched() where it left: out of yield or forkret,    *)
(* which release the lock; out of sleep, which clears chan and then releases; *)
(* or into the loop of wait, which still holds the lock.                      *)
Dispatch(c) ==
  LET p == Next2Run IN
  /\ Acquires
  /\ Cur(c) = NULL
  /\ p # NULL
  /\ cpuproc' = [cpuproc EXCEPT ![c] = p]
  /\ state' = [state EXCEPT ![p] = "RUNNING"]
  /\ rq' = Dequeue(rq, p, priority[p])
  /\ panic' = IF DequeuePanics(rq, p, priority[p]) THEN "dequeue" ELSE panic
  /\ chan' = [chan EXCEPT ![p] = NULL]
  /\ ptlock' = IF pc[p] = "wait" THEN c ELSE NULL
  /\ pc' = [pc EXCEPT ![p] = IF @ = "sleep" THEN "kern" ELSE @]
  /\ UNCHANGED <<pid, parent, killed, priority, nextpid, wchan, local, arg>>

(* The second half of sched(): the process has changed its state and holds    *)
(* the lock; swtch() to the scheduler, which forgets it and releases.         *)
SwitchOut(c) ==
  /\ panic = "none"
  /\ ptlock = c
  /\ wchan = NULL
  /\ Cur(c) # NULL
  /\ state[Cur(c)] # "RUNNING"
  /\ cpuproc' = [cpuproc EXCEPT ![c] = NULL]
  /\ ptlock' = NULL
  /\ UNCHANGED <<table, threads, wchan, panic>>

\* Mutant of Yield: the lock is released before sched().
YieldUnlocked(c) ==
  /\ Acquires
  /\ Cur(c) # NULL
  /\ MakeRunnable(Cur(c), priority[Cur(c)])
  /\ UNCHANGED <<pid, parent, chan, killed, priority, nextpid, threads, ptlock, wchan, cpuproc>>

\* The timer interrupt of a running process calls yield().
Yield(c) ==
  /\ Acquires
  /\ Cur(c) # NULL
  /\ MakeRunnable(Cur(c), priority[Cur(c)])
  /\ ptlock' = c
  /\ UNCHANGED <<pid, parent, chan, killed, priority, nextpid, threads, wchan, cpuproc>>

(* ----------------------------- system calls ------------------------------ *)

\* trap(): a process that is not marked killed enters a system call.
Syscall(c) ==
  /\ Running(c)
  /\ In(c, "user")
  /\ ~killed[Cur(c)]
  /\ Goto(Cur(c), "kern")
  /\ UNCHANGED <<table, ptlock, wchan, cpuproc, local, arg, panic>>

\* The body of any system call that leaves the process table alone.
Sysret(c) ==
  /\ Running(c)
  /\ In(c, "kern")
  /\ Goto(Cur(c), "user")
  /\ UNCHANGED <<table, ptlock, wchan, cpuproc, local, arg, panic>>

\* Mutant of Unused: the search goes one slot past the end of the table.
UnusedPastEnd == {r \in 1..(NPROC + 1) : r > NPROC \/ state[r] = "UNUSED"}

\* Mutant of Unused: a slot another fork() is still filling counts as free.
UnusedOrEmbryo == {r \in Slots : state[r] \in {"UNUSED", "EMBRYO"}}

Unused == {r \in Slots : state[r] = "UNUSED"}

\* allocproc(), called by fork: the slot and the pid are taken under the lock.
AllocProc(c) ==
  LET np == First(Unused) IN
  /\ Acquires
  /\ In(c, "kern")
  /\ Unused # {}
  /\ nextpid <= MaxPid
  /\ state' = [state EXCEPT ![np] = "EMBRYO"]
  /\ pid' = [pid EXCEPT ![np] = nextpid]
  /\ nextpid' = nextpid + 1
  /\ local' = [local EXCEPT ![Cur(c)] = np]
  /\ Goto(Cur(c), "alloced")
  /\ UNCHANGED <<parent, chan, killed, priority, rq, ptlock, wchan, cpuproc, arg, panic>>

(* kalloc() of the kernel stack or copyuvm() fails: the slot is given back    *)
(* without the lock, and keeps its pid.                                       *)
ForkFails(c) ==
  /\ Running(c)
  /\ In(c, "alloced")
  /\ state' = [state EXCEPT ![local[Cur(c)]] = "UNUSED"]
  /\ local' = [local EXCEPT ![Cur(c)] = NULL]
  /\ Goto(Cur(c), "user")
  /\ UNCHANGED <<pid, parent, chan, killed, priority, rq, nextpid,
                 ptlock, wchan, cpuproc, arg, panic>>

\* The memory is copied and np->parent set, without the lock.
ForkCopies(c) ==
  /\ Running(c)
  /\ In(c, "alloced")
  /\ parent' = [parent EXCEPT ![local[Cur(c)]] = Cur(c)]
  /\ Goto(Cur(c), "copied")
  /\ UNCHANGED <<state, pid, chan, killed, priority, rq, nextpid,
                 ptlock, wchan, cpuproc, local, arg, panic>>

\* The child inherits the priority of its parent and becomes ready.
ForkPublishes(c) ==
  LET np == local[Cur(c)]
      q  == priority[parent[np]]
  IN
  /\ Acquires
  /\ In(c, "copied")
  /\ priority' = [priority EXCEPT ![np] = q]
  /\ MakeRunnable(np, q)
  /\ local' = [local EXCEPT ![Cur(c)] = NULL]
  /\ Goto(Cur(c), "user")
  /\ UNCHANGED <<pid, parent, chan, killed, nextpid, ptlock, wchan, cpuproc, arg>>

(* --------------------------- wait, sleep, wakeup ------------------------- *)

(* The loop of wait() scans the table with the lock held: on the way in from  *)
(* the system call, or each time the process comes back from sleep.           *)
Scanning(c) ==
  /\ panic = "none"
  /\ \/ ptlock = NULL /\ In(c, "kern")
     \/ ptlock = c /\ wchan = NULL /\ In(c, "wait") /\ state[Cur(c)] = "RUNNING"

WaitReaps(c) ==
  LET p == First(Zombies(Cur(c))) IN
  /\ Scanning(c)
  /\ Zombies(Cur(c)) # {}
  /\ pid' = [pid EXCEPT ![p] = 0]
  /\ parent' = [parent EXCEPT ![p] = NULL]
  /\ killed' = [killed EXCEPT ![p] = FALSE]
  /\ state' = [state EXCEPT ![p] = "UNUSED"]
  /\ priority' = [priority EXCEPT ![p] = HI_PRIO]
  /\ rq' = [queue    |-> rq.queue,
            next     |-> [rq.next EXCEPT ![p] = NULL],
            previous |-> [rq.previous EXCEPT ![p] = NULL]]
  /\ ptlock' = NULL
  /\ Goto(Cur(c), "user")
  /\ UNCHANGED <<chan, nextpid, wchan, cpuproc, local, arg, panic>>

\* wait() returns -1: no children, or the process has been killed.
WaitFails(c) ==
  /\ Scanning(c)
  /\ Zombies(Cur(c)) = {}
  /\ Children(Cur(c)) = {} \/ killed[Cur(c)]
  /\ ptlock' = NULL
  /\ Goto(Cur(c), "user")
  /\ UNCHANGED <<table, wchan, cpuproc, local, arg, panic>>

\* sleep(curproc, &ptable.lock)
WaitSleeps(c) ==
  /\ Scanning(c)
  /\ Zombies(Cur(c)) = {}
  /\ Children(Cur(c)) # {} /\ ~killed[Cur(c)]
  /\ chan' = [chan EXCEPT ![Cur(c)] = Cur(c)]
  /\ state' = [state EXCEPT ![Cur(c)] = "SLEEPING"]
  /\ ptlock' = c
  /\ Goto(Cur(c), "wait")
  /\ UNCHANGED <<pid, parent, killed, priority, rq, nextpid, wchan, cpuproc,
                 local, arg, panic>>

\* sleep(chan, lk) with any other lock: lk is released once ptable.lock is held.
Sleep(c, ch) ==
  /\ Acquires
  /\ In(c, "kern")
  /\ chan' = [chan EXCEPT ![Cur(c)] = ch]
  /\ state' = [state EXCEPT ![Cur(c)] = "SLEEPING"]
  /\ ptlock' = c
  /\ Goto(Cur(c), "sleep")
  /\ UNCHANGED <<pid, parent, killed, priority, rq, nextpid, wchan, cpuproc,
                 local, arg, panic>>

\* wakeup(ch), called by a process or by an interrupt handler on any CPU.
Wakeup(c, ch) ==
  /\ Acquires
  /\ ptlock' = c
  /\ wchan' = ch
  /\ UNCHANGED <<table, threads, cpuproc, panic>>

(* One round of the wakeup1() loop.  The lock is held, so nobody falls asleep *)
(* meanwhile and the lowest sleeper left is the next the loop meets.          *)
Wakeup1(c) ==
  LET p == First(Sleepers(wchan)) IN
  /\ panic = "none"
  /\ ptlock = c
  /\ wchan # NULL
  /\ Sleepers(wchan) # {}
  /\ MakeRunnable(p, priority[p])
  /\ UNCHANGED <<pid, parent, chan, killed, priority, nextpid, threads,
                 ptlock, wchan, cpuproc>>

\* The loop is over: back to exit(), or out of wakeup().
WakeupEnds(c) ==
  /\ panic = "none"
  /\ ptlock = c
  /\ wchan # NULL
  /\ Sleepers(wchan) = {}
  /\ wchan' = NULL
  /\ ptlock' = IF In(c, "reparent") \/ In(c, "zombie") THEN c ELSE NULL
  /\ UNCHANGED <<table, threads, cpuproc, panic>>

(* --------------------------- kill and priorities ------------------------- *)

\* Mutant of KillWakes: every process that is not ready or running is queued.
KillWakesAll(p) == state[p] \notin {"RUNNABLE", "RUNNING"}

\* Mutant of KillWakes: kill() marks the process and leaves it asleep.
KillWakesNone(p) == FALSE

KillWakes(p) == state[p] = "SLEEPING"

\* kill(k): the first slot whose pid is k, whatever its state.
Kill(c, k) ==
  LET S == {r \in Slots : pid[r] = k}
      p == First(S)
  IN
  /\ Acquires
  /\ In(c, "kern")
  /\ IF S = {}
     THEN UNCHANGED <<killed, state, rq, panic>>
     ELSE /\ killed' = [killed EXCEPT ![p] = TRUE]
          /\ IF KillWakes(p)
             THEN MakeRunnable(p, priority[p])
             ELSE UNCHANGED <<state, rq, panic>>
  /\ Goto(Cur(c), "user")
  /\ UNCHANGED <<pid, parent, chan, priority, nextpid, ptlock, wchan, cpuproc, local, arg>>

\* setprio(k, q): a ready process moves to the end of its new queue.
Setprio(c, k, q) ==
  LET p   == First(Named(k))
      old == priority[p]
      out == Dequeue(rq, p, old)
  IN
  /\ Acquires
  /\ In(c, "kern")
  /\ IF Named(k) = {} \/ priority[p] = q
     THEN UNCHANGED <<priority, rq, panic>>
     ELSE /\ priority' = [priority EXCEPT ![p] = q]
          /\ IF state[p] = "RUNNABLE"
             THEN /\ rq' = Enqueue(out, p, q)
                  /\ panic' = IF DequeuePanics(rq, p, old) THEN "dequeue"
                              ELSE IF EnqueuePanics(out, p) THEN "enqueue" ELSE panic
             ELSE UNCHANGED <<rq, panic>>
  /\ Goto(Cur(c), "user")
  /\ UNCHANGED <<state, pid, parent, chan, killed, nextpid, ptlock, wchan, cpuproc, local, arg>>

\* getprio(k) finds the process under the lock ...
GetprioFinds(c, k) ==
  /\ Acquires
  /\ In(c, "kern")
  /\ Named(k) # {}
  /\ local' = [local EXCEPT ![Cur(c)] = First(Named(k))]
  /\ arg' = [arg EXCEPT ![Cur(c)] = k]
  /\ Goto(Cur(c), "getprio")
  /\ UNCHANGED <<table, ptlock, wchan, cpuproc, panic>>

\* ... and reads p->priority after releasing it.
GetprioReads(c) ==
  /\ Running(c)
  /\ In(c, "getprio")
  /\ local' = [local EXCEPT ![Cur(c)] = NULL]
  /\ arg' = [arg EXCEPT ![Cur(c)] = 0]
  /\ Goto(Cur(c), "user")
  /\ UNCHANGED <<table, ptlock, wchan, cpuproc, panic>>

(* --------------------------------- exit ---------------------------------- *)

(* exit(), from sys_exit, or from trap() for a process that is marked killed  *)
(* or whose exception marks it.  Files and cwd are released before the lock   *)
(* is taken, which may sleep as any system call does (Sleep); then the        *)
(* wakeup1(parent) loop starts.                                               *)
Exit(c) ==
  LET p == Cur(c) IN
  /\ Acquires
  /\ \/ In(c, "kern") /\ UNCHANGED killed
     \/ In(c, "user") /\ killed' = [killed EXCEPT ![p] = TRUE]
  /\ IF p = initproc
     THEN panic' = "init_exiting" /\ UNCHANGED <<ptlock, wchan, pc>>
     ELSE /\ ptlock' = c
          /\ wchan' = parent[p]
          /\ Goto(p, "reparent")
          /\ UNCHANGED panic
  /\ UNCHANGED <<state, pid, parent, chan, priority, rq, nextpid, cpuproc, local, arg>>

\* Mutant of Adopted: only the children that have exited are passed on.
AdoptedZombies(p) == [r \in Slots |-> IF r \in Zombies(p) THEN initproc ELSE parent[r]]

\* Children pass to initproc.
Adopted(p) == [r \in Slots |-> IF r \in Children(p) THEN initproc ELSE parent[r]]

(* The code calls wakeup1(initproc) for each child that is a zombie; after the *)
(* first call nobody sleeps on that channel, so one loop stands for all.       *)
OrphanWakeup(p) == IF Zombies(p) # {} THEN initproc ELSE NULL

ExitReparents(c) ==
  LET p == Cur(c) IN
  /\ panic = "none"
  /\ ptlock = c
  /\ wchan = NULL
  /\ In(c, "reparent")
  /\ parent' = Adopted(p)
  /\ wchan' = OrphanWakeup(p)
  /\ Goto(p, "zombie")
  /\ UNCHANGED <<state, pid, chan, killed, priority, rq, nextpid, ptlock, cpuproc,
                 local, arg, panic>>

\* The process becomes a zombie; SwitchOut follows.
ExitEnds(c) ==
  LET p == Cur(c) IN
  /\ panic = "none"
  /\ ptlock = c
  /\ wchan = NULL
  /\ In(c, "zombie")
  /\ state' = [state EXCEPT ![p] = "ZOMBIE"]
  /\ Goto(p, "user")
  /\ UNCHANGED <<pid, parent, chan, killed, priority, rq, nextpid, ptlock, wchan,
                 cpuproc, local, arg, panic>>

\* panic() prints and loops for ever with interrupts off; the others freeze.
Halted == panic # "none" /\ UNCHANGED vars

Step(c) ==
  \/ Dispatch(c) \/ SwitchOut(c) \/ Yield(c)
  \/ Syscall(c) \/ Sysret(c)
  \/ AllocProc(c) \/ ForkFails(c) \/ ForkCopies(c) \/ ForkPublishes(c)
  \/ WaitReaps(c) \/ WaitFails(c) \/ WaitSleeps(c)
  \/ \E ch \in Chans : Sleep(c, ch) \/ Wakeup(c, ch)
  \/ Wakeup1(c) \/ WakeupEnds(c)
  \/ \E k \in Targets : Kill(c, k) \/ \E q \in Prio : Setprio(c, k, q)
  \/ \E k \in Queried : GetprioFinds(c, k)
  \/ GetprioReads(c)
  \/ Exit(c) \/ ExitReparents(c) \/ ExitEnds(c)

Next == Halted \/ \E c \in Cpus : Step(c)

Spec == Init /\ [][Next]_vars

(* ------------------------------- properties ------------------------------ *)

Runnable(q) == {p \in Slots : state[p] = "RUNNABLE" /\ priority[p] = q}

\* Every queue is the circular list enqueue/dequeue assume, and it holds exactly
\* the RUNNABLE processes of its priority, each once: none is lost to the
\* scheduler, none is queued while it runs, sleeps or is free.
QueuesHoldRunnable ==
  /\ \A q \in Prio : \E s \in Queues : IsQueue(rq, q, s) /\ Elems(s) = Runnable(q)
  /\ \A p \in Slots : state[p] # "RUNNABLE" => rq.next[p] = NULL /\ rq.previous[p] = NULL

\* enqueue() and dequeue() never reach one of their panics.
NoQueuePanic == panic \in {"none", "init_exiting"}

\* No two CPUs are on the same kernel stack, every RUNNING process is on one, and
\* the process a CPU is on is RUNNING until sched() hands the lock over: it is not
\* reaped by wait() or dispatched elsewhere while its stack is still in use.
StackInUse ==
  /\ \A c \in Cpus : Cur(c) # NULL =>
       /\ \A d \in Cpus : Cur(d) = Cur(c) => d = c
       /\ state[Cur(c)] = "RUNNING" \/ ptlock = c
  /\ \A p \in Slots : state[p] = "RUNNING" => \E c \in Cpus : Cur(c) = p

\* Every fork() in progress has an EMBRYO slot of its own, so that its stores
\* without the lock, to np->state and np->parent, hit no process but its child.
ForkOwnsEmbryo ==
  \A p \in Slots : pc[p] \in {"alloced", "copied"} =>
    /\ local[p] # NULL
    /\ state[local[p]] = "EMBRYO"
    /\ pc[p] = "copied" => parent[local[p]] = p
    /\ \A r \in Slots \ {p} : pc[r] \in {"alloced", "copied"} => local[r] # local[p]

\* Where a kernel thread is agrees with its p->state: a free, new or exited slot
\* has no thread in the kernel, a sleeper is in sleep(), whoever is in the last part
\* of exit() runs and holds the lock.
ThreadMatchesState ==
  \A p \in Slots :
    /\ state[p] \in {"UNUSED", "EMBRYO", "ZOMBIE"} => pc[p] = "user"
    /\ state[p] = "SLEEPING" => pc[p] \in {"wait", "sleep"}
    /\ pc[p] \in {"reparent", "zombie"} =>
         state[p] = "RUNNING" /\ \E c \in Cpus : ptlock = c /\ Cur(c) = p

\* Whoever sleeps in wait() has a child left to wait for, none that has already
\* exited, and has not been killed: exit(), the passing on of orphans to initproc
\* and kill() each wake the process that would otherwise sleep for ever.
WaitMissesNothing ==
  ptlock = NULL => \A p \in Slots :
    state[p] = "SLEEPING" /\ pc[p] = "wait" =>
      Zombies(p) = {} /\ Children(p) # {} /\ ~killed[p]

\* Every process but initproc has a parent that can still call wait() for it.
ParentsLive ==
  ptlock = NULL => \A p \in Slots \ {initproc} :
    state[p] \in {"RUNNABLE", "RUNNING", "SLEEPING", "ZOMBIE"} =>
      /\ parent[p] # NULL
      /\ state[parent[p]] \in {"RUNNABLE", "RUNNING", "SLEEPING"}

\* The legal changes of p->state.
Lifecycle ==
  {<<"UNUSED", "EMBRYO">>, <<"EMBRYO", "RUNNABLE">>, <<"EMBRYO", "UNUSED">>,
   <<"RUNNABLE", "RUNNING">>, <<"RUNNING", "RUNNABLE">>, <<"RUNNING", "SLEEPING">>,
   <<"SLEEPING", "RUNNABLE">>, <<"RUNNING", "ZOMBIE">>, <<"ZOMBIE", "UNUSED">>}

\* A slot only ever takes the changes of state above: fork's unlocked store never
\* frees a slot that is in use, kill() revives nobody, and only wait() frees a zombie.
LifecycleRespected ==
  [][\A p \in Slots : state'[p] = state[p] \/ <<state[p], state'[p]>> \in Lifecycle]_vars

\* scheduler() starts a process of normal priority only when none of high
\* priority is ready, whatever fork, setprio, wakeup and kill did in between.
HighGoesFirst ==
  [][\A p \in Slots : state[p] = "RUNNABLE" /\ state'[p] = "RUNNING" /\ priority[p] = NORM_PRIO
                         => Runnable(HI_PRIO) = {}]_vars

\* The process getprio() found stays in its slot until the read when it is the
\* caller or one of its children: nobody but the caller can reap those.
GetprioOfOwn ==
  [][\A p \in Slots :
       pc[p] = "getprio" /\ pc'[p] = "getprio" /\ local[p] \in Children(p) \cup {p}
         => pid'[local[p]] = pid[local[p]] /\ state'[local[p]] # "UNUSED"]_vars

(* What the holder of the lock is doing goes on, because interrupts are off.  *)
(* A timer interrupt stays pending until it is taken, and the scheduler loop   *)
(* tries again for ever: both happen if they can happen again and again.       *)
Fairness ==
  \A c \in Cpus : /\ WF_vars(ptlock = c /\ Step(c))
                  /\ SF_vars(Dispatch(c))
                  /\ SF_vars(Yield(c))

FairSpec == Spec /\ Fairness

\* A ready process of high priority gets a CPU, unless setprio() demotes it.
HighNotStarved ==
  \A p \in Slots :
    p \in Runnable(HI_PRIO) ~> state[p] = "RUNNING" \/ priority[p] = NORM_PRIO \/ panic # "none"
=============================================================================
