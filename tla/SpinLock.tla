------------------------------ MODULE SpinLock ------------------------------
(* Spin locks (spinlock.c), the interrupt flag of each CPU and the switch     *)
(* between processes and the scheduler (proc.c), at the grain of one          *)
(* instruction that other CPUs or an interrupt can observe.                   *)
(*                                                                            *)
(* A kernel thread is a process or the scheduler of a CPU, which is named by  *)
(* its CPU.  todo[t] is what thread t has still to do in the kernel, as       *)
(* tuples that start with the name of a step; a process with nothing to do is *)
(* in user mode.  An interrupt puts the steps of its handler, followed by     *)
(* iret, in front of those of the thread it interrupts.  Which RUNNABLE       *)
(* process is next is left open here; Proc has the queues.                    *)
EXTENDS Integers, Sequences, FiniteSets

CONSTANTS
  Cpus,        \* CPUs, and their schedulers
  Procs,       \* processes
  Locks,       \* spin locks, "ptable" among them
  Chans,       \* what processes sleep on
  NONE         \* no CPU, process or channel

ASSUME SpinLockAssumption ==
  Cpus \intersect Procs = {} /\ NONE \notin Cpus \union Procs /\ "ptable" \in Locks

VARIABLES
  lock,        \* lk->cpu if lk->locked, NONE otherwise
  cpu,         \* struct cpu and the interrupt flag of eflags
  proc,        \* state, chan, killed, and intena as sched() saves it
  todo,        \* what each thread has still to do
  panicked     \* panic() was called

lockVars == <<lock, cpu, proc, todo, panicked>>

Threads == Procs \union Cpus

\* Every CPU is about to enter its scheduler and every process about to run for
\* the first time, in forkret(), with the intena that a scheduler has.
SpinInit ==
  /\ lock = [lk \in Locks |-> NONE]
  /\ cpu = [c \in Cpus |-> [ncli |-> 0, intena |-> FALSE, intr |-> FALSE, proc |-> NONE]]
  /\ proc = [p \in Procs |-> [state |-> "RUNNABLE", chan |-> NONE, killed |-> FALSE,
                              intena |-> TRUE]]
  /\ todo = [t \in Threads |-> IF t \in Cpus THEN <<<<"sti">>>> ELSE <<<<"release", "ptable">>>>]
  /\ panicked = FALSE

-----------------------------------------------------------------------------
\* The thread that runs on CPU c: myproc(), or the scheduler when that is 0.
Running(c) == IF cpu[c].proc = NONE THEN c ELSE cpu[c].proc

\* What comes next on CPU c.
Op(c) == IF todo[Running(c)] = << >> THEN <<"user">> ELSE Head(todo[Running(c)])

At(c, op) == ~panicked /\ Op(c)[1] = op

\* The step that comes next on CPU c is done and these come in its place.
Do(c, steps) == todo' = [todo EXCEPT ![Running(c)] = steps \o Tail(@)]

\* These steps, with lock lk held.
Locked(lk, steps) == <<<<"acquire", lk>>>> \o steps \o <<<<"release", lk>>>>

PanicIf(condition) == panicked' = condition

-----------------------------------------------------------------------------
\* Interrupts go off; the first pushcli() notes whether they were on.
Pushcli(k) ==
  [k EXCEPT !.ncli = @ + 1, !.intena = IF k.ncli = 0 THEN k.intr ELSE @, !.intr = FALSE]

\* Interrupts come back with the last popcli(), if they were on before the first.
Popcli(k) == [k EXCEPT !.ncli = @ - 1, !.intr = k.ncli = 1 /\ k.intena]

Holding(c, lk) == lock[lk] = c

\* acquire(): the lock is taken if the first xchg() finds it free.
Acquire(c) ==
  LET lk == Op(c)[2] IN
  /\ At(c, "acquire")
  /\ cpu' = [cpu EXCEPT ![c] = Pushcli(@)]
  /\ PanicIf(Holding(c, lk))
  /\ IF lock[lk] = NONE
       THEN lock' = [lock EXCEPT ![lk] = c] /\ Do(c, << >>)
       ELSE Do(c, <<<<"xchg", lk>>>>) /\ UNCHANGED lock
  /\ UNCHANGED proc

\* A later xchg() that finds it free; those that do not change nothing.
Xchg(c) ==
  /\ At(c, "xchg")
  /\ lock[Op(c)[2]] = NONE
  /\ lock' = [lock EXCEPT ![Op(c)[2]] = c]
  /\ Do(c, << >>)
  /\ UNCHANGED <<cpu, proc, panicked>>

Release(c) ==
  /\ At(c, "release")
  /\ PanicIf(~Holding(c, Op(c)[2]) \/ cpu[c].intr \/ cpu[c].ncli = 0)
  /\ lock' = [lock EXCEPT ![Op(c)[2]] = NONE]
  /\ cpu' = [cpu EXCEPT ![c] = Popcli(@)]
  /\ Do(c, << >>)
  /\ UNCHANGED proc

-----------------------------------------------------------------------------
\* The scheduler lets interrupts in before it looks for a process.
Sti(c) ==
  /\ At(c, "sti")
  /\ cpu' = [cpu EXCEPT ![c].intr = TRUE]
  /\ Do(c, Locked("ptable", <<<<"pick">>>>) \o <<<<"sti">>>>)
  /\ UNCHANGED <<lock, proc, panicked>>

Runnable == {p \in Procs : proc[p].state = "RUNNABLE"}

\* Mutant of Resumed: intena stays as the scheduler of this CPU left it.
ResumedKeeps(k, p) == k.intena

\* The intena with which process p goes on, on CPU k: sched() restores its own.
Resumed(k, p) == proc[p].intena

\* The scheduler switches to a process.
Pick(c) ==
  /\ At(c, "pick")
  /\ \E p \in Runnable :
        /\ proc' = [proc EXCEPT ![p].state = "RUNNING", ![p].chan = NONE]
        /\ cpu' = [cpu EXCEPT ![c].proc = p, ![c].intena = Resumed(cpu[c], p)]
  /\ Do(c, << >>)
  /\ UNCHANGED <<lock, panicked>>

\* It finds none.
PickNone(c) ==
  /\ At(c, "pick")
  /\ Runnable = {}
  /\ Do(c, << >>)
  /\ UNCHANGED <<lock, cpu, proc, panicked>>

\* The process leaves state RUNNING for that of <<"sched", state, chan>> and
\* sched() gives the CPU, and ptable.lock, back to the scheduler.
Sched(c) ==
  LET p == cpu[c].proc IN
  /\ At(c, "sched")
  /\ PanicIf(~Holding(c, "ptable") \/ cpu[c].ncli # 1 \/ cpu[c].intr)
  /\ proc' = [proc EXCEPT ![p].state = Op(c)[2], ![p].chan = Op(c)[3],
                          ![p].intena = cpu[c].intena]
  /\ cpu' = [cpu EXCEPT ![c].proc = NONE]
  /\ Do(c, << >>)
  /\ UNCHANGED lock

-----------------------------------------------------------------------------
\* Mutants of Sleep: the lock is given up before ptable.lock is held; it is
\* taken back before ptable.lock is given up.
SleepUnlocked(chan, lk) ==
  <<<<"release", lk>>, <<"acquire", "ptable">>, <<"sched", "SLEEPING", chan>>,
    <<"release", "ptable">>, <<"acquire", lk>>>>
SleepCrossed(chan, lk) ==
  <<<<"acquire", "ptable">>, <<"release", lk>>, <<"sched", "SLEEPING", chan>>,
    <<"acquire", lk>>, <<"release", "ptable">>>>

\* The steps of sleep(chan, lk), for a lock other than ptable.lock.
Sleep(chan, lk) ==
  <<<<"acquire", "ptable">>, <<"release", lk>>, <<"sched", "SLEEPING", chan>>,
    <<"release", "ptable">>, <<"acquire", lk>>>>

Wakeup(chan) == Locked("ptable", <<<<"wakeup1", chan>>>>)

Woken(q, chan) == proc[q].state = "SLEEPING" /\ proc[q].chan = chan

Wakeup1(c) ==
  /\ At(c, "wakeup1")
  /\ proc' = [q \in Procs |-> IF Woken(q, Op(c)[2])
                              THEN [proc[q] EXCEPT !.state = "RUNNABLE"] ELSE proc[q]]
  /\ Do(c, << >>)
  /\ UNCHANGED <<lock, cpu, panicked>>

Yield == Locked("ptable", <<<<"sched", "RUNNABLE", NONE>>>>)

\* kill() of process Op(c)[2], which wakes it whatever it waits for.
Kill(c) ==
  /\ At(c, "kill")
  /\ proc' = [proc EXCEPT ![Op(c)[2]].killed = TRUE,
                          ![Op(c)[2]].state = IF @ = "SLEEPING" THEN "RUNNABLE" ELSE @]
  /\ Do(c, << >>)
  /\ UNCHANGED <<lock, cpu, panicked>>

\* exit() of a killed process, as far as this module sees it.
Exit == <<<<"acquire", "ptable">>, <<"sched", "ZOMBIE", NONE>>>>

-----------------------------------------------------------------------------
\* An interrupt, whose gate turns interrupts off: the thread goes on with these
\* steps and then returns to what it was doing.
Interrupted(c, handler) ==
  /\ ~panicked /\ cpu[c].intr
  /\ cpu' = [cpu EXCEPT ![c].intr = FALSE]
  /\ todo' = [todo EXCEPT ![Running(c)] = handler \o <<<<"iret">>>> \o @]
  /\ UNCHANGED <<lock, proc, panicked>>

\* The iret of a handler restores the eflags of the interrupted thread.
Iret(c) ==
  /\ At(c, "iret")
  /\ cpu' = [cpu EXCEPT ![c].intr = TRUE]
  /\ Do(c, << >>)
  /\ UNCHANGED <<lock, proc, panicked>>

SpinStep(c) ==
  \/ Acquire(c) \/ Xchg(c) \/ Release(c)
  \/ Sti(c) \/ Pick(c) \/ PickNone(c) \/ Sched(c)
  \/ Wakeup1(c) \/ Kill(c) \/ Iret(c)

-----------------------------------------------------------------------------
(* Properties.                                                                *)

\* The panics of acquire(), release(), popcli() and sched() are not reached: no
\* CPU takes a lock it has or gives one it has not, and a process gives up the
\* CPU with ptable.lock and nothing else, whatever interrupted it before.
NoPanic == ~panicked

InHandler(t) == \E i \in DOMAIN todo[t] : todo[t][i] = <<"iret">>

\* Interrupts are on exactly where they should be (pushcli(), popcli() and the
\* intena that sched() carries from CPU to CPU): never with a lock held or spun
\* for, although ptable.lock is taken by one thread and released by another, never
\* in an interrupt handler even after its process was away in yield(), and again
\* as soon as neither is the case, but for a scheduler on its way to sti().
InterruptsAsDue ==
  \A c \in Cpus :
    LET due == /\ \A lk \in Locks : lock[lk] # c
               /\ Op(c)[1] # "xchg"
               /\ ~InHandler(Running(c))
    IN
    (cpu[c].intr => due) /\ (due => cpu[c].intr \/ Op(c)[1] = "sti")

\* No CPUs spin in acquire() for locks that only they hold: not one CPU for its
\* own, in a handler that interrupted the holder, nor two for each other's.
SpinsEnd ==
  \A S \in SUBSET Cpus \ {{}} :
     \E c \in S : Op(c)[1] = "xchg" => lock[Op(c)[2]] \notin S
=============================================================================
