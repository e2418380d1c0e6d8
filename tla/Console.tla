------------------------------- MODULE Console -------------------------------
(* The console (console.c) with its input ring and interrupt, and the clock   *)
(* (the timer interrupt of trap.c, sys_sleep and sys_uptime of sysproc.c), on *)
(* the locks, interrupts and context switches of SpinLock.                    *)
(*                                                                            *)
(* What is read or typed under cons.lock is one step.  Characters that the    *)
(* code does not tell apart are one character; the output is left out, since  *)
(* nothing of the kernel depends on it, but not the locks taken for it.       *)
EXTENDS SpinLock, FiniteSetsExt

CONSTANTS
  INPUT_BUF,   \* size of the input ring
  UINT,        \* number of values of an index of the ring, a multiple of INPUT_BUF
  TICKS,       \* number of values of the clock
  MaxEvents,   \* interrupts and characters typed, at most
  Typed,       \* what the keyboard and the serial port deliver
  Calls,       \* the system calls of each process, with their argument
  BOOT         \* the CPU that the I/O APIC sends the console's interrupts to

ASSUME ConsoleAssumption ==
  /\ INPUT_BUF \in Nat \ {0} /\ UINT \in Nat /\ INPUT_BUF < UINT /\ UINT % INPUT_BUF = 0
  /\ TICKS \in Nat /\ BOOT \in Cpus

VARIABLES
  input,       \* the ring: buf, and the read, write and edit indices
  ticks,       \* clock interrupts so far
  events       \* how many interrupts and characters there were

vars == <<lock, cpu, proc, todo, panicked, input, ticks, events>>

\* Arithmetic on the unsigned indices.
Plus(a, n) == (a + n) % UINT
Minus(a, n) == (a + UINT - n) % UINT

\* The indices are wrapping around: as many characters as that takes were typed
\* and all but the last, a line feed, were read.
Init ==
  /\ SpinInit
  /\ input = [buf |-> [i \in 0..(INPUT_BUF - 1) |-> "LF"], r |-> UINT - 1, w |-> 0, e |-> 0]
  /\ ticks = TICKS - 1 /\ events = 0

-----------------------------------------------------------------------------
\* The bound on what comes from outside.
Happens == events < MaxEvents /\ events' = events + 1

(* The console's interrupt.                                                   *)

\* Mutant of Erasable: up to what was not read yet.
ErasableUnread == Minus(input.e, input.r)

\* How many characters were typed and not yet given to the readers.
Erasable == Minus(input.e, input.w)

Erase(n) == [input EXCEPT !.e = Minus(@, n)]

\* Control-U: back to the last line feed, and never into what was given.
KillLine ==
  Erase(Max({n \in 0..Erasable :
               \A i \in 1..n : input.buf[Minus(input.e, i) % INPUT_BUF] # "LF"}))

Room == Minus(input.e, input.r) < INPUT_BUF

\* A carriage return is stored as a line feed.
Entered(ch) == IF ch = "CR" THEN "LF" ELSE ch

\* A line ends here: the readers get it.
Ends(ch) ==
  Entered(ch) \in {"LF", "EOF"} \/ Plus(input.e, 1) = Plus(input.r, INPUT_BUF)

Stored(ch) ==
  LET e1 == Plus(input.e, 1) IN
  [input EXCEPT !.buf[input.e % INPUT_BUF] = Entered(ch), !.e = e1,
                !.w = IF Ends(ch) THEN e1 ELSE @]

\* cprintf() takes the lock of the console for what it prints.
Cprintf == Locked("cons", << >>)

\* procdump() takes no other lock; one line stands for those it prints.
Procdump == Cprintf

\* Mutant of Listing: procdump() is called where control-P is read.
ListingAtOnce(c) == Do(c, Procdump \o <<Op(c)>>)

\* The listing that control-P asks for waits until the lock is released.
Listing(c) == Do(c, <<<<"getc", TRUE>>>>)

ConsoleIntr == <<<<"acquire", "cons">>, <<"getc", FALSE>>>>

\* consoleintr() reads a character; <<"getc", doprocdump>> is its loop.
Getc(c) ==
  /\ At(c, "getc")
  /\ Happens
  /\ \E ch \in Typed :
        \/ /\ ch = "^P"
           /\ Listing(c)
           /\ UNCHANGED input
        \/ /\ ch = "^U"
           /\ input' = KillLine
           /\ UNCHANGED todo
        \/ /\ ch = "^H"
           /\ Erasable # 0
           /\ input' = Erase(1)
           /\ UNCHANGED todo
        \/ /\ ch \notin {"^P", "^U", "^H", "NUL"}
           /\ Room
           /\ input' = Stored(ch)
           /\ IF Ends(ch) THEN Do(c, Wakeup("input.r") \o <<Op(c)>>) ELSE UNCHANGED todo
  /\ UNCHANGED <<lock, cpu, proc, panicked, ticks>>

\* Nothing more was typed.
GetcEnds(c) ==
  /\ At(c, "getc")
  /\ Do(c, <<<<"release", "cons">>>> \o (IF Op(c)[2] THEN Procdump ELSE << >>))
  /\ UNCHANGED <<lock, cpu, proc, panicked, input, ticks, events>>

-----------------------------------------------------------------------------
(* The clock's interrupt.                                                     *)

\* What a timer interrupt does: the boot CPU counts it, and a process yields.
Timer(c) ==
  (IF c = BOOT THEN Locked("tickslock", <<<<"tick">>>> \o Wakeup("ticks")) ELSE << >>)
  \o (IF cpu[c].proc # NONE THEN Yield ELSE << >>)

Tick(c) ==
  /\ At(c, "tick")
  /\ ticks' = (ticks + 1) % TICKS
  /\ Do(c, << >>)
  /\ UNCHANGED <<lock, cpu, proc, panicked, input, events>>

\* A timer interrupt of another CPU's scheduler has no effect and is left out.
Interrupt(c) ==
  /\ \/ Timer(c) # << >> /\ Interrupted(c, Timer(c))
     \/ c = BOOT /\ Interrupted(c, ConsoleIntr)
  /\ Happens
  /\ UNCHANGED <<input, ticks>>

-----------------------------------------------------------------------------
(* System calls.                                                              *)

\* consoleread() of target bytes: <<"read", n, target>> is its loop, with n left.
ConsoleRead(target) == Locked("cons", <<<<"read", target, target>>>>)

ConsoleWrite == Locked("cons", << >>)

SysUptime == Locked("tickslock", << >>)

Entry(call) ==
  CASE call[1] = "read" -> ConsoleRead(call[2])
    [] call[1] = "write" -> ConsoleWrite
    [] call[1] = "sleep" -> Locked("tickslock", <<call>>)
    [] call[1] = "uptime" -> SysUptime
    [] call[1] = "kill" -> Locked("ptable", <<call>>)

Call(c) ==
  LET p == cpu[c].proc IN
  /\ At(c, "user") /\ ~proc[p].killed
  /\ \E call \in Calls[p] : todo' = [todo EXCEPT ![p] = Entry(call)]
  /\ UNCHANGED <<lock, cpu, proc, panicked, input, ticks, events>>

\* A killed process exits when it enters the kernel or is about to leave it.
ExitKilled(c) ==
  /\ At(c, "user") /\ proc[cpu[c].proc].killed
  /\ todo' = [todo EXCEPT ![cpu[c].proc] = Exit]
  /\ UNCHANGED <<lock, cpu, proc, panicked, input, ticks, events>>

\* consoleread() has nothing to read: it ends if the process was killed, and
\* sleeps otherwise.
ReadEmpty(c) ==
  /\ At(c, "read") /\ Op(c)[2] > 0
  /\ input.r = input.w
  /\ Do(c, IF proc[cpu[c].proc].killed THEN << >> ELSE Sleep("input.r", "cons") \o <<Op(c)>>)
  /\ UNCHANGED <<lock, cpu, proc, panicked, input, ticks, events>>

\* consoleread() takes a character, but leaves an end of file that follows others
\* for the next call, which returns 0.
ReadChar(c) ==
  LET n == Op(c)[2]
      ch == input.buf[input.r % INPUT_BUF] IN
  /\ At(c, "read") /\ n > 0
  /\ input.r # input.w
  /\ input' = IF ch = "EOF" /\ n < Op(c)[3] THEN input ELSE [input EXCEPT !.r = Plus(@, 1)]
  /\ Do(c, IF ch = "x" THEN <<<<"read", n - 1, Op(c)[3]>>>> ELSE << >>)
  /\ UNCHANGED <<lock, cpu, proc, panicked, ticks, events>>

ReadDone(c) ==
  /\ At(c, "read") /\ Op(c)[2] = 0
  /\ Do(c, << >>)
  /\ UNCHANGED <<lock, cpu, proc, panicked, input, ticks, events>>

\* sys_sleep(): ticks0 is set, and <<"until", n, ticks0>> is the loop.
SysSleep(c) ==
  /\ At(c, "sleep")
  /\ Do(c, <<<<"until", Op(c)[2], ticks>>>>)
  /\ UNCHANGED <<lock, cpu, proc, panicked, input, ticks, events>>

Early(n, ticks0) == (ticks + TICKS - ticks0) % TICKS < n

SysSleepTests(c) ==
  /\ At(c, "until")
  /\ Do(c, IF Early(Op(c)[2], Op(c)[3]) /\ ~proc[cpu[c].proc].killed
           THEN Sleep("ticks", "tickslock") \o <<Op(c)>> ELSE << >>)
  /\ UNCHANGED <<lock, cpu, proc, panicked, input, ticks, events>>

-----------------------------------------------------------------------------
Step(c) ==
  \/ SpinStep(c) /\ UNCHANGED <<input, ticks, events>>
  \/ Getc(c) \/ GetcEnds(c) \/ Tick(c) \/ Interrupt(c)
  \/ Call(c) \/ ExitKilled(c)
  \/ ReadEmpty(c) \/ ReadChar(c) \/ ReadDone(c)
  \/ SysSleep(c) \/ SysSleepTests(c)

Next == \E c \in Cpus : Step(c)

Spec == Init /\ [][Next]_vars

-----------------------------------------------------------------------------
(* Properties.                                                                *)

Given(k) == [i \in 1..Minus(k.w, k.r) |-> k.buf[Minus(Plus(k.r, i), 1) % INPUT_BUF]]

\* The characters that consoleintr() has given to the readers are a queue across
\* the wrap-around of the ring and of its unsigned indices: editing, typing into
\* a full ring and interrupts in the middle of a read take nothing out of it,
\* change nothing in it and add only at its end; a reader takes the first.
GivenIsQueue ==
  [][LET old == Given(input)
         new == Given(input') IN
     \/ Len(new) >= Len(old) /\ SubSeq(new, 1, Len(old)) = old
     \/ old # << >> /\ new = Tail(old)]_vars

Waiting(p, chan) == proc[p].state = "SLEEPING" /\ proc[p].chan = chan

\* A thread that is on its way to wake up those that sleep on chan.
Waker(chan) ==
  \E t \in Threads : \E i \in DOMAIN todo[t] : todo[t][i] = <<"wakeup1", chan>>

\* No wakeup is lost between the test of a condition and sleep(), although the
\* interrupt may come between any two steps and on another CPU: a process sleeps
\* in consoleread() only while there is nothing to read, and in sys_sleep() only
\* while its time is not over, or else its wakeup() is on the way.
NoWakeupLost ==
  \A p \in Procs :
    /\ Waiting(p, "input.r") => input.r = input.w \/ Waker("input.r")
    /\ Waiting(p, "ticks") =>
         \/ Waker("ticks")
         \/ \E i \in DOMAIN todo[p] :
              todo[p][i][1] = "until" /\ Early(todo[p][i][2], todo[p][i][3])
=============================================================================
