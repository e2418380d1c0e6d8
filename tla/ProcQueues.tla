----------------------------- MODULE ProcQueues -----------------------------
(* The ready queues of proc.c as ReadyQueues sees them: the linked list of a  *)
(* priority is the sequence of the processes in it.                           *)
EXTENDS Proc

Line(l, q) == CHOOSE s \in Queues : IsQueue(l, q, s)

Abstract == INSTANCE ReadyQueues WITH
  Procs   <- Slots,
  Prios   <- Prio,
  ready   <- [q \in Prio |-> Line(rq, q)],
  running <- {p \in Slots : state[p] = "RUNNING"}

\* The linked lists of proc.c are FIFO queues served by priority: every step of
\* fork, yield, wakeup, kill, setprio and the scheduler is a step of ReadyQueues.
ImplementsReadyQueues == Abstract!Spec
=============================================================================
