------------------------------ MODULE RunQueue ------------------------------
(* The ready queues of proc.c: for every priority, a circular doubly linked  *)
(* list threaded through the process table.  ptable.queue[q] points to the   *)
(* process to run next; its predecessor is the last one to run.              *)
(*                                                                           *)
(* A value l of RunQueues holds every pointer enqueue() and dequeue() touch: *)
(* the heads and the next/previous fields of all slots.  Slot p stands for   *)
(* &ptable.proc[p-1] and 0 for the null pointer.                             *)
EXTENDS Integers, Sequences

CONSTANT NPROC          \* number of slots of the process table (param.h)

ASSUME NPROCAssumption == NPROC \in Nat \ {0}

NULL == 0
Slots == 1..NPROC
Ptr == Slots \cup {NULL}

HI_PRIO == 0
NORM_PRIO == 1
Prio == {HI_PRIO, NORM_PRIO}

RunQueues == [queue : [Prio -> Ptr], next : [Slots -> Ptr], previous : [Slots -> Ptr]]

EmptyQueues == [queue    |-> [q \in Prio |-> NULL],
                next     |-> [p \in Slots |-> NULL],
                previous |-> [p \in Slots |-> NULL]]

\* enqueue() panics on a process that is linked, wholly or in part.
EnqueuePanics(l, p) == l.previous[p] # NULL \/ l.next[p] # NULL

\* Mutant of Enqueue: the head keeps its old predecessor.
EnqueueOneWay(l, p, q) ==
  LET head == l.queue[q]
      last == l.previous[head]
  IN  IF head = NULL
      THEN [queue    |-> [l.queue EXCEPT ![q] = p],
            next     |-> [l.next EXCEPT ![p] = p],
            previous |-> [l.previous EXCEPT ![p] = p]]
      ELSE [queue    |-> l.queue,
            next     |-> [l.next EXCEPT ![last] = p, ![p] = head],
            previous |-> [l.previous EXCEPT ![p] = last]]

\* Mutant of Enqueue: the process goes to the front.
EnqueueFront(l, p, q) ==
  LET head == l.queue[q]
      last == l.previous[head]
  IN  [queue    |-> [l.queue EXCEPT ![q] = p],
       next     |-> IF head = NULL THEN [l.next EXCEPT ![p] = p]
                    ELSE [l.next EXCEPT ![last] = p, ![p] = head],
       previous |-> IF head = NULL THEN [l.previous EXCEPT ![p] = p]
                    ELSE [l.previous EXCEPT ![p] = last, ![head] = p]]

Enqueue(l, p, q) ==
  LET head == l.queue[q]
      last == l.previous[head]
  IN  IF head = NULL
      THEN [queue    |-> [l.queue EXCEPT ![q] = p],
            next     |-> [l.next EXCEPT ![p] = p],
            previous |-> [l.previous EXCEPT ![p] = p]]
      ELSE [queue    |-> l.queue,
            next     |-> [l.next EXCEPT ![last] = p, ![p] = head],
            previous |-> [l.previous EXCEPT ![p] = last, ![head] = p]]

\* dequeue() panics on an empty queue, an unlinked process or a half-made link.
DequeuePanics(l, p, q) ==
  \/ l.queue[q] = NULL
  \/ l.previous[p] = NULL
  \/ l.next[p] = NULL
  \/ (l.previous[p] = p) # (l.next[p] = p)

Dequeue(l, p, q) ==
  LET before == l.previous[p]
      after  == l.next[p]
  IN  IF before = p /\ after = p
      THEN [queue    |-> [l.queue EXCEPT ![q] = NULL],
            next     |-> [l.next EXCEPT ![p] = NULL],
            previous |-> [l.previous EXCEPT ![p] = NULL]]
      ELSE [queue    |-> [l.queue EXCEPT ![q] = IF @ = p THEN after ELSE @],
            next     |-> [l.next EXCEPT ![before] = after, ![p] = NULL],
            previous |-> [l.previous EXCEPT ![after] = before, ![p] = NULL]]

(* ------------- what the pointers stand for: a sequence per priority ------ *)

Succ(s, i) == IF i = Len(s) THEN 1 ELSE i + 1
Pred(s, i) == IF i = 1 THEN Len(s) ELSE i - 1
Elems(s) == {s[i] : i \in 1..Len(s)}

\* The circular list of priority q is exactly the sequence s, in order.
IsQueue(l, q, s) ==
  /\ \A i, j \in 1..Len(s) : s[i] = s[j] => i = j
  /\ l.queue[q] = IF Len(s) = 0 THEN NULL ELSE s[1]
  /\ \A i \in 1..Len(s) : /\ l.next[s[i]] = s[Succ(s, i)]
                          /\ l.previous[s[i]] = s[Pred(s, i)]

\* All queues are well formed, no process is in two, the others are unlinked.
Represents(l, r) ==
  /\ \A q \in Prio : IsQueue(l, q, r[q])
  /\ Elems(r[HI_PRIO]) \cap Elems(r[NORM_PRIO]) = {}
  /\ \A p \in Slots : (\A q \in Prio : p \notin Elems(r[q])) =>
                         l.next[p] = NULL /\ l.previous[p] = NULL

\* The sequences a queue can be: no process is in it twice, so none is longer.
Queues == UNION {[1..n -> Slots] : n \in 0..NPROC}
=============================================================================
