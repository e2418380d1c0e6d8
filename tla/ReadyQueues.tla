---------------------------- MODULE ReadyQueues -----------------------------
(* What the scheduler promises, without pointers, locks or CPUs: one first-in *)
(* first-out queue of ready processes per priority, served in order of        *)
(* priority.  Lower numbers go first.                                         *)
EXTENDS Integers, Sequences

CONSTANTS Procs, Prios

VARIABLES ready, running

vars == <<ready, running>>

In(q) == {ready[q][k] : k \in 1..Len(ready[q])}
Queued == UNION {In(q) : q \in Prios}

Init == running = {} /\ \E p \in Procs, q \in Prios :
          ready = [r \in Prios |-> IF r = q THEN <<p>> ELSE <<>>]

\* A process that was running, asleep or is new joins the end of a queue.
Admit(p, q) ==
  /\ p \notin Queued
  /\ ready' = [ready EXCEPT ![q] = Append(@, p)]
  /\ running' = running \ {p}

\* The process that has waited longest at the highest priority starts to run.
Start(q) ==
  /\ ready[q] # <<>>
  /\ \A r \in Prios : r < q => ready[r] = <<>>
  /\ ready' = [ready EXCEPT ![q] = Tail(@)]
  /\ running' = running \cup {Head(ready[q])}

\* A change of priority moves a ready process to the end of the other queue.
Move(k, old, new) ==
  /\ old # new
  /\ k \in 1..Len(ready[old])
  /\ ready' = [ready EXCEPT ![old] = SubSeq(@, 1, k - 1) \o SubSeq(@, k + 1, Len(@)),
                            ![new] = Append(@, ready[old][k])]
  /\ UNCHANGED running

\* A running process sleeps or exits.
Leave(p) ==
  /\ p \in running
  /\ running' = running \ {p}
  /\ UNCHANGED ready

Next ==
  \/ \E p \in Procs : Leave(p) \/ \E q \in Prios : Admit(p, q)
  \/ \E q \in Prios : Start(q) \/ \E r \in Prios : \E k \in 1..Len(ready[q]) : Move(k, q, r)

Spec == Init /\ [][Next]_vars
=============================================================================
