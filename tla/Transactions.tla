---------------------------- MODULE Transactions ----------------------------
(* What the log promises to the file system: the writes of the operations    *)
(* that overlap reach the disk all together, at a moment when none is in      *)
(* progress, or not at all.                                                   *)

CONSTANTS Blocks, Vals, Ops

VARIABLES
  durable,   \* what a machine that crashed now would come up with
  current,   \* what the operations see
  active     \* the operations in progress

vars == <<durable, current, active>>

Init ==
  /\ \E v \in Vals : durable = [b \in Blocks |-> v]
  /\ current = durable
  /\ active = {}

Begin(o) ==
  /\ o \notin active
  /\ active' = active \cup {o}
  /\ UNCHANGED <<durable, current>>

Write(o, b, v) ==
  /\ o \in active
  /\ current' = [current EXCEPT ![b] = v]
  /\ UNCHANGED <<durable, active>>

End(o) ==
  /\ o \in active
  /\ active' = active \ {o}
  /\ UNCHANGED <<durable, current>>

Commit ==
  /\ active = {}
  /\ durable' = current
  /\ UNCHANGED <<current, active>>

Crash ==
  /\ current' = durable
  /\ active' = {}
  /\ UNCHANGED durable

Next ==
  \/ \E o \in Ops : Begin(o) \/ End(o) \/ \E b \in Blocks, v \in Vals : Write(o, b, v)
  \/ Commit
  \/ Crash

Spec == Init /\ [][Next]_vars
=============================================================================
