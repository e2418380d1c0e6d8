------------------------------- MODULE Memory -------------------------------
(* What the address spaces promise to processes: each has a memory of its     *)
(* own, of a size in bytes, whose pages keep what was last stored in them.    *)
(* Memory a process gains is zero, a child starts with a copy, and nothing a  *)
(* process does changes the memory of another.                                *)
EXTENDS Naturals

CONSTANTS
  Procs,       \* processes
  PGSIZE,      \* bytes in a page
  Vpns,        \* the pages of an address space
  Programs     \* what exec() may leave in it: records like those of memory

VARIABLE memory   \* [size, page] for every process, NoMemory for slots not in use

NoMemory == [size |-> 0, page |-> [v \in Vpns |-> "zero"]]

\* The pages at or above the size read as zero when the process gets them back.
Cut(page, size) == [v \in Vpns |-> IF v * PGSIZE < size THEN page[v] ELSE "zero"]

Init ==
  \E p \in Procs, m \in Programs : memory = [q \in Procs |-> IF q = p THEN m ELSE NoMemory]

Store(p, v) ==
  /\ v * PGSIZE < memory[p].size
  /\ memory' = [memory EXCEPT ![p].page[v] = "data"]

\* The process gets some other size.
Resize(p) ==
  LET size == memory'[p].size
  IN  memory' = [memory EXCEPT ![p] = [size |-> size, page |-> Cut(memory[p].page, size)]]

\* Only growproc() to no bytes at all, which it takes for a failure.
Clear(p) == memory' = [memory EXCEPT ![p].page = NoMemory.page]

Fork(p, q) == memory[q] = NoMemory /\ memory' = [memory EXCEPT ![q] = memory[p]]
Exec(p) == \E m \in Programs : memory' = [memory EXCEPT ![p] = m]
Exit(p) == memory' = [memory EXCEPT ![p] = NoMemory]

Next == \E p \in Procs :
  \/ \E v \in Vpns : Store(p, v)
  \/ \E q \in Procs : Fork(p, q)
  \/ Resize(p) \/ Clear(p) \/ Exec(p) \/ Exit(p)

Spec == Init /\ [][Next]_memory
=============================================================================
