----------------------------- MODULE PosixPipes -----------------------------
(* The pipes of the host system, as the programs under src/syscalls use them: *)
(* a bounded stream of bytes, whose ends are held by processes.               *)
EXTENDS Naturals, Sequences, FiniteSetsExt

CONSTANT PIPE_BUF   \* bytes a pipe holds

VARIABLES
  pc,          \* "off", "new" (forked), "run" or "done", for each program
  data,        \* what is in each pipe
  writers,     \* the programs that hold its write end
  readers      \* the programs that hold its read end

posix == <<pc, data, writers, readers>>

Programs == {"parent", "merge", "tee", "exec", "commands"}
Pipes == {1, 2}

PosixInit ==
  /\ pc = [p \in Programs |-> IF p = "parent" THEN "run" ELSE "off"]
  /\ data = [k \in Pipes |-> << >>]
  /\ writers = [k \in Pipes |-> {}] /\ readers = [k \in Pipes |-> {}]

\* A program ends: its descriptors are closed.
Exits(p) ==
  /\ pc' = [pc EXCEPT ![p] = "done"]
  /\ writers' = [k \in Pipes |-> writers[k] \ {p}] /\ readers' = [k \in Pipes |-> readers[k] \ {p}]
  /\ UNCHANGED data

Runs(p) == pc[p] = "run"

\* At most n bytes of s, and those after them.
Take(s, n) == SubSeq(s, 1, Min({n, Len(s)}))
Skip(s, n) == SubSeq(s, n + 1, Len(s))

\* The bytes that a write() of s cannot put into a pipe now.
Rest(k, s) == Skip(s, PIPE_BUF - Len(data[k]))

\* write() of part of s, which waits for room; without readers the writer gets SIGPIPE.
CanWrite(k) == readers[k] # {} /\ Len(data[k]) < PIPE_BUF
Write(k, s) ==
  /\ data' = [data EXCEPT ![k] = Take(@ \o s, PIPE_BUF)]
  /\ UNCHANGED <<pc, writers, readers>>
Broken(k) == readers[k] = {}

\* read() of up to n bytes; at the end of the stream it returns none.
CanRead(k) == data[k] # << >>
Bytes(k, n) == Take(data[k], n)
Read(k, n) == data' = [data EXCEPT ![k] = Skip(@, n)] /\ UNCHANGED <<pc, writers, readers>>
Ended(k) == data[k] = << >> /\ writers[k] = {}
=============================================================================
