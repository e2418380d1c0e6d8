---------------------------- MODULE MergeTeeExec ----------------------------
(* merge_tee_exec.c: merge_files | tee LOGFILE | exec_lines.  The program     *)
(* makes the pipes and the processes, and waits for them.                     *)
EXTENDS MergeFiles, ExecLines

CONSTANTS
  Inputs,      \* sequences of the files the program may be given
  BufSizes,    \* values of -t
  NumProcs,    \* values of -p
  MAX_BUFSIZE, \* the limits of the arguments
  MAX_NUMPROC,
  MAX_INPUT_FILES

VARIABLES
  given,       \* the number of files given
  files,       \* those that can be read
  step,        \* what the parent does next
  waited,      \* the children it has waited for
  held,        \* what tee has read and not written
  log          \* LOGFILE

vars == <<posix, merge, exec, given, files, step, waited, held, log>>

Children == {"merge", "tee", "exec"}
Steps == <<"pipe1", "merge", "pipe2", "tee", "close1", "exec", "close2", "wait">>

Init ==
  /\ PosixInit
  /\ \E f \in Inputs : given = Len(f) /\ \E S \in SUBSET DOMAIN f : files = Readable(f, S)
  /\ \E t \in BufSizes : MergeInit(t, files)
  /\ \E n \in NumProcs : ExecInit(n)
  /\ step = 0 /\ waited = {} /\ held = << >> /\ log = << >>

At(s) == Runs("parent") /\ step # 0 /\ Steps[step] = s
Goes == step' = step + 1

\* Neither of the other programs, tee included, takes part.
ParentOnly == UNCHANGED <<merge, exec, given, files, held, log>>

\* The arguments the programs accept: init_configuration() and parse_args().
MergeAccepts == bufsize \in 1..MAX_BUFSIZE /\ given \in 1..MAX_INPUT_FILES
ExecAccepts == numproc \in 1..MAX_NUMPROC

InitConfiguration ==
  /\ Runs("parent") /\ step = 0
  /\ IF MergeAccepts /\ ExecAccepts THEN Goes /\ UNCHANGED posix ELSE Exits("parent") /\ UNCHANGED step
  /\ ParentOnly /\ UNCHANGED waited

\* pipe(), or exit() if it fails.
MakePipe(k) ==
  /\ At(<<"pipe1", "pipe2">>[k])
  /\ \/ /\ writers' = [writers EXCEPT ![k] = {"parent"}]
        /\ readers' = [readers EXCEPT ![k] = {"parent"}]
        /\ Goes /\ UNCHANGED <<pc, data>>
     \/ Exits("parent") /\ UNCHANGED step
  /\ ParentOnly /\ UNCHANGED waited

\* fork(): the child has all the ends that the parent has.
ForkChild(c) ==
  /\ At(c)
  /\ \/ /\ pc' = [pc EXCEPT ![c] = "new"]
        /\ writers' = [k \in Pipes |-> writers[k] \union IF "parent" \in writers[k] THEN {c} ELSE {}]
        /\ readers' = [k \in Pipes |-> readers[k] \union IF "parent" \in readers[k] THEN {c} ELSE {}]
        /\ Goes /\ UNCHANGED data
     \/ Exits("parent") /\ UNCHANGED step
  /\ ParentOnly /\ UNCHANGED waited

ClosePipe(k) ==
  /\ At(<<"close1", "close2">>[k])
  /\ writers' = [writers EXCEPT ![k] = @ \ {"parent"}]
  /\ readers' = [readers EXCEPT ![k] = @ \ {"parent"}]
  /\ Goes
  /\ ParentOnly /\ UNCHANGED <<pc, data, waited>>

WaitChildren ==
  /\ At("wait")
  /\ IF waited = Children THEN Exits("parent") /\ UNCHANGED waited
     ELSE (\E c \in Children \ waited : pc[c] = "done" /\ waited' = waited \union {c}) /\ UNCHANGED posix
  /\ ParentOnly /\ UNCHANGED step

ParentNext ==
  \/ InitConfiguration \/ WaitChildren
  \/ \E k \in Pipes : MakePipe(k) \/ ClosePipe(k)
  \/ \E c \in Children : ForkChild(c)

\* Mutant of Unneeded: tee keeps the write end of the pipe it reads.
UnneededNot(c) == IF c = "exec" THEN {2} ELSE {}

\* The pipes of which a child closes the write end.
Unneeded(c) == CASE c = "merge" -> {} [] c = "tee" -> {1} [] c = "exec" -> {2}

(* The child in merge_files(), tee() and exec_lines(): it closes the ends it  *)
(* does not use and becomes the other program, which is handed the parent's   *)
(* arguments; or execvp() fails, or the program does before it begins.        *)
ChildStarts(c) ==
  /\ pc[c] = "new"
  /\ \/ /\ writers' = [k \in Pipes |-> IF k \in Unneeded(c) THEN writers[k] \ {c} ELSE writers[k]]
        /\ readers' = [k \in Pipes |->
             IF k = (CASE c = "merge" -> 1 [] c = "tee" -> 2 [] c = "exec" -> 0)
             THEN readers[k] \ {c} ELSE readers[k]]
        /\ CASE c = "merge" -> MergeAccepts [] c = "exec" -> ExecAccepts [] c = "tee" -> TRUE
        /\ pc' = [pc EXCEPT ![c] = "run"]
        /\ UNCHANGED data
     \/ Exits(c)
  /\ ParentOnly /\ UNCHANGED <<step, waited>>
-----------------------------------------------------------------------------
\* tee: copies pipe 1 to the log and to pipe 2.
TeeReads ==
  /\ Runs("tee") /\ held = << >>
  /\ IF CanRead(1)
     THEN Read(1, PIPE_BUF) /\ held' = Bytes(1, PIPE_BUF) /\ log' = log \o held'
     ELSE Ended(1) /\ Exits("tee") /\ UNCHANGED <<held, log>>
  /\ UNCHANGED <<merge, exec, given, files, step, waited>>

TeeWrites ==
  /\ Runs("tee") /\ held # << >>
  /\ IF Broken(2) THEN Exits("tee") /\ UNCHANGED held
     ELSE CanWrite(2) /\ Write(2, held) /\ held' = Rest(2, held)
  /\ UNCHANGED <<merge, exec, given, files, step, waited, log>>

Merge == MergeNext /\ UNCHANGED <<exec, given, files, step, waited, held, log>>
Exec == ExecNext /\ UNCHANGED <<merge, given, files, step, waited, held, log>>
Command == CommandEnds /\ UNCHANGED <<merge, given, files, step, waited, held, log>>

Next ==
  \/ ParentNext \/ Merge \/ Exec \/ Command \/ TeeReads \/ TeeWrites
  \/ \E c \in Children : ChildStarts(c)

(* The host runs every program that can go on, and every command ends.        *)
Fairness ==
  /\ WF_vars(ParentNext) /\ WF_vars(Merge) /\ WF_vars(Exec) /\ WF_vars(Command)
  /\ WF_vars(TeeReads \/ TeeWrites) /\ \A c \in Children : WF_vars(ChildStarts(c))

Spec == Init /\ [][Next]_vars /\ Fairness
-----------------------------------------------------------------------------
(* What reaches the log is the lines of the files in turn, through buffers of *)
(* any size and writes of any length (merge_files.c:453); and nothing is left *)
(* in the buffers of merge_files when it ends.                                *)
MergedInOrder ==
  /\ IsPrefix(log \o data[1] \o out \o pending, Merged(files))
  /\ (Remaining = {} /\ out = << >>) => log \o data[1] = Merged(files)

\* The commands of a text.
Commands(s) == SelectSeq(Lines(s), LAMBDA l : \E k \in DOMAIN l : IsGraph(l[k]))

\* Lines without their newlines.
Chomp(ls) == [k \in DOMAIN ls |-> SelectSeq(ls[k], LAMBDA c : c # "\n")]


(* Whatever fails on the way, every process ends: no end of a pipe is left    *)
(* open that another waits to see closed (merge_tee_exec.c:290, 328, 376,     *)
(* 384).                                                                      *)
AllEnd == <>[](running = 0 /\ \A p \in Programs : pc[p] \in {"off", "done"})
=============================================================================
