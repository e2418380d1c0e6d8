------------------------------ MODULE ExecLines ------------------------------
(* exec_lines.c: the lines of standard input, which is pipe 2, as commands,   *)
(* each in a process of its own and at most NUMPROC of them at a time.        *)
EXTENDS PosixPipes, SequencesExt, FiniteSets

CONSTANTS READ_SIZE, LINE_SIZE   \* sizes of read_buffer and line

VARIABLES
  numproc,     \* the argument -p
  buf,         \* what is left in read_buffer
  reading,     \* in the loop of read_all()
  at_eof,      \* at_eof of read_character()
  line,        \* the line so far
  phase,       \* "read" a line, "line": it is complete, "last": no more will follow, or "end"
  count,       \* process_count
  running,     \* the commands that run
  zombies,     \* those that have ended and were not waited for
  started      \* history: what execvp() was called with

exec == <<numproc, buf, reading, at_eof, line, phase, count, running, zombies, started>>

ExecInit(n) ==
  /\ numproc = n /\ buf = << >> /\ reading = FALSE /\ at_eof = FALSE /\ line = << >>
  /\ phase = "read" /\ count = 0 /\ running = 0 /\ zombies = 0 /\ started = << >>

\* read_character(): read_all() until the buffer is full or the input ends.
ExecReads ==
  /\ Runs("exec") /\ phase = "read" /\ ~at_eof /\ (reading \/ buf = << >>)
  /\ \/ /\ CanRead(2) /\ Read(2, READ_SIZE - Len(buf))
        /\ buf' = buf \o Bytes(2, READ_SIZE - Len(buf))
        /\ reading' = (Len(buf') < READ_SIZE)
        /\ UNCHANGED at_eof
     \/ Ended(2) /\ at_eof' = TRUE /\ reading' = FALSE /\ UNCHANGED <<posix, buf>>
  /\ UNCHANGED <<numproc, line, phase, count, running, zombies, started>>

\* read_line(): the buffer is full and the line has not ended.
TooLong(s) == Len(s) >= LINE_SIZE


\* read_line(): the end of the input ends a line, the last one.
AtEnd == "last"

\* read_line(): the next character, or the end of the input, which ends the line.
ExecTakes ==
  /\ Runs("exec") /\ phase = "read" /\ ~reading /\ (buf # << >> \/ at_eof)
  /\ LET eof == buf = << >>
         new == Append(line, IF eof THEN "\n" ELSE Head(buf))
     IN  /\ line' = new
         /\ buf' = IF eof THEN buf ELSE Tail(buf)
         /\ IF Last(new) = "\n"
            THEN phase' = (IF eof THEN AtEnd ELSE "line") /\ UNCHANGED posix
            ELSE IF TooLong(new) THEN Exits("exec") /\ UNCHANGED phase
            ELSE UNCHANGED <<posix, phase>>
  /\ UNCHANGED <<numproc, reading, at_eof, count, running, zombies, started>>

IsGraph(c) == c \notin {" ", "\t", "\n"}

\* read_line(): the tokens it counts.
TokenCount(s) == Cardinality({k \in 1..Len(s) : IsGraph(s[k]) /\ (k = 1 \/ ~IsGraph(s[k - 1]))})

\* Mutant of Begins: a tab is taken for the beginning of a token.
BeginsAny(c) == c # " "

\* build_argv(): a character that begins a token.
Begins(c) == IsGraph(c)

(* build_argv(): a token begins at a character that can be seen, and ends at  *)
(* a space or a newline; a tab is neither.                                    *)
BuildArgv(s) ==
  LET Next(a, c) ==
        IF c \in {" ", "\n"} THEN [a EXCEPT !.at_token = FALSE]
        ELSE IF a.at_token THEN [a EXCEPT !.argv[Len(a.argv)] = Append(@, c)]
        ELSE IF Begins(c) THEN [argv |-> Append(a.argv, <<c>>), at_token |-> TRUE]
        ELSE a
  IN  FoldLeft(Next, [argv |-> << >>, at_token |-> FALSE], s).argv

\* wait()
Reaps == zombies > 0 /\ zombies' = zombies - 1 /\ count' = count - 1

\* Mutant of Full: one command more than allowed.
FullLate == count > numproc

Full == count >= numproc

\* execute_lines(): wait if there are as many commands as allowed.
ExecWaits ==
  /\ Runs("exec") /\ phase \in {"line", "last"} /\ Full /\ Reaps
  /\ UNCHANGED <<posix, numproc, buf, reading, at_eof, line, phase, running, started>>

(* execute_lines(): fork(), which may fail, unless the line is blank.  The    *)
(* command has the standard input of its parent.                              *)
ExecForks ==
  /\ Runs("exec") /\ phase \in {"line", "last"} /\ ~Full
  /\ \/ /\ line' = << >> /\ phase' = IF phase = "last" THEN "end" ELSE "read"
        /\ IF TokenCount(line) = 0 THEN UNCHANGED <<posix, count, running, started>>
           ELSE /\ count' = count + 1 /\ running' = running + 1
                /\ started' = Append(started, line)
                /\ pc' = [pc EXCEPT !["commands"] = "run"]
                /\ readers' = [readers EXCEPT ![2] = @ \union {"commands"}]
                /\ UNCHANGED <<data, writers>>
     \/ TokenCount(line) > 0 /\ Exits("exec") /\ UNCHANGED <<line, phase, count, running, started>>
  /\ UNCHANGED <<numproc, buf, reading, at_eof, zombies>>

\* execute_lines(): wait for the commands that are left.
ExecEnds ==
  /\ Runs("exec") /\ phase = "end"
  /\ IF count > 0 THEN Reaps /\ UNCHANGED posix ELSE Exits("exec") /\ UNCHANGED <<count, zombies>>
  /\ UNCHANGED <<numproc, buf, reading, at_eof, line, phase, running, started>>

ExecNext == ExecReads \/ ExecTakes \/ ExecWaits \/ ExecForks \/ ExecEnds

\* A command ends by itself.
CommandEnds ==
  /\ running > 0
  /\ running' = running - 1 /\ zombies' = zombies + 1
  /\ IF running = 1 THEN Exits("commands") ELSE UNCHANGED posix
  /\ UNCHANGED <<numproc, buf, reading, at_eof, line, phase, count, started>>
-----------------------------------------------------------------------------
(* At most NUMPROC commands run at a time, and exec_lines leaves none behind  *)
(* when it has gone through its input: the count is that of its children      *)
(* (exec_lines.c:244, 271).                                                   *)
CommandsBounded ==
  /\ running + zombies <= numproc
  /\ Runs("exec") => count = running + zombies
  /\ (pc["exec"] = "done" /\ phase = "end") => running + zombies = 0

(* No array is written past its end: the line and what was read fit in their  *)
(* buffers, and build_argv() stores no more tokens than read_line() counted,  *)
(* and calloc() made room for, whatever separates them; and at least one, the *)
(* command (exec_lines.c:106, 188, 201, 217).                                 *)
ArraysHold ==
  /\ Len(buf) <= READ_SIZE /\ Len(line) <= LINE_SIZE
  /\ \A k \in DOMAIN started : Len(BuildArgv(started[k])) \in 1..TokenCount(started[k])
=============================================================================
