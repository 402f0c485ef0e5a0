------------------------------- MODULE MCTools -------------------------------
(***************************************************************************)
(* The helper processes of the tools, each explored alone from its own     *)
(* initial states: the Code Mode cells and their Python worker, the        *)
(* read-only worker and its client, and what that worker does for a read   *)
(* and a grep.  A behaviour moves one part and leaves the others as they   *)
(* began.                                                                  *)
(***************************************************************************)
EXTENDS Naturals, Sequences, FiniteSets

CONSTANTS
  MaxCells, MaxKids, MaxSteps, MaxCrashes,
  Call, MaxClients, MaxDeaths,
  MaxLines, Widths, LineCap, ByteCap, MaxOutput, PipeCap, Limit

\* A grep is asked for a number of matches (tools/grep.py: Field(ge=1)).
ASSUME LimitIsCount == Limit \in Nat
\* A read may return lines (tools/read.py: READ_MAX_LINES, READ_MAX_BYTES), and
\* a line has a number of bytes.
ASSUME CapsAreCounts == LineCap \in Nat \ {0} /\ ByteCap \in Nat /\ Widths \subseteq Nat

VARIABLES
  part,
  life, tool, cell, lock, proc, kid, left, nested, overflow,
  stage, via, starter, current, client, refused, deaths,
  file, offset, seen, script, wrote, out, err, rg, go, grep

cells == <<life, tool, cell, lock, proc, kid, left, nested, overflow>>
calls == <<stage, via, starter, current, client, refused, deaths>>
work == <<file, offset, seen, script, wrote, out, err, rg, go, grep>>
vars == <<part, cells, calls, work>>

M == INSTANCE CodeMode
W == INSTANCE ReadOnlyWorker
R == INSTANCE ReadOnlyTools

Init ==
  /\ M!Init /\ W!Init
  /\ \/ part \in {"code", "worker"} /\ file = <<1>> /\ R!Init
     \/ part = "read" /\ R!Init
     \/ part = "grep" /\ R!InitGrep

Next ==
  \/ part = "code" /\ M!Next /\ UNCHANGED <<part, calls, work>>
  \/ part = "worker" /\ W!Next /\ UNCHANGED <<part, cells, work>>
  \/ part \in {"read", "grep"} /\ R!Next /\ UNCHANGED <<part, cells, calls>>

Spec == Init /\ [][Next]_vars /\ M!Fairness /\ W!Fairness /\ R!Fairness

\* Nested calls belong to the cell that makes them and end with it (code_mode/).
CellsOwnTheirCalls == M!CellsOwnTheirCalls
\* A cell with a time limit ends (code_mode/service.py).
TimedCellsEnd == M!TimedCellsEnd
\* Calls of the worker end, and fail only for a cause (read_only_worker/client.py).
CallsEndForCause == W!CallsEndForCause
\* Pages cover the file, and limit flags are true (jaca-read-only-worker/main.go).
ResultsAreHonest == R!ResultsAreHonest

\* docs/read-only-worker.md:62: a grep can always go on to its response.
GrepAnswers == R!GrepAnswers
=============================================================================
