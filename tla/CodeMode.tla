------------------------------ MODULE CodeMode ------------------------------
(***************************************************************************)
(* Code Mode: the cells the model starts with "exec" and polls or ends     *)
(* with "wait", and the Python worker their source runs in.                *)
(*                                                                         *)
(* A cell is a task of the backend.  It takes the runtime's lock, starts   *)
(* the worker when there is none, sends it the source and then serves its  *)
(* messages one at a time: output, a nested tool call, the result or an    *)
(* error.  The worker outlives the cell, and so does whatever a cell left  *)
(* unread in its pipe.  A message longer than the stream limit cannot be   *)
(* read: readline drops what it holds and raises, and the cell fails while *)
(* its source goes on in the worker.                                       *)
(***************************************************************************)
EXTENDS Naturals, Sequences, FiniteSets

CONSTANTS
  MaxCells,    \* cells the model starts in one run
  MaxKids,     \* worker processes
  MaxSteps,    \* messages one source sends before its result
  MaxCrashes   \* workers that die by themselves

VARIABLES
  life,      \* "on" while the run lasts, "over" afterwards
  tool,      \* the exec or wait call in progress: [op, cell]
  cell,      \* cell -> [state, task, timed, kid, ends]; the record and its task
  lock,      \* the cell that holds the runtime's lock, or None
  proc,      \* the worker the runtime knows (_process), or None
  kid,       \* worker -> [alive, cell, asking, in, out]
  left,      \* cell -> steps its source may still take
  nested,    \* nested tool calls carried out: <<of, under>>
  overflow   \* workers whose pipe held a line over the limit

vars == <<life, tool, cell, lock, proc, kid, left, nested, overflow>>

Cells == 1..MaxCells
Kids == 1..MaxKids
None == 0

NoTool == [op |-> "none", cell |-> None]
Ended == {"completed", "failed", "terminated"}
Message(kind, c) == [kind |-> kind, of |-> c]

NoKid == [alive |-> FALSE, cell |-> None, asking |-> FALSE, in |-> <<>>, out |-> <<>>]

Init ==
  /\ life = "on" /\ tool = NoTool
  /\ cell = [c \in Cells |-> [state |-> "none", task |-> "none", timed |-> FALSE, kid |-> None,
                             ends |-> "none"]]
  /\ lock = None /\ proc = None
  /\ kid = [k \in Kids |-> NoKid]
  /\ left = [c \in Cells |-> MaxSteps]
  /\ nested = {} /\ overflow = {}

-----------------------------------------------------------------------------
\* The cell table and the model's two tools

InTable(c) == cell[c].state \notin {"none", "gone"}
Live(c) == cell[c].task \notin {"none", "done"}

\* exec: the record enters the table and its task is scheduled; without a
\* budget to wait for, the call returns the cell as yielded at once.
StartCell(c, timed, waits) ==
  /\ life = "on" /\ tool = NoTool
  /\ cell[c].state = "none" /\ \A d \in 1..(c - 1) : cell[d].state # "none"
  /\ cell' = [cell EXCEPT ![c] = [state |-> IF waits THEN "running" ELSE "yielded",
                                  task |-> "queued", timed |-> timed, kid |-> None,
                                  ends |-> "none"]]
  /\ tool' = IF waits THEN [op |-> "wait", cell |-> c] ELSE NoTool
  /\ UNCHANGED <<life, lock, proc, kid, left, nested, overflow>>

\* Slip: a cancelled cell releases the worker instead of discarding it.
CancelledKeeping(c, state) ==
  /\ cell' = [cell EXCEPT ![c].task = "done", ![c].state = state]
  /\ lock' = IF lock = c THEN None ELSE lock
  /\ UNCHANGED proc

\* A task that is cancelled: with a worker at hand it discards that worker
\* first, and the lock is held until the worker is gone.
Cancelled(c, state) ==
  IF cell[c].task \in {"serving", "nested"}
  THEN /\ cell' = [cell EXCEPT ![c].task = "closing", ![c].ends = state]
       /\ proc' = IF proc = cell[c].kid THEN None ELSE proc
       /\ UNCHANGED lock
  ELSE /\ cell' = [cell EXCEPT ![c].task = "done", ![c].state = state]
       /\ lock' = IF lock = c THEN None ELSE lock
       /\ UNCHANGED proc

\* wait: an ended cell is reported and leaves the table; a live one is
\* waited for, or cancelled first when the model asks for its end.
WaitCell(c, kill) ==
  /\ life = "on" /\ tool = NoTool /\ InTable(c)
  /\ IF cell[c].state \in Ended
     THEN /\ cell' = [cell EXCEPT ![c].state = "gone"]
          /\ UNCHANGED <<tool, lock, proc>>
     ELSE /\ tool' = [op |-> IF kill THEN "kill" ELSE "wait", cell |-> c]
          /\ IF kill /\ cell[c].task # "closing" /\ Live(c)
             THEN Cancelled(c, cell[c].state) ELSE UNCHANGED <<cell, lock, proc>>
  /\ UNCHANGED <<life, kid, left, nested, overflow>>

\* The call returns: the cell has ended and leaves the table, or its budget
\* is used up and the cell is yielded.
WaitReturns ==
  /\ tool # NoTool
  /\ LET c == tool.cell IN
     IF cell[c].task = "done"
     THEN cell' = [cell EXCEPT ![c].state = "gone"]
     ELSE /\ tool.op = "wait"
          /\ cell' = [cell EXCEPT ![c].state = IF @ = "running" THEN "yielded" ELSE @]
  /\ tool' = NoTool
  /\ UNCHANGED <<life, lock, proc, kid, left, nested, overflow>>

\* The run ends, or is cancelled, whatever its cells are doing: nothing
\* closes the runtime (the call in run.py is never reached).
RunEnds ==
  /\ life = "on" /\ life' = "over" /\ tool' = NoTool
  /\ UNCHANGED <<cell, lock, proc, kid, left, nested, overflow>>

-----------------------------------------------------------------------------
\* The cell's task

Ending(c, state) ==
  cell' = [cell EXCEPT ![c].task = "done", ![c].state = state]

\* The runtime's lock is free.  A worker that is there and alive is sent the
\* source; otherwise one is started.
TakeLock(c) ==
  /\ cell[c].task = "queued" /\ lock = None
  /\ lock' = c
  /\ IF proc # None /\ kid[proc].alive
     THEN /\ cell' = [cell EXCEPT ![c].task = "serving", ![c].kid = proc]
          /\ kid' = [kid EXCEPT ![proc].in = Append(@, c)]
     ELSE \E k \in Kids :
            /\ kid[k] = NoKid /\ k \notin overflow /\ \A d \in Cells : cell[d].kid # k
            /\ \A j \in 1..(k - 1) : kid[j] # NoKid \/ \E d \in Cells : cell[d].kid = j
            /\ cell' = [cell EXCEPT ![c].task = "starting", ![c].kid = k]
            /\ kid' = [kid EXCEPT ![k].alive = TRUE]
  /\ UNCHANGED <<life, tool, proc, left, nested, overflow>>

\* The worker has been sent its first line and becomes the runtime's.
Started(c) ==
  /\ cell[c].task = "starting"
  /\ proc' = cell[c].kid
  /\ kid' = [kid EXCEPT ![cell[c].kid].in = Append(@, c)]
  /\ cell' = [cell EXCEPT ![c].task = "serving"]
  /\ UNCHANGED <<life, tool, lock, left, nested, overflow>>

\* One message of the worker.  A line over the limit is cut: the rest of it
\* may still be in the pipe.
Serve(c) ==
  LET k == cell[c].kid  m == Head(kid[k].out)
      rest == IF m.kind = "long" THEN {Tail(kid[k].out), <<Message("rest", m.of)>> \o Tail(kid[k].out)}
              ELSE {Tail(kid[k].out)}
  IN /\ cell[c].task = "serving" /\ kid[k].out # <<>>
     /\ \E o \in rest : kid' = [kid EXCEPT ![k].out = o]
     /\ overflow' = IF m.kind = "long" THEN overflow \cup {k} ELSE overflow
     /\ \/ /\ m.kind = "tool_call"
           /\ cell' = [cell EXCEPT ![c].task = "nested"]
           /\ nested' = nested \cup {<<m.of, c>>} /\ UNCHANGED lock
        \/ /\ m.kind = "result" /\ m.of = c
           /\ Ending(c, "completed") /\ lock' = None /\ UNCHANGED nested
        \/ /\ m.kind # "result" => m.kind \in {"error", "long", "rest"}
           /\ m.kind = "result" => m.of # c
           /\ Ending(c, "failed") /\ lock' = None /\ UNCHANGED nested
     /\ UNCHANGED <<life, tool, proc, left>>

\* The nested tool has ended; its result or its error goes to the worker.
NestedEnds(c) ==
  /\ cell[c].task = "nested"
  /\ cell' = [cell EXCEPT ![c].task = "serving"]
  /\ kid' = [kid EXCEPT ![cell[c].kid].asking = FALSE]
  /\ UNCHANGED <<life, tool, lock, proc, left, nested, overflow>>

\* End of the pipe: the worker has exited, which fails the cell.
PipeEnds(c) ==
  /\ cell[c].task = "serving"
  /\ ~kid[cell[c].kid].alive /\ kid[cell[c].kid].out = <<>>
  /\ Ending(c, "failed") /\ lock' = None /\ proc' = None
  /\ UNCHANGED <<life, tool, kid, left, nested, overflow>>

\* Slip: the limit is on the wait for the lock only.
TimesOutQueued(c) ==
  /\ cell[c].timed /\ cell[c].task = "queued"
  /\ Cancelled(c, "failed")
  /\ UNCHANGED <<life, tool, kid, left, nested, overflow>>

\* The cell's own time is up, wherever its task is.
TimesOut(c) ==
  /\ cell[c].timed /\ Live(c) /\ cell[c].task # "closing"
  /\ ~(tool.op = "kill" /\ tool.cell = c)
  /\ Cancelled(c, "failed")
  /\ UNCHANGED <<life, tool, kid, left, nested, overflow>>

\* The discarded worker is gone and the task ends.
Closed(c) ==
  /\ cell[c].task = "closing"
  /\ cell' = [cell EXCEPT ![c].task = "done", ![c].state = cell[c].ends]
  /\ kid' = [kid EXCEPT ![cell[c].kid].alive = FALSE]
  /\ lock' = None
  /\ UNCHANGED <<life, tool, proc, left, nested, overflow>>

-----------------------------------------------------------------------------
\* The worker: one source at a time, one nested call at a time

Says(k, message) == [kid EXCEPT ![k].out = Append(@, message)]

TakeSource(k) ==
  /\ kid[k].alive /\ kid[k].cell = None /\ kid[k].in # <<>>
  /\ kid' = [kid EXCEPT ![k].cell = Head(kid[k].in), ![k].in = Tail(@)]
  /\ UNCHANGED <<life, tool, cell, lock, proc, left, nested, overflow>>

\* Output within the limit only adds to what the cell reports, and is left out.
SourceStep(k) ==
  LET c == kid[k].cell IN
  /\ kid[k].alive /\ c # None /\ ~kid[k].asking /\ left[c] > 0
  /\ left' = [left EXCEPT ![c] = @ - 1]
  /\ \/ kid' = Says(k, Message("long", c))
     \/ kid' = [Says(k, Message("tool_call", c)) EXCEPT ![k].asking = TRUE]
  /\ UNCHANGED <<life, tool, cell, lock, proc, nested, overflow>>

SourceEnds(k) ==
  /\ kid[k].alive /\ kid[k].cell # None /\ ~kid[k].asking
  /\ \E kind \in {"result", "error"} :
       kid' = [Says(k, Message(kind, kid[k].cell)) EXCEPT ![k].cell = None]
  /\ UNCHANGED <<life, tool, cell, lock, proc, left, nested, overflow>>

Crash(k) ==
  /\ kid[k].alive
  /\ Cardinality({j \in Kids : ~kid[j].alive /\ kid[j] # NoKid}) < MaxCrashes
  /\ kid' = [kid EXCEPT ![k].alive = FALSE]
  /\ UNCHANGED <<life, tool, cell, lock, proc, left, nested, overflow>>

-----------------------------------------------------------------------------
Task(c) == TakeLock(c) \/ Started(c) \/ Serve(c) \/ NestedEnds(c) \/ PipeEnds(c)
             \/ TimesOut(c) \/ Closed(c)
Worker(k) == TakeSource(k) \/ SourceStep(k) \/ SourceEnds(k) \/ Crash(k)

Next ==
  \/ \E c \in Cells, timed \in BOOLEAN, waits \in BOOLEAN : StartCell(c, timed, waits)
  \/ \E c \in Cells, kill \in BOOLEAN : WaitCell(c, kill)
  \/ WaitReturns \/ RunEnds
  \/ \E c \in Cells : Task(c)
  \/ \E k \in Kids : Worker(k)

\* A cell's time runs out, and a discarded worker is killed at the latest.
Fairness == \A c \in Cells : WF_vars(TimesOut(c)) /\ WF_vars(Closed(c))

Spec == Init /\ [][Next]_vars /\ Fairness

-----------------------------------------------------------------------------
(* A cell with a time limit ends, whatever its source does and whoever     *)
(* holds the lock.                                                         *)
TimedCellsEnd ==
  \A c \in Cells : cell[c].timed /\ Live(c) ~> ~Live(c)

(* A nested call runs as part of the cell whose source made it, and no new  *)
(* one comes from a cell the model was told has ended, unless a worker's   *)
(* pipe held a line over the limit: cancelling, timing out and failing     *)
(* leave nothing in the pipe, and no source running, for a later cell.     *)
CellsOwnTheirCalls ==
  [][overflow' = {} =>
       \A call \in nested' :
         /\ call[1] = call[2]
         /\ call \notin nested => cell[call[1]].state # "gone"]_vars

(* docs/code-mode.md:84-88 and docs/contracts.md:601: nested activity      *)
(* belongs to the exec call whose cell made it.  Refuted: the limit on a   *)
(* line is 64 KiB, and a later cell serves what an earlier one left.       *)
CallsRunAsTheirCell == \A call \in nested : call[1] = call[2]

(* docs/code-mode.md:193 "Runtime resources are closed at run cleanup."    *)
(* Refuted: a yielded cell goes on, and calls tools, after its run.        *)
QuietAfterRun == [][life = "over" => nested' = nested]_vars
=============================================================================
