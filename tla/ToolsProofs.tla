----------------------------- MODULE ToolsProofs ------------------------------
(***************************************************************************)
(* What holds of the tools' helper processes for any number of cells,      *)
(* workers, calls, deaths and lines.                                       *)
(*                                                                         *)
(* Code Mode: a nested call is carried out for the cell whose source made  *)
(* it.  The invariant follows what each worker process still holds of a    *)
(* source; that holds as long as no line was over the limit of the pipe.   *)
(*                                                                         *)
(* What the read-only worker says of its results is true: the pages of a   *)
(* file cover it, and a grep's limit flag is set when there was more.  Its *)
(* client: a call fails only for a cause of its worker's.                  *)
(***************************************************************************)
EXTENDS MCTools, SequenceTheorems, WellFoundedInduction, TLAPS

-----------------------------------------------------------------------------
(* Code Mode                                                               *)

\* What a cell, its task, a message and a worker may be.
State == {"none", "running", "yielded", "gone"} \cup M!Ended
Holding == {"starting", "serving", "nested", "closing"}
Task == {"none", "queued", "done"} \cup Holding
Message == [kind : {"long", "rest", "tool_call", "result", "error"}, of : M!Cells]
CellShape == [state : State, task : Task, timed : BOOLEAN, kid : M!Kids \cup {M!None}, ends : State]
KidShape == [alive : BOOLEAN, cell : M!Cells \cup {M!None}, asking : BOOLEAN,
             in : Seq(M!Cells), out : Seq(Message)]

CodeTyped ==
  /\ cell \in [M!Cells -> CellShape] /\ kid \in [M!Kids -> KidShape]
  /\ lock \in M!Cells \cup {M!None} /\ proc \in M!Kids \cup {M!None}
  /\ tool = M!NoTool \/ tool.cell \in M!Cells

\* The cells that are served by the worker.
Served == {c \in M!Cells : cell[c].task \in {"serving", "nested"}}

\* One task at a time is beyond the lock, and it serves the runtime's worker.
LockTracked ==
  \A c \in M!Cells :
    /\ cell[c].task \in Holding => lock = c /\ cell[c].kid \in M!Kids
    /\ c \in Served => proc = cell[c].kid

\* A cell that is not in the table, or has ended, has no task.
StatesTracked ==
  \A c \in M!Cells :
    /\ cell[c].state = "none" => cell[c].task = "none"
    /\ cell[c].state \in M!Ended \cup {"gone"} => cell[c].task = "done"
    /\ cell[c].task = "closing" => cell[c].ends # "none"

\* The workers that hold nothing of any source.
Clean == {k \in M!Kids : kid[k].cell = M!None /\ kid[k].in = <<>> /\ kid[k].out = <<>>}

\* The workers that hold only that cell's source; its end is its last word.
Owned == [c \in M!Cells |->
  {k \in M!Kids :
    /\ kid[k].cell \in {M!None, c} /\ kid[k].in \in {<<>>, <<c>>}
    /\ kid[k].in # <<>> => kid[k].cell = M!None /\ kid[k].out = <<>>
    /\ \A i \in DOMAIN kid[k].out :
         /\ kid[k].out[i].of = c /\ kid[k].out[i].kind # "rest"
         /\ kid[k].out[i].kind \in {"result", "error"} =>
              i = Len(kid[k].out) /\ kid[k].cell = M!None /\ kid[k].in = <<>>}]

\* As long as no line was over the limit, a worker holds its cell's source.
WorkersTracked ==
  overflow = {} =>
    /\ \A c \in Served : cell[c].kid \in Owned[c]
    /\ \A c \in M!Cells : cell[c].task = "starting" => cell[c].kid \in Clean
    /\ proc # M!None /\ Served = {} => proc \in Clean
    /\ \A call \in nested : call[1] = call[2]

CodeIInv == CodeTyped /\ LockTracked /\ StatesTracked /\ WorkersTracked

-----------------------------------------------------------------------------
\* A cell keeps its shape and its other fields when a field is given a value.
LEMMA CellSet ==
  ASSUME NEW f \in [M!Cells -> CellShape], NEW c \in M!Cells
  PROVE  /\ \A t \in Task : LET g == [f EXCEPT ![c].task = t] IN
              /\ g \in [M!Cells -> CellShape] /\ g[c].task = t /\ g[c].state = f[c].state
              /\ g[c].kid = f[c].kid /\ g[c].ends = f[c].ends /\ \A d \in M!Cells : d # c => g[d] = f[d]
         /\ \A s \in State : LET g == [f EXCEPT ![c].state = s] IN
              /\ g \in [M!Cells -> CellShape] /\ g[c].state = s /\ g[c].task = f[c].task
              /\ g[c].kid = f[c].kid /\ g[c].ends = f[c].ends /\ \A d \in M!Cells : d # c => g[d] = f[d]
         /\ \A k \in M!Kids \cup {M!None} : LET g == [f EXCEPT ![c].kid = k] IN
              /\ g \in [M!Cells -> CellShape] /\ g[c].kid = k /\ g[c].task = f[c].task
              /\ g[c].state = f[c].state /\ g[c].ends = f[c].ends /\ \A d \in M!Cells : d # c => g[d] = f[d]
         /\ \A e \in State : LET g == [f EXCEPT ![c].ends = e] IN
              /\ g \in [M!Cells -> CellShape] /\ g[c].ends = e /\ g[c].task = f[c].task
              /\ g[c].state = f[c].state /\ g[c].kid = f[c].kid /\ \A d \in M!Cells : d # c => g[d] = f[d]
BY DEF CellShape

\* Two fields at a time.
Ends(c, t, s) == [cell EXCEPT ![c].task = t, ![c].state = s]
Gets(c, t, k) == [cell EXCEPT ![c].task = t, ![c].kid = k]
Closes(c, t, e) == [cell EXCEPT ![c].task = t, ![c].ends = e]

\* A cell that is given two values keeps its shape and its other fields.
LEMMA CellSetTwo ==
  ASSUME CodeTyped, NEW c \in M!Cells, NEW t \in Task
  PROVE  /\ \A s \in State :
              /\ Ends(c, t, s) \in [M!Cells -> CellShape] /\ Ends(c, t, s)[c].task = t
              /\ Ends(c, t, s)[c].state = s /\ Ends(c, t, s)[c].kid = cell[c].kid
              /\ Ends(c, t, s)[c].ends = cell[c].ends /\ \A d \in M!Cells : d # c => Ends(c, t, s)[d] = cell[d]
         /\ \A k \in M!Kids \cup {M!None} :
              /\ Gets(c, t, k) \in [M!Cells -> CellShape] /\ Gets(c, t, k)[c].task = t
              /\ Gets(c, t, k)[c].state = cell[c].state /\ Gets(c, t, k)[c].kid = k
              /\ Gets(c, t, k)[c].ends = cell[c].ends /\ \A d \in M!Cells : d # c => Gets(c, t, k)[d] = cell[d]
         /\ \A e \in State :
              /\ Closes(c, t, e) \in [M!Cells -> CellShape] /\ Closes(c, t, e)[c].task = t
              /\ Closes(c, t, e)[c].state = cell[c].state /\ Closes(c, t, e)[c].kid = cell[c].kid
              /\ Closes(c, t, e)[c].ends = e /\ \A d \in M!Cells : d # c => Closes(c, t, e)[d] = cell[d]
<1> DEFINE f == [cell EXCEPT ![c].task = t]
<1>1. /\ f \in [M!Cells -> CellShape] /\ f[c].task = t /\ f[c].state = cell[c].state /\ f[c].ends = cell[c].ends
      /\ f[c].kid = cell[c].kid /\ \A d \in M!Cells : d # c => f[d] = cell[d]
  BY CellSet DEF CodeTyped
<1>2. ASSUME NEW s \in State
      PROVE  /\ Ends(c, t, s) \in [M!Cells -> CellShape] /\ Ends(c, t, s)[c].task = t /\ Ends(c, t, s)[c].state = s
             /\ Ends(c, t, s)[c].kid = cell[c].kid /\ Ends(c, t, s)[c].ends = cell[c].ends /\ \A d \in M!Cells : d # c => Ends(c, t, s)[d] = cell[d]
  <2>1. [cell EXCEPT ![c].task = t, ![c].state = s] = [f EXCEPT ![c].state = s]
    BY DEF CodeTyped, CellShape
  <2> HIDE DEF f
  <2> DEFINE h == [f EXCEPT ![c].state = s]
  <2>2. /\ h \in [M!Cells -> CellShape] /\ h[c].state = s /\ h[c].task = f[c].task /\ h[c].ends = f[c].ends
        /\ h[c].kid = f[c].kid /\ \A d \in M!Cells : d # c => h[d] = f[d]
    BY <1>1, CellSet
  <2> HIDE DEF h
  <2>3. Ends(c, t, s) = h
    BY <2>1 DEF h, Ends
  <2> QED BY <1>1, <2>2, <2>3
<1>3. ASSUME NEW k \in M!Kids \cup {M!None}
      PROVE  /\ Gets(c, t, k) \in [M!Cells -> CellShape] /\ Gets(c, t, k)[c].task = t /\ Gets(c, t, k)[c].state = cell[c].state
             /\ Gets(c, t, k)[c].kid = k /\ Gets(c, t, k)[c].ends = cell[c].ends /\ \A d \in M!Cells : d # c => Gets(c, t, k)[d] = cell[d]
  <2>1. [cell EXCEPT ![c].task = t, ![c].kid = k] = [f EXCEPT ![c].kid = k]
    BY DEF CodeTyped, CellShape
  <2> HIDE DEF f
  <2> DEFINE h == [f EXCEPT ![c].kid = k]
  <2>2. /\ h \in [M!Cells -> CellShape] /\ h[c].state = f[c].state /\ h[c].task = f[c].task
        /\ h[c].ends = f[c].ends /\ h[c].kid = k /\ \A d \in M!Cells : d # c => h[d] = f[d]
    BY <1>1, CellSet
  <2> HIDE DEF h
  <2>3. Gets(c, t, k) = h
    BY <2>1 DEF h, Gets
  <2> QED BY <1>1, <2>2, <2>3
<1>4. ASSUME NEW e \in State
      PROVE  /\ Closes(c, t, e) \in [M!Cells -> CellShape] /\ Closes(c, t, e)[c].task = t /\ Closes(c, t, e)[c].state = cell[c].state
             /\ Closes(c, t, e)[c].kid = cell[c].kid /\ Closes(c, t, e)[c].ends = e /\ \A d \in M!Cells : d # c => Closes(c, t, e)[d] = cell[d]
  <2>1. [cell EXCEPT ![c].task = t, ![c].ends = e] = [f EXCEPT ![c].ends = e]
    BY DEF CodeTyped, CellShape
  <2> HIDE DEF f
  <2> DEFINE h == [f EXCEPT ![c].ends = e]
  <2>2. /\ h \in [M!Cells -> CellShape] /\ h[c].state = f[c].state /\ h[c].task = f[c].task
        /\ h[c].ends = e /\ h[c].kid = f[c].kid /\ \A d \in M!Cells : d # c => h[d] = f[d]
    BY <1>1, CellSet
  <2> HIDE DEF h
  <2>3. Closes(c, t, e) = h
    BY <2>1 DEF h, Closes
  <2> QED BY <1>1, <2>2, <2>3
<1> HIDE DEF f
<1> QED BY <1>2, <1>3, <1>4

\* The fields of a worker, and of its sequences, are what they should be.
LEMMA KidIs ==
  ASSUME CodeTyped, NEW k \in M!Kids
  PROVE  /\ kid[k].alive \in BOOLEAN /\ kid[k].cell \in M!Cells \cup {M!None} /\ kid[k].asking \in BOOLEAN
         /\ kid[k].in \in Seq(M!Cells) /\ kid[k].out \in Seq(Message)
         /\ kid[k] = [alive |-> kid[k].alive, cell |-> kid[k].cell, asking |-> kid[k].asking,
                      in |-> kid[k].in, out |-> kid[k].out]
BY DEF CodeTyped, KidShape

\* An action on the table, or on a task that it ends or sends on, that leaves
\* what the workers hold.
LEMMA TableKeeps ==
  ASSUME CodeIInv, NEW c \in M!Cells, UNCHANGED <<overflow, nested>>,
         kid' \in [M!Kids -> KidShape],
         \A k \in M!Kids : kid'[k].cell = kid[k].cell /\ kid'[k].in = kid[k].in /\ kid'[k].out = kid[k].out,
         cell' \in [M!Cells -> CellShape], \A d \in M!Cells : d # c => cell'[d] = cell[d],
         tool' = M!NoTool \/ tool' = tool \/ tool'.cell \in M!Cells,
         lock' = lock \/ (lock' = M!None /\ lock = c), proc' = proc \/ (proc' = M!None /\ c \in Served),
         cell'[c].task \in Holding =>
           /\ cell[c].task \in Holding /\ cell'[c].kid = cell[c].kid /\ lock' = lock
           /\ cell'[c].task = "starting" => cell[c].task = "starting"
           /\ c \in Served' => c \in Served /\ proc' = proc,
         c \in Served /\ c \notin Served' => proc' = M!None,
         cell'[c].state = "none" => cell'[c].task = "none",
         cell'[c].state \in M!Ended \cup {"gone"} => cell'[c].task = "done",
         cell'[c].task = "closing" => cell'[c].ends # "none"
  PROVE  CodeIInv'
<1>1. Clean' = Clean /\ Owned' = Owned
  BY DEF Clean, Owned
<1>2. \A d \in M!Cells : d # c => (d \in Served' <=> d \in Served)
  BY DEF Served
<1>3. \A d \in Served : lock = d /\ d \in M!Cells
  BY DEF Served, CodeIInv, LockTracked, Holding
<1>4. Served' \subseteq Served
  <2>1. c \in Served' => cell'[c].task \in Holding
    BY DEF Served, Holding
  <2>2. Served' \subseteq M!Cells
    BY DEF Served
  <2> QED BY <1>2, <2>1, <2>2
<1>5. CodeTyped'
  BY DEF CodeIInv, CodeTyped
<1>6. LockTracked'
  <2> SUFFICES ASSUME NEW d \in M!Cells
               PROVE  /\ cell'[d].task \in Holding => lock' = d /\ cell'[d].kid \in M!Kids
                      /\ d \in Served' => proc' = cell'[d].kid
    BY DEF LockTracked
  <2>1. CASE d = c
    BY <1>4, <2>1 DEF CodeIInv, LockTracked, Served, Holding
  <2>2. CASE d # c
    BY <1>3, <1>4, <2>2 DEF CodeIInv, LockTracked
  <2> QED BY <2>1, <2>2
<1>7. StatesTracked'
  BY DEF CodeIInv, StatesTracked
<1>8. WorkersTracked'
  <2> SUFFICES ASSUME overflow = {}
               PROVE  /\ \A d \in Served' : cell'[d].kid \in Owned[d]
                      /\ \A d \in M!Cells : cell'[d].task = "starting" => cell'[d].kid \in Clean
                      /\ proc' # M!None /\ Served' = {} => proc' \in Clean
                      /\ \A call \in nested : call[1] = call[2]
    BY <1>1 DEF WorkersTracked
  <2>1. \A d \in Served' : cell'[d].kid = cell[d].kid /\ d \in Served
    BY <1>4 DEF Served, Holding
  <2>2. \A d \in M!Cells : cell'[d].task = "starting" => cell[d].task = "starting" /\ cell'[d].kid = cell[d].kid
    BY DEF Holding
  <2>3. proc' # M!None /\ Served' = {} => proc' = proc /\ Served = {}
    BY <1>2, <1>3
  <2> QED BY <2>1, <2>2, <2>3 DEF CodeIInv, WorkersTracked
<1> QED BY <1>5, <1>6, <1>7, <1>8 DEF CodeIInv

\* A task that is cancelled ends, or discards its worker first.
LEMMA CancelledKeeps ==
  ASSUME CodeIInv, NEW c \in M!Cells, NEW state \in State, M!Cancelled(c, state), M!Live(c),
         cell[c].task # "closing", UNCHANGED <<kid, overflow, nested>>,
         tool' = tool \/ tool'.cell \in M!Cells, state # "none"
  PROVE  CodeIInv'
<1>1. /\ cell[c].task \in {"queued", "starting"} \cup {"serving", "nested"} /\ cell[c].state \in State
      /\ cell[c].kid \in M!Kids \cup {M!None} /\ cell[c].ends \in State
      /\ cell[c].state \notin {"none", "gone"} \cup M!Ended
  BY DEF CodeIInv, CodeTyped, CellShape, Task, Holding, StatesTracked, M!Live
<1>2. kid' \in [M!Kids -> KidShape]
  BY DEF CodeIInv, CodeTyped
<1> DEFINE closed == Closes(c, "closing", state)
           done == Ends(c, "done", state)
<1>5. "closing" \in Task /\ "done" \in Task /\ CodeTyped
  BY DEF Task, Holding, CodeIInv
<1>6. /\ closed \in [M!Cells -> CellShape]
      /\ closed[c].state = cell[c].state /\ closed[c].task = "closing" /\ closed[c].kid = cell[c].kid
      /\ closed[c].ends = state /\ \A d \in M!Cells : d # c => closed[d] = cell[d]
  BY <1>5, CellSetTwo
<1>7. /\ done \in [M!Cells -> CellShape]
      /\ done[c].state = state /\ done[c].task = "done" /\ done[c].kid = cell[c].kid
      /\ done[c].ends = cell[c].ends /\ \A d \in M!Cells : d # c => done[d] = cell[d]
  BY <1>5, CellSetTwo
<1>8. M!Cancelled(c, state) <=>
        IF cell[c].task \in {"serving", "nested"}
        THEN /\ cell' = closed /\ proc' = (IF proc = cell[c].kid THEN M!None ELSE proc) /\ UNCHANGED lock
        ELSE /\ cell' = done /\ lock' = (IF lock = c THEN M!None ELSE lock) /\ UNCHANGED proc
  BY DEF M!Cancelled, Closes, Ends
<1> HIDE DEF closed, done
<1>3. CASE cell[c].task \in {"serving", "nested"}
  <2>1. cell' = closed /\ proc' = M!None /\ lock' = lock
    BY <1>3, <1>8 DEF CodeIInv, LockTracked, Served
  <2>2. /\ cell' \in [M!Cells -> CellShape]
        /\ cell'[c].state = cell[c].state /\ cell'[c].task = "closing" /\ cell'[c].kid = cell[c].kid
        /\ cell'[c].ends = state /\ \A d \in M!Cells : d # c => cell'[d] = cell[d]
    BY <1>6, <2>1
  <2>3. c \in Served /\ c \notin Served'
    BY <1>3, <2>2 DEF Served
  <2> QED BY <1>1, <1>2, <1>3, <2>1, <2>2, <2>3, TableKeeps DEF Holding
<1>4. CASE cell[c].task \notin {"serving", "nested"}
  <2>1. cell' = done /\ (lock' = lock \/ (lock = c /\ lock' = M!None)) /\ proc' = proc
    BY <1>4, <1>8
  <2>2. /\ cell' \in [M!Cells -> CellShape]
        /\ cell'[c].state = state /\ cell'[c].task = "done" /\ cell'[c].kid = cell[c].kid
        /\ cell'[c].ends = cell[c].ends /\ \A d \in M!Cells : d # c => cell'[d] = cell[d]
    BY <1>7, <2>1
  <2>3. c \notin Served /\ c \notin Served'
    BY <1>4, <2>2 DEF Served
  <2> QED BY <1>1, <1>2, <2>1, <2>2, <2>3, TableKeeps DEF Holding
<1> QED BY <1>3, <1>4

\* The model starts, waits for and ends cells; its run ends.
LEMMA TableStep ==
  ASSUME CodeIInv,
         \/ \E c \in M!Cells, timed \in BOOLEAN, waits \in BOOLEAN : M!StartCell(c, timed, waits)
         \/ \E c \in M!Cells, kill \in BOOLEAN : M!WaitCell(c, kill)
         \/ M!WaitReturns \/ M!RunEnds \/ \E c \in M!Cells : M!TimesOut(c)
  PROVE  CodeIInv' /\ nested' = nested
<1>1. UNCHANGED <<kid, overflow, nested>>
  BY DEF M!StartCell, M!WaitCell, M!WaitReturns, M!RunEnds, M!TimesOut
<1>2. kid' \in [M!Kids -> KidShape]
  BY <1>1 DEF CodeIInv, CodeTyped
<1>3. ASSUME NEW c \in M!Cells, NEW timed \in BOOLEAN, NEW waits \in BOOLEAN, M!StartCell(c, timed, waits)
      PROVE  CodeIInv'
  <2> DEFINE r == [state |-> IF waits THEN "running" ELSE "yielded",
                   task |-> "queued", timed |-> timed, kid |-> M!None, ends |-> "none"]
  <2>1. /\ cell' = [cell EXCEPT ![c] = r] /\ UNCHANGED <<lock, proc>> /\ cell[c].state = "none"
        /\ tool' = M!NoTool \/ tool' = [op |-> "wait", cell |-> c]
    BY <1>3 DEF M!StartCell
  <2>2. r \in CellShape /\ r.task = "queued" /\ r.state \in {"running", "yielded"}
    BY DEF CellShape, State, Task
  <2> HIDE DEF r
  <2>3. /\ cell' \in [M!Cells -> CellShape] /\ cell'[c].task = "queued" /\ cell'[c].state \in {"running", "yielded"}
        /\ \A d \in M!Cells : d # c => cell'[d] = cell[d]
    BY <2>1, <2>2 DEF CodeIInv, CodeTyped
  <2>4. tool' = M!NoTool \/ tool'.cell \in M!Cells
    BY <2>1
  <2>5. c \notin Served /\ c \notin Served'
    BY <2>1, <2>3 DEF CodeIInv, StatesTracked, Served
  <2> QED BY <1>1, <1>2, <2>1, <2>3, <2>4, <2>5, TableKeeps DEF Holding, M!Ended
<1>4. ASSUME NEW c \in M!Cells, UNCHANGED <<cell, lock, proc>>, tool' = M!NoTool \/ tool' = tool \/ tool'.cell \in M!Cells
      PROVE  CodeIInv'
  <2>1. Served' = Served
    BY <1>4 DEF Served
  <2> QED BY <1>1, <1>2, <1>4, <2>1, TableKeeps DEF CodeIInv, CodeTyped, StatesTracked
<1>5. ASSUME NEW c \in M!Cells, NEW s \in State, cell' = [cell EXCEPT ![c].state = s], UNCHANGED <<lock, proc>>,
             tool' = M!NoTool \/ tool' = tool \/ tool'.cell \in M!Cells,
             s = "none" => cell[c].task = "none", s \in M!Ended \cup {"gone"} => cell[c].task = "done"
      PROVE  CodeIInv'
  <2>1. cell[c].task \in Task /\ cell[c].kid \in M!Kids \cup {M!None} /\ cell[c].ends \in State
    BY DEF CodeIInv, CodeTyped, CellShape
  <2>2. /\ cell' \in [M!Cells -> CellShape]
        /\ cell'[c].state = s /\ cell'[c].task = cell[c].task /\ cell'[c].kid = cell[c].kid
        /\ cell'[c].ends = cell[c].ends /\ \A d \in M!Cells : d # c => cell'[d] = cell[d]
    BY <1>5, <2>1, CellSet DEF CodeIInv, CodeTyped
  <2>3. Served' = Served
    BY <2>2 DEF Served
  <2> QED BY <1>1, <1>2, <1>5, <2>2, <2>3, TableKeeps DEF CodeIInv, StatesTracked
<1>6. ASSUME NEW c \in M!Cells, NEW kill \in BOOLEAN, M!WaitCell(c, kill)
      PROVE  CodeIInv'
  <2>1. cell[c].state \in State /\ cell[c].state # "none"
    BY <1>6 DEF M!WaitCell, M!InTable, CodeIInv, CodeTyped, CellShape
  <2>2. CASE cell[c].state \in M!Ended
    <3>1. cell[c].task = "done"
      BY <2>2 DEF CodeIInv, StatesTracked
    <3>2. cell' = [cell EXCEPT ![c].state = "gone"] /\ UNCHANGED <<tool, lock, proc>>
      BY <1>6, <2>2 DEF M!WaitCell
    <3> QED BY <1>5, <3>1, <3>2 DEF State
  <2>3. CASE cell[c].state \notin M!Ended
    <3>1. tool'.cell \in M!Cells
      <4>1. tool' = [op |-> IF kill THEN "kill" ELSE "wait", cell |-> c]
        BY <1>6, <2>3 DEF M!WaitCell
      <4> QED BY <4>1
    <3>2. CASE UNCHANGED <<cell, lock, proc>>
      BY <1>4, <3>1, <3>2
    <3>3. CASE cell[c].task # "closing" /\ M!Live(c) /\ M!Cancelled(c, cell[c].state)
      BY <1>1, <2>1, <3>1, <3>3, CancelledKeeps
    <3> QED BY <1>6, <2>3, <3>2, <3>3 DEF M!WaitCell
  <2> QED BY <2>2, <2>3
<1>7. CASE M!WaitReturns
  <2>1. tool.cell \in M!Cells /\ tool' = M!NoTool /\ UNCHANGED <<lock, proc>>
    BY <1>7 DEF M!WaitReturns, CodeIInv, CodeTyped
  <2>2. CASE cell[tool.cell].task = "done" /\ cell' = [cell EXCEPT ![tool.cell].state = "gone"]
    BY <1>1, <1>5, <2>1, <2>2 DEF State
  <2>3. CASE cell[tool.cell].task # "done"
    <3>1. PICK s \in State : /\ cell' = [cell EXCEPT ![tool.cell].state = s]
                             /\ s = cell[tool.cell].state \/ s = "yielded"
      <4>1. cell[tool.cell].state \in State
        BY <2>1 DEF CodeIInv, CodeTyped, CellShape
      <4>2. cell' = [cell EXCEPT ![tool.cell].state = IF cell[tool.cell].state = "running" THEN "yielded"
                                                       ELSE cell[tool.cell].state]
        BY <1>7, <2>3 DEF M!WaitReturns
      <4> QED BY <4>1, <4>2 DEF State
    <3>2. s = "none" => cell[tool.cell].task = "none"
      BY <2>1, <3>1 DEF CodeIInv, StatesTracked
    <3>3. s \notin M!Ended \cup {"gone"}
      BY <2>1, <2>3, <3>1 DEF CodeIInv, StatesTracked, M!Ended
    <3> QED BY <1>1, <1>5, <2>1, <3>1, <3>2, <3>3
  <2> QED BY <1>1, <1>7, <2>2, <2>3 DEF M!WaitReturns
<1>8. CASE M!RunEnds
  <2>1. UNCHANGED <<cell, lock, proc>> /\ tool' = M!NoTool
    BY <1>8 DEF M!RunEnds
  <2> QED BY <1>1, <2>1 DEF CodeIInv, CodeTyped, LockTracked, StatesTracked, WorkersTracked, Served, Clean, Owned
<1>9. ASSUME NEW c \in M!Cells, M!TimesOut(c)
      PROVE  CodeIInv'
  BY <1>1, <1>9, CancelledKeeps DEF M!TimesOut, State, M!Ended
<1> QED BY <1>1, <1>3, <1>6, <1>7, <1>8, <1>9

\* A worker keeps its shape and its other fields when one field is given a value.
Lives(f, k) == [f EXCEPT ![k].alive = TRUE]
Dies(f, k) == [f EXCEPT ![k].alive = FALSE]
Asks(f, k) == [f EXCEPT ![k].asking = TRUE]
Told(f, k) == [f EXCEPT ![k].asking = FALSE]
Runs(f, k, c) == [f EXCEPT ![k].cell = c]
Sent(f, k, s) == [f EXCEPT ![k].in = s]
Said(f, k, s) == [f EXCEPT ![k].out = s]
\* The flags of a worker.
LEMMA FlagSet ==
  ASSUME NEW f \in [M!Kids -> KidShape], NEW k \in M!Kids, NEW g,
         g \in {Lives(f, k), Dies(f, k), Asks(f, k), Told(f, k)}
  PROVE  /\ g \in [M!Kids -> KidShape] /\ g[k].cell = f[k].cell /\ g[k].in = f[k].in /\ g[k].out = f[k].out
         /\ \A j \in M!Kids : j # k => g[j] = f[j]
<1>1. CASE g = Lives(f, k)
  BY <1>1 DEF KidShape, Lives
<1>2. CASE g = Dies(f, k)
  BY <1>2 DEF KidShape, Dies
<1>3. CASE g = Asks(f, k)
  BY <1>3 DEF KidShape, Asks
<1>4. CASE g = Told(f, k)
  BY <1>4 DEF KidShape, Told
<1> QED BY <1>1, <1>2, <1>3, <1>4

\* The source a worker runs.
LEMMA RunsSet ==
  ASSUME NEW f \in [M!Kids -> KidShape], NEW k \in M!Kids, NEW x \in M!Cells \cup {M!None}, NEW g, g = Runs(f, k, x)
  PROVE  /\ g \in [M!Kids -> KidShape] /\ g[k].cell = x /\ g[k].in = f[k].in /\ g[k].out = f[k].out
         /\ \A j \in M!Kids : j # k => g[j] = f[j]
BY DEF KidShape, Runs

\* What a worker was sent.
LEMMA SentSet ==
  ASSUME NEW f \in [M!Kids -> KidShape], NEW k \in M!Kids, NEW x \in Seq(M!Cells), NEW g, g = Sent(f, k, x)
  PROVE  /\ g \in [M!Kids -> KidShape] /\ g[k].cell = f[k].cell /\ g[k].in = x /\ g[k].out = f[k].out
         /\ \A j \in M!Kids : j # k => g[j] = f[j]
BY DEF KidShape, Sent

\* What a worker has said.
LEMMA SaidSet ==
  ASSUME NEW f \in [M!Kids -> KidShape], NEW k \in M!Kids, NEW x \in Seq(Message), NEW g, g = Said(f, k, x)
  PROVE  /\ g \in [M!Kids -> KidShape] /\ g[k].cell = f[k].cell /\ g[k].in = f[k].in /\ g[k].out = x
         /\ \A j \in M!Kids : j # k => g[j] = f[j]
BY DEF KidShape, Said

\* A worker that goes on by itself stays with the source it has.
LEMMA WorkerKeeps ==
  ASSUME CodeIInv, NEW k \in M!Kids, kid' \in [M!Kids -> KidShape],
         \A j \in M!Kids : j # k => kid'[j] = kid[j],
         UNCHANGED <<tool, cell, lock, proc, nested, overflow>>,
         k \in Clean => k \in Clean', \A c \in M!Cells : k \in Owned[c] => k \in Owned'[c]
  PROVE  CodeIInv'
<1>1. \A j \in Clean : j \in Clean'
  <2> SUFFICES ASSUME NEW j \in Clean, j # k PROVE j \in Clean'
    OBVIOUS
  <2> QED BY DEF Clean
<1>2. \A c \in M!Cells : \A j \in Owned[c] : j \in Owned'[c]
  <2> SUFFICES ASSUME NEW c \in M!Cells, NEW j \in Owned[c], j # k PROVE j \in Owned'[c]
    OBVIOUS
  <2> QED BY DEF Owned
<1>3. Served' = Served /\ Served \subseteq M!Cells
  BY DEF Served
<1>4. CodeTyped' /\ LockTracked' /\ StatesTracked'
  BY <1>3 DEF CodeIInv, CodeTyped, LockTracked, StatesTracked
<1>5. WorkersTracked'
  BY <1>1, <1>2, <1>3 DEF CodeIInv, WorkersTracked
<1> QED BY <1>4, <1>5 DEF CodeIInv

\* What one more message makes of what a worker has said.
LEMMA SaidIs ==
  ASSUME NEW said \in Seq(Message), NEW m \in Message
  PROVE  /\ Append(said, m) \in Seq(Message) /\ Append(said, m) # <<>> /\ Len(Append(said, m)) = Len(said) + 1
         /\ Len(said) \in Nat
         /\ \A i \in DOMAIN Append(said, m) :
              \/ i \in DOMAIN said /\ i # Len(said) + 1 /\ Append(said, m)[i] = said[i]
              \/ i = Len(said) + 1 /\ Append(said, m)[i] = m
<1>1. Len(said) \in Nat /\ DOMAIN said = 1..Len(said)
  BY LenProperties
<1>2. /\ Append(said, m) \in Seq(Message) /\ Len(Append(said, m)) = Len(said) + 1
      /\ \A i \in 1..Len(said) : Append(said, m)[i] = said[i]
      /\ Append(said, m)[Len(said) + 1] = m
  BY AppendProperties
<1>3. DOMAIN Append(said, m) = 1..(Len(said) + 1)
  BY <1>2, LenProperties
<1>4. Append(said, m) # <<>>
  BY <1>1, <1>2, EmptySeq
<1> QED BY <1>1, <1>2, <1>3, <1>4

\* A worker takes a source, says something for it, ends it, or dies.
LEMMA WorkerStep ==
  ASSUME CodeIInv, NEW k \in M!Kids, M!Worker(k)
  PROVE  CodeIInv' /\ nested' = nested
<1>1. UNCHANGED <<tool, cell, lock, proc, nested, overflow>>
  BY DEF M!Worker, M!TakeSource, M!SourceStep, M!SourceEnds, M!Crash
<1>2. /\ kid[k].cell \in M!Cells \cup {M!None} /\ kid[k].in \in Seq(M!Cells) /\ kid[k].out \in Seq(Message)
      /\ kid \in [M!Kids -> KidShape]
  BY KidIs DEF CodeIInv, CodeTyped
<1>3. CASE M!Crash(k)
  <2>1. /\ kid' \in [M!Kids -> KidShape] /\ \A j \in M!Kids : j # k => kid'[j] = kid[j]
        /\ kid'[k].cell = kid[k].cell /\ kid'[k].in = kid[k].in /\ kid'[k].out = kid[k].out
    <3>1. kid' = Dies(kid, k)
      BY <1>3 DEF M!Crash, Dies
    <3> QED BY <1>2, <3>1, FlagSet
  <2>2. k \in Clean => k \in Clean'
    BY <2>1 DEF Clean
  <2>3. \A c \in M!Cells : k \in Owned[c] => k \in Owned'[c]
    BY <2>1 DEF Owned
  <2> QED BY <1>1, <2>1, <2>2, <2>3, WorkerKeeps
<1>4. CASE M!TakeSource(k)
  <2> DEFINE f == Runs(kid, k, Head(kid[k].in))
             in == kid[k].in
  <2>1. in # <<>> /\ kid[k].cell = M!None
    BY <1>4 DEF M!TakeSource
  <2>2. Head(in) \in M!Cells /\ Tail(in) \in Seq(M!Cells)
    BY <1>2, <2>1, HeadTailProperties
  <2>3. /\ f \in [M!Kids -> KidShape] /\ f[k].cell = Head(in) /\ f[k].in = in /\ f[k].out = kid[k].out
        /\ \A j \in M!Kids : j # k => f[j] = kid[j]
    BY <1>2, <2>2, RunsSet
  <2>4. kid' = Sent(f, k, Tail(in))
    <3>1. kid' = [kid EXCEPT ![k].cell = Head(kid[k].in), ![k].in = Tail(@)]
      BY <1>4 DEF M!TakeSource
    <3> QED BY <1>2, <3>1 DEF KidShape, Runs, Sent
  <2> HIDE DEF f
  <2>5. /\ kid' \in [M!Kids -> KidShape] /\ kid'[k].cell = Head(in) /\ kid'[k].in = Tail(in)
        /\ kid'[k].out = kid[k].out /\ \A j \in M!Kids : j # k => kid'[j] = kid[j]
    <3> DEFINE x == Tail(in)
    <3>1. x \in Seq(M!Cells) /\ kid' = Sent(f, k, x)
      BY <2>2, <2>4
    <3> HIDE DEF x
    <3>2. /\ kid' \in [M!Kids -> KidShape] /\ kid'[k].cell = f[k].cell /\ kid'[k].in = x
          /\ kid'[k].out = f[k].out /\ \A j \in M!Kids : j # k => kid'[j] = f[j]
      BY <2>3, <3>1, SentSet
    <3> QED BY <2>3, <3>2 DEF x
  <2>6. k \notin Clean
    BY <2>1 DEF Clean
  <2>7. ASSUME NEW c \in M!Cells, k \in Owned[c] PROVE k \in Owned'[c]
    <3>1. in = <<c>> /\ kid[k].out = <<>>
      BY <2>1, <2>7 DEF Owned
    <3>2. Head(in) = c /\ Tail(in) = <<>>
      BY <3>1
    <3>3. DOMAIN <<>> = {}
      BY EmptySeq
    <3> QED BY <2>5, <3>1, <3>2, <3>3 DEF Owned
  <2> QED BY <1>1, <2>5, <2>6, <2>7, WorkerKeeps
<1>5. ASSUME NEW m \in Message, m.of = kid[k].cell, kid[k].cell # M!None, m.kind # "rest",
             kid' \in [M!Kids -> KidShape], \A j \in M!Kids : j # k => kid'[j] = kid[j],
             kid'[k].out = Append(kid[k].out, m), kid'[k].in = kid[k].in,
             \/ kid'[k].cell = kid[k].cell /\ m.kind \notin {"result", "error"}
             \/ kid'[k].cell = M!None
      PROVE  CodeIInv'
  <2> DEFINE said == kid[k].out
  <2>1. /\ Append(said, m) # <<>> /\ Len(Append(said, m)) = Len(said) + 1 /\ Len(said) \in Nat
        /\ \A i \in DOMAIN Append(said, m) :
             \/ i \in DOMAIN said /\ i # Len(said) + 1 /\ Append(said, m)[i] = said[i]
             \/ i = Len(said) + 1 /\ Append(said, m)[i] = m
    BY <1>2, SaidIs
  <2>2. k \notin Clean
    BY <1>5 DEF Clean
  <2>3. ASSUME NEW c \in M!Cells, k \in Owned[c] PROVE k \in Owned'[c]
    <3>1. kid[k].cell = c /\ kid[k].in = <<>> /\ \A i \in DOMAIN said : said[i].of = c /\ said[i].kind # "rest"
                                                      /\ said[i].kind \notin {"result", "error"}
      BY <1>5, <2>3 DEF Owned
    <3>2. \A i \in DOMAIN kid'[k].out :
            /\ kid'[k].out[i].of = c /\ kid'[k].out[i].kind # "rest"
            /\ kid'[k].out[i].kind \in {"result", "error"} =>
                 i = Len(kid'[k].out) /\ kid'[k].cell = M!None
      BY <1>5, <2>1, <3>1
    <3>3. kid'[k].cell \in {M!None, c} /\ kid'[k].in = <<>>
      BY <1>5, <3>1
    <3> QED BY <3>2, <3>3 DEF Owned
  <2> QED BY <1>1, <1>5, <2>2, <2>3, WorkerKeeps
<1>6. CASE M!SourceStep(k)
  <2>1. kid[k].cell # M!None
    BY <1>6 DEF M!SourceStep
  <2>2. PICK kind \in {"long", "tool_call"} :
          \/ kid' = M!Says(k, M!Message(kind, kid[k].cell))
          \/ kid' = [M!Says(k, M!Message(kind, kid[k].cell)) EXCEPT ![k].asking = TRUE]
    BY <1>6 DEF M!SourceStep
  <2> DEFINE m == M!Message(kind, kid[k].cell)
             f == M!Says(k, m)
  <2>3. m \in Message /\ m.of = kid[k].cell /\ m.kind = kind
    BY <1>2, <2>1 DEF Message, M!Message
  <2> HIDE DEF m
  <2>4. Append(kid[k].out, m) \in Seq(Message)
    BY <1>2, <2>3, SaidIs
  <2>5. /\ f \in [M!Kids -> KidShape] /\ f[k].cell = kid[k].cell /\ f[k].in = kid[k].in
        /\ f[k].out = Append(kid[k].out, m) /\ \A j \in M!Kids : j # k => f[j] = kid[j]
    <3>1. f = Said(kid, k, Append(kid[k].out, m))
      BY <1>2 DEF M!Says, KidShape, Said
    <3> DEFINE x == Append(kid[k].out, m)
    <3>2. x \in Seq(Message) /\ f = Said(kid, k, x)
      BY <2>4, <3>1
    <3> HIDE DEF x, f
    <3>3. /\ f \in [M!Kids -> KidShape] /\ f[k].cell = kid[k].cell /\ f[k].in = kid[k].in
          /\ f[k].out = x /\ \A j \in M!Kids : j # k => f[j] = kid[j]
      BY <1>2, <3>2, SaidSet
    <3> QED BY <3>3 DEF x
  <2> HIDE DEF f
  <2>6. kid' = f \/ kid' = Asks(f, k)
    BY <2>2 DEF m, f, Asks
  <2>7. /\ kid' \in [M!Kids -> KidShape] /\ kid'[k].cell = kid[k].cell /\ kid'[k].in = kid[k].in
        /\ kid'[k].out = Append(kid[k].out, m) /\ \A j \in M!Kids : j # k => kid'[j] = kid[j]
    BY <2>5, <2>6, FlagSet
  <2> QED BY <1>1, <1>5, <2>1, <2>3, <2>7
<1>7. CASE M!SourceEnds(k)
  <2>1. kid[k].cell # M!None
    BY <1>7 DEF M!SourceEnds
  <2>2. PICK kind \in {"result", "error"} :
          kid' = [M!Says(k, M!Message(kind, kid[k].cell)) EXCEPT ![k].cell = M!None]
    BY <1>7 DEF M!SourceEnds
  <2> DEFINE m == M!Message(kind, kid[k].cell)
             f == M!Says(k, m)
  <2>3. m \in Message /\ m.of = kid[k].cell /\ m.kind = kind
    BY <1>2, <2>1 DEF Message, M!Message
  <2> HIDE DEF m
  <2>4. Append(kid[k].out, m) \in Seq(Message)
    BY <1>2, <2>3, SaidIs
  <2>5. /\ f \in [M!Kids -> KidShape] /\ f[k].cell = kid[k].cell /\ f[k].in = kid[k].in
        /\ f[k].out = Append(kid[k].out, m) /\ \A j \in M!Kids : j # k => f[j] = kid[j]
    <3>1. f = Said(kid, k, Append(kid[k].out, m))
      BY <1>2 DEF M!Says, KidShape, Said
    <3> DEFINE x == Append(kid[k].out, m)
    <3>2. x \in Seq(Message) /\ f = Said(kid, k, x)
      BY <2>4, <3>1
    <3> HIDE DEF x, f
    <3>3. /\ f \in [M!Kids -> KidShape] /\ f[k].cell = kid[k].cell /\ f[k].in = kid[k].in
          /\ f[k].out = x /\ \A j \in M!Kids : j # k => f[j] = kid[j]
      BY <1>2, <3>2, SaidSet
    <3> QED BY <3>3 DEF x
  <2> HIDE DEF f
  <2>6. kid' = Runs(f, k, M!None)
    BY <2>2 DEF m, f, Runs
  <2>7. /\ kid' \in [M!Kids -> KidShape] /\ kid'[k].cell = M!None /\ kid'[k].in = kid[k].in
        /\ kid'[k].out = Append(kid[k].out, m) /\ \A j \in M!Kids : j # k => kid'[j] = kid[j]
    BY <2>5, <2>6, RunsSet
  <2> QED BY <1>1, <1>5, <2>1, <2>3, <2>7
<1> QED BY <1>1, <1>3, <1>4, <1>6, <1>7 DEF M!Worker

\* An action of the task that holds the lock, or has just taken it: what it
\* leaves in its worker and in the table is what the invariant asks for.
LEMMA HolderKeeps ==
  ASSUME CodeIInv, NEW c \in M!Cells, lock \in {M!None, c}, lock' \in {M!None, c},
         tool' = tool, cell' \in [M!Cells -> CellShape], kid' \in [M!Kids -> KidShape],
         \A d \in M!Cells : d # c => cell'[d] = cell[d],
         proc' \in M!Kids \cup {M!None},
         cell'[c].task \in Holding => lock' = c /\ cell'[c].kid \in M!Kids,
         c \in Served' => proc' = cell'[c].kid,
         cell'[c].state = "none" => cell'[c].task = "none",
         cell'[c].state \in M!Ended \cup {"gone"} => cell'[c].task = "done",
         cell'[c].task = "closing" => cell'[c].ends # "none",
         overflow' = {} =>
           /\ c \in Served' => cell'[c].kid \in Owned'[c]
           /\ cell'[c].task = "starting" => cell'[c].kid \in Clean'
           /\ proc' # M!None /\ c \notin Served' => proc' \in Clean'
           /\ \A call \in nested' : call[1] = call[2]
  PROVE  CodeIInv'
<1>1. \A d \in M!Cells : d # c => cell'[d].task \notin Holding
  <2>1. M!None \notin M!Cells
    BY DEF M!None, M!Cells
  <2> QED BY <2>1 DEF CodeIInv, LockTracked
<1>2. \A d \in Served' : d = c
  BY <1>1 DEF Served, Holding
<1>3. \A d \in M!Cells : cell'[d].task = "starting" => d = c
  BY <1>1 DEF Holding
<1>4. CodeTyped'
  <2>1. tool' = M!NoTool \/ tool'.cell \in M!Cells
    BY DEF CodeIInv, CodeTyped
  <2> QED BY <2>1 DEF CodeTyped
<1>5. LockTracked'
  <2>1. ASSUME NEW d \in M!Cells
        PROVE  /\ cell'[d].task \in Holding => lock' = d /\ cell'[d].kid \in M!Kids
               /\ d \in Served' => proc' = cell'[d].kid
    BY <1>1, <1>2
  <2> QED BY <2>1 DEF LockTracked
<1>6. StatesTracked'
  BY DEF CodeIInv, StatesTracked
<1>7. WorkersTracked'
  <2>1. Served' = {} => c \notin Served'
    OBVIOUS
  <2> QED BY <1>2, <1>3, <2>1 DEF WorkersTracked
<1> QED BY <1>4, <1>5, <1>6, <1>7 DEF CodeIInv

\* A task takes the lock: of the worker it finds, or of one it starts, nothing
\* is known to another cell.
LEMMA TakeLockStep ==
  ASSUME CodeIInv, NEW c \in M!Cells, M!TakeLock(c)
  PROVE  CodeIInv' /\ nested' = nested
<1>1. /\ cell[c].task = "queued" /\ lock = M!None /\ lock' = c /\ UNCHANGED <<tool, proc, nested, overflow>>
  BY DEF M!TakeLock
<1>2. /\ kid \in [M!Kids -> KidShape] /\ CodeTyped /\ proc \in M!Kids \cup {M!None}
      /\ cell[c].state \notin {"none", "gone"} \cup M!Ended
  BY <1>1 DEF CodeIInv, CodeTyped, StatesTracked
<1>3. Served = {}
  <2>1. M!None \notin M!Cells
    BY DEF M!None, M!Cells
  <2> QED BY <1>1, <2>1 DEF CodeIInv, LockTracked, Served, Holding
<1>4. CASE proc # M!None /\ kid[proc].alive
  <2> DEFINE x == Append(kid[proc].in, c)
             taken == Gets(c, "serving", proc)
  <2>1. proc \in M!Kids /\ x \in Seq(M!Cells)
    <3>1. proc \in M!Kids
      BY <1>2, <1>4
    <3> QED BY <1>2, <3>1, KidIs, AppendProperties
  <2>2. cell' = taken /\ kid' = Sent(kid, proc, x)
    <3>1. cell' = [cell EXCEPT ![c].task = "serving", ![c].kid = proc] /\ kid' = [kid EXCEPT ![proc].in = Append(@, c)]
      BY <1>4 DEF M!TakeLock
    <3> QED BY <1>2, <2>1, <3>1 DEF Gets, Sent, KidShape
  <2>3. /\ taken \in [M!Cells -> CellShape] /\ taken[c].task = "serving" /\ taken[c].state = cell[c].state
        /\ taken[c].kid = proc /\ \A d \in M!Cells : d # c => taken[d] = cell[d]
    BY <1>2, <2>1, CellSetTwo DEF Task, Holding
  <2> HIDE DEF taken, x
  <2>4. /\ kid' \in [M!Kids -> KidShape] /\ kid'[proc].cell = kid[proc].cell /\ kid'[proc].in = x
        /\ kid'[proc].out = kid[proc].out
    BY <1>2, <2>1, <2>2, SentSet
  <2>5. c \in Served'
    BY <2>2, <2>3 DEF Served
  <2>6. overflow' = {} => proc \in Owned'[c] /\ \A call \in nested' : call[1] = call[2]
    <3> SUFFICES ASSUME overflow = {}
                 PROVE  proc \in Owned'[c] /\ \A call \in nested : call[1] = call[2]
      BY <1>1
    <3>1. proc \in Clean /\ \A call \in nested : call[1] = call[2]
      BY <1>3, <1>4 DEF CodeIInv, WorkersTracked
    <3>2. x = <<c>> /\ kid[proc].out = <<>> /\ kid[proc].cell = M!None
      <4>1. kid[proc].in = <<>> /\ kid[proc].out = <<>> /\ kid[proc].cell = M!None
        BY <3>1 DEF Clean
      <4> QED BY <4>1, Append(<<>>, c) = <<c>> DEF x
    <3>3. DOMAIN <<>> = {}
      BY EmptySeq
    <3> QED BY <2>1, <2>4, <3>1, <3>2, <3>3 DEF Owned
  <2>7. proc' \in M!Kids
    BY <1>1, <2>1
  <2> QED BY <1>1, <1>2, <2>1, <2>2, <2>3, <2>4, <2>5, <2>6, <2>7, HolderKeeps
<1>5. CASE ~(proc # M!None /\ kid[proc].alive)
  <2>1. PICK k \in M!Kids :
          /\ kid[k] = M!NoKid /\ cell' = [cell EXCEPT ![c].task = "starting", ![c].kid = k]
          /\ kid' = [kid EXCEPT ![k].alive = TRUE]
    BY <1>5 DEF M!TakeLock
  <2> DEFINE taken == Gets(c, "starting", k)
  <2>2. /\ taken \in [M!Cells -> CellShape] /\ taken[c].task = "starting" /\ taken[c].state = cell[c].state
        /\ taken[c].kid = k /\ \A d \in M!Cells : d # c => taken[d] = cell[d]
    BY <1>2, CellSetTwo DEF Task, Holding
  <2>3. cell' = taken /\ kid' = Lives(kid, k)
    BY <2>1 DEF Gets, Lives
  <2> HIDE DEF taken
  <2>4. /\ kid' \in [M!Kids -> KidShape] /\ kid'[k].cell = kid[k].cell /\ kid'[k].in = kid[k].in
        /\ kid'[k].out = kid[k].out /\ \A j \in M!Kids : j # k => kid'[j] = kid[j]
    BY <1>2, <2>3, FlagSet
  <2>5. Clean' = Clean
    BY <2>4 DEF Clean
  <2>6. k \in Clean
    BY <2>1 DEF Clean, M!NoKid
  <2>7. c \notin Served'
    BY <2>2, <2>3 DEF Served
  <2>8. overflow' = {} => (proc' # M!None => proc' \in Clean') /\ \A call \in nested' : call[1] = call[2]
    BY <1>1, <1>3, <2>5 DEF CodeIInv, WorkersTracked
  <2> QED BY <1>1, <1>2, <2>2, <2>3, <2>4, <2>5, <2>6, <2>7, <2>8, HolderKeeps
<1> QED BY <1>1, <1>4, <1>5

\* A worker that was started becomes the runtime's, with its first source.
LEMMA StartedStep ==
  ASSUME CodeIInv, NEW c \in M!Cells, M!Started(c)
  PROVE  CodeIInv' /\ nested' = nested
<1> DEFINE k == cell[c].kid
           x == Append(kid[k].in, c)
           f == [cell EXCEPT ![c].task = "serving"]
<1>1. cell[c].task = "starting" /\ proc' = k /\ UNCHANGED <<tool, lock, nested, overflow>>
  BY DEF M!Started
<1>2. /\ kid \in [M!Kids -> KidShape] /\ CodeTyped /\ k \in M!Kids /\ lock = c
      /\ cell[c].state \notin {"none", "gone"} \cup M!Ended
  BY <1>1 DEF CodeIInv, CodeTyped, StatesTracked, LockTracked, Holding
<1>3. x \in Seq(M!Cells)
  BY <1>2, KidIs, AppendProperties
<1>4. /\ f \in [M!Cells -> CellShape] /\ f[c].task = "serving" /\ f[c].state = cell[c].state
      /\ f[c].kid = k /\ \A d \in M!Cells : d # c => f[d] = cell[d]
  <2>1. "serving" \in Task /\ cell \in [M!Cells -> CellShape]
    BY <1>2 DEF Task, Holding, CodeTyped
  <2> QED BY <2>1, CellSet DEF k
<1>5. cell' = f /\ kid' = Sent(kid, k, x)
  <2>1. kid' = [kid EXCEPT ![k].in = Append(@, c)] /\ cell' = f
    BY DEF M!Started
  <2> QED BY <1>2, <2>1 DEF Sent, KidShape
<1> HIDE DEF f, x, k
<1>6. /\ kid' \in [M!Kids -> KidShape] /\ kid'[k].cell = kid[k].cell /\ kid'[k].in = x
      /\ kid'[k].out = kid[k].out
  BY <1>2, <1>3, <1>5, SentSet
<1>7. c \in Served'
  BY <1>4, <1>5 DEF Served
<1>8. overflow' = {} => k \in Owned'[c] /\ \A call \in nested' : call[1] = call[2]
  <2> SUFFICES ASSUME overflow = {}
               PROVE  k \in Owned'[c] /\ \A call \in nested : call[1] = call[2]
    BY <1>1
  <2>1. k \in Clean /\ \A call \in nested : call[1] = call[2]
    BY <1>1 DEF CodeIInv, WorkersTracked, k
  <2>2. x = <<c>> /\ kid[k].out = <<>> /\ kid[k].cell = M!None
    <3>1. kid[k].in = <<>> /\ kid[k].out = <<>> /\ kid[k].cell = M!None
      BY <2>1 DEF Clean
    <3> QED BY <3>1, Append(<<>>, c) = <<c>> DEF x
  <2>3. DOMAIN <<>> = {}
    BY EmptySeq
  <2> QED BY <1>2, <1>6, <2>1, <2>2, <2>3 DEF Owned
<1> QED BY <1>1, <1>2, <1>4, <1>5, <1>6, <1>7, <1>8, HolderKeeps

\* What a worker still has to say, once its first message is read.
LEMMA RestIs ==
  ASSUME NEW said \in Seq(Message), said # <<>>
  PROVE  /\ Head(said) \in Message /\ Head(said) = said[1] /\ 1 \in DOMAIN said
         /\ Tail(said) \in Seq(Message) /\ Len(said) = 1 => Tail(said) = <<>>
         /\ \A i \in DOMAIN Tail(said) :
              i + 1 \in DOMAIN said /\ Tail(said)[i] = said[i + 1] /\ (i + 1 = Len(said) => i = Len(Tail(said)))
<1>1. Len(said) \in Nat /\ DOMAIN said = 1..Len(said) /\ Len(said) # 0
  BY LenProperties, EmptySeq
<1>2. /\ Head(said) \in Message /\ Tail(said) \in Seq(Message) /\ Len(Tail(said)) = Len(said) - 1
      /\ \A i \in 1..Len(Tail(said)) : Tail(said)[i] = said[i + 1]
  BY HeadTailProperties
<1>3. DOMAIN Tail(said) = 1..Len(Tail(said))
  BY <1>2, LenProperties
<1>4. Len(said) = 1 => Tail(said) = <<>>
  <2>1. Len(said) = 1 => Len(Tail(said)) = 0
    BY <1>2
  <2> QED BY <1>2, <2>1, EmptySeq
<1>5. Head(said) = said[1]
  OBVIOUS
<1> QED BY <1>1, <1>2, <1>3, <1>4, <1>5

\* A message is read.  Its source is the cell's own unless a line was cut, and
\* a result or an error leaves the worker with nothing.
LEMMA ServeStep ==
  ASSUME CodeIInv, NEW c \in M!Cells, M!Serve(c)
  PROVE  CodeIInv' /\ \A call \in nested' : call \notin nested => call[2] = c /\ cell[c].state # "gone"
<1> DEFINE k == cell[c].kid
           said == kid[k].out
           m == Head(said)
<1>1. /\ cell[c].task = "serving" /\ said # <<>> /\ UNCHANGED <<tool, proc>>
      /\ overflow' = IF m.kind = "long" THEN overflow \cup {k} ELSE overflow
  BY DEF M!Serve
<1>2. /\ kid \in [M!Kids -> KidShape] /\ CodeTyped /\ k \in M!Kids /\ lock = c /\ proc = k /\ c \in Served
      /\ cell[c].state \in State /\ cell[c].state \notin {"none", "gone"} \cup M!Ended
  BY <1>1 DEF CodeIInv, CodeTyped, CellShape, StatesTracked, LockTracked, Holding, Served
<1>3. /\ said \in Seq(Message)
      /\ m \in Message /\ m = said[1] /\ 1 \in DOMAIN said
      /\ Tail(said) \in Seq(Message) /\ Len(said) = 1 => Tail(said) = <<>>
      /\ \A i \in DOMAIN Tail(said) :
           i + 1 \in DOMAIN said /\ Tail(said)[i] = said[i + 1] /\ (i + 1 = Len(said) => i = Len(Tail(said)))
  <2>1. said \in Seq(Message)
    BY <1>2, KidIs
  <2> QED BY <1>1, <2>1, RestIs
<1>4. PICK o \in Seq(Message) : kid' = Said(kid, k, o) /\ (m.kind # "long" => o = Tail(said))
  <2>1. <<M!Message("rest", m.of)>> \o Tail(said) \in Seq(Message)
    <3>1. M!Message("rest", m.of) \in Message
      BY <1>3 DEF M!Message, Message
    <3>2. <<M!Message("rest", m.of)>> \in Seq(Message)
      BY <3>1
    <3> QED BY <1>3, <3>2, ConcatProperties
  <2>2. \/ kid' = Said(kid, k, Tail(said))
        \/ m.kind = "long" /\ kid' = Said(kid, k, <<M!Message("rest", m.of)>> \o Tail(said))
    BY DEF M!Serve, Said
  <2> DEFINE tail == Tail(said)
             cut == <<M!Message("rest", m.of)>> \o Tail(said)
  <2>3. tail \in Seq(Message) /\ cut \in Seq(Message)
    BY <1>3, <2>1
  <2>4. kid' = Said(kid, k, tail) \/ (m.kind = "long" /\ kid' = Said(kid, k, cut))
    BY <2>2
  <2> HIDE DEF tail, cut, m, k
  <2>5. \E o \in Seq(Message) : kid' = Said(kid, k, o) /\ (m.kind # "long" => o = tail)
    BY <2>3, <2>4
  <2> QED BY <2>5 DEF tail
<1>5. \/ /\ m.kind = "tool_call" /\ cell' = [cell EXCEPT ![c].task = "nested"]
         /\ nested' = nested \cup {<<m.of, c>>} /\ lock' = lock
      \/ /\ \E state \in {"completed", "failed"} : cell' = Ends(c, "done", state)
         /\ lock' = M!None /\ nested' = nested
         /\ m.kind \in {"result", "error", "long", "rest"}
  BY DEF M!Serve, M!Ending, Ends
<1> HIDE DEF k, said, m
<1>6. /\ kid' \in [M!Kids -> KidShape] /\ kid'[k].cell = kid[k].cell /\ kid'[k].in = kid[k].in
      /\ kid'[k].out = o /\ \A j \in M!Kids : j # k => kid'[j] = kid[j]
  BY <1>2, <1>4, SaidSet
<1>7. overflow' = {} => overflow = {} /\ m.kind # "long" /\ k \in Owned[c] /\ o = Tail(said)
  BY <1>1, <1>2, <1>4 DEF CodeIInv, WorkersTracked, k
<1>8. overflow' = {} =>
        /\ m.of = c /\ m.kind # "rest"
        /\ m.kind \in {"result", "error"} => Len(said) = 1 /\ kid[k].cell = M!None /\ kid[k].in = <<>>
        /\ kid[k].in = <<>> /\ kid[k].cell \in {M!None, c}
        /\ \A i \in DOMAIN said :
             /\ said[i].of = c /\ said[i].kind # "rest"
             /\ said[i].kind \in {"result", "error"} =>
                  i = Len(said) /\ kid[k].cell = M!None /\ kid[k].in = <<>>
  <2> SUFFICES ASSUME overflow' = {}
               PROVE  /\ kid[k].in = <<>> /\ kid[k].cell \in {M!None, c}
                      /\ \A i \in DOMAIN said :
                           /\ said[i].of = c /\ said[i].kind # "rest"
                           /\ said[i].kind \in {"result", "error"} =>
                                i = Len(said) /\ kid[k].cell = M!None /\ kid[k].in = <<>>
    BY <1>3
  <2>1. k \in Owned[c]
    BY <1>7
  <2> QED BY <1>1, <2>1 DEF Owned, said
<1>9. CASE /\ m.kind = "tool_call" /\ cell' = [cell EXCEPT ![c].task = "nested"]
           /\ nested' = nested \cup {<<m.of, c>>} /\ lock' = lock
  <2> DEFINE f == [cell EXCEPT ![c].task = "nested"]
  <2>1. /\ f \in [M!Cells -> CellShape] /\ f[c].task = "nested" /\ f[c].state = cell[c].state
        /\ f[c].kid = k /\ \A d \in M!Cells : d # c => f[d] = cell[d]
    <3>1. "nested" \in Task /\ cell \in [M!Cells -> CellShape]
      BY <1>2 DEF Task, Holding, CodeTyped
    <3> QED BY <3>1, CellSet DEF k
  <2>2. cell' = f
    BY <1>9
  <2> HIDE DEF f
  <2>3. c \in Served'
    BY <2>1, <2>2 DEF Served
  <2>4. overflow' = {} => k \in Owned'[c]
    <3> SUFFICES ASSUME overflow' = {} PROVE k \in Owned'[c]
      OBVIOUS
    <3>1. \A i \in DOMAIN o :
            /\ o[i].of = c /\ o[i].kind # "rest"
            /\ o[i].kind \in {"result", "error"} => i = Len(o) /\ kid[k].cell = M!None /\ kid[k].in = <<>>
      <4> TAKE i \in DOMAIN o
      <4>1. i + 1 \in DOMAIN said /\ o[i] = said[i + 1] /\ (i + 1 = Len(said) => i = Len(o))
        BY <1>3, <1>7
      <4> QED BY <1>8, <4>1
    <3> QED BY <1>2, <1>6, <1>8, <3>1 DEF Owned
  <2>5. overflow' = {} => \A call \in nested' : call[1] = call[2]
    BY <1>7, <1>8, <1>9 DEF CodeIInv, WorkersTracked
  <2>6. CodeIInv'
    BY <1>1, <1>2, <1>6, <1>9, <2>1, <2>2, <2>3, <2>4, <2>5, HolderKeeps
  <2> QED BY <1>2, <1>9, <2>6
<1>10. CASE /\ \E state \in {"completed", "failed"} : cell' = Ends(c, "done", state)
            /\ lock' = M!None /\ nested' = nested
            /\ m.kind \in {"result", "error", "long", "rest"}
  <2>1. PICK state \in {"completed", "failed"} : cell' = Ends(c, "done", state)
    BY <1>10
  <2>2. /\ cell' \in [M!Cells -> CellShape] /\ cell'[c].task = "done" /\ cell'[c].state = state
        /\ \A d \in M!Cells : d # c => cell'[d] = cell[d]
    <3>1. state \in State /\ "done" \in Task
      BY DEF State, M!Ended, Task
    <3> QED BY <1>2, <2>1, <3>1, CellSetTwo
  <2>3. c \notin Served'
    BY <2>2 DEF Served
  <2>4. overflow' = {} => k \in Clean' /\ \A call \in nested' : call[1] = call[2]
    <3> SUFFICES ASSUME overflow' = {} PROVE k \in Clean' /\ \A call \in nested' : call[1] = call[2]
      OBVIOUS
    <3>1. o = <<>> /\ kid[k].cell = M!None /\ kid[k].in = <<>>
      BY <1>3, <1>7, <1>8, <1>10
    <3> QED BY <1>2, <1>6, <1>7, <1>10, <3>1 DEF Clean, CodeIInv, WorkersTracked
  <2>5. CodeIInv'
    BY <1>1, <1>2, <1>6, <1>10, <2>2, <2>3, <2>4, HolderKeeps DEF Holding
  <2> QED BY <1>10, <2>5
<1> QED BY <1>5, <1>9, <1>10

\* The rest of a task: the nested call ends, the worker has exited, or the
\* discarded worker is gone.
LEMMA TaskStep ==
  ASSUME CodeIInv, NEW c \in M!Cells, M!NestedEnds(c) \/ M!PipeEnds(c) \/ M!Closed(c)
  PROVE  CodeIInv' /\ nested' = nested
<1>1. UNCHANGED <<tool, nested, overflow>>
  BY DEF M!NestedEnds, M!PipeEnds, M!Closed
<1>2. /\ kid \in [M!Kids -> KidShape] /\ CodeTyped /\ cell[c].task \in Holding /\ lock = c /\ cell[c].kid \in M!Kids
      /\ cell[c].state \notin {"none", "gone"} \cup M!Ended /\ cell[c].ends \in State
  BY DEF M!NestedEnds, M!PipeEnds, M!Closed, CodeIInv, CodeTyped, CellShape, StatesTracked, LockTracked, Holding
<1>3. CASE M!NestedEnds(c)
  <2> DEFINE f == [cell EXCEPT ![c].task = "serving"]
  <2>1. /\ f \in [M!Cells -> CellShape] /\ f[c].task = "serving" /\ f[c].state = cell[c].state
        /\ f[c].kid = cell[c].kid /\ \A d \in M!Cells : d # c => f[d] = cell[d]
    <3>1. "serving" \in Task /\ cell \in [M!Cells -> CellShape]
      BY <1>2 DEF Task, Holding, CodeTyped
    <3> QED BY <3>1, CellSet
  <2>2. cell' = f /\ kid' = Told(kid, cell[c].kid) /\ UNCHANGED <<lock, proc>> /\ cell[c].task = "nested"
    BY <1>3 DEF M!NestedEnds, Told
  <2> HIDE DEF f
  <2>3. /\ kid' \in [M!Kids -> KidShape]
        /\ \A k \in M!Kids : kid'[k].cell = kid[k].cell /\ kid'[k].in = kid[k].in /\ kid'[k].out = kid[k].out
    BY <1>2, <2>2, FlagSet
  <2>4. c \in Served /\ c \in Served'
    BY <2>1, <2>2 DEF Served
  <2> QED BY <1>1, <1>2, <2>1, <2>2, <2>3, <2>4, TableKeeps
<1>4. CASE M!PipeEnds(c)
  <2>1. cell' = Ends(c, "done", "failed") /\ lock' = M!None /\ proc' = M!None /\ kid' = kid /\ cell[c].task = "serving"
    BY <1>4 DEF M!PipeEnds, M!Ending, Ends
  <2>2. /\ cell' \in [M!Cells -> CellShape] /\ cell'[c].task = "done" /\ cell'[c].state = "failed"
        /\ \A d \in M!Cells : d # c => cell'[d] = cell[d]
    <3>1. "failed" \in State /\ "done" \in Task
      BY DEF State, M!Ended, Task
    <3> QED BY <1>2, <2>1, <3>1, CellSetTwo
  <2>3. c \in Served /\ c \notin Served'
    BY <2>1, <2>2 DEF Served
  <2> QED BY <1>1, <1>2, <2>1, <2>2, <2>3, TableKeeps DEF Holding
<1>5. CASE M!Closed(c)
  <2>1. /\ cell' = Ends(c, "done", cell[c].ends) /\ lock' = M!None /\ proc' = proc /\ kid' = Dies(kid, cell[c].kid)
        /\ cell[c].task = "closing" /\ cell[c].ends # "none"
    BY <1>5 DEF M!Closed, Ends, Dies, CodeIInv, StatesTracked
  <2>2. /\ cell' \in [M!Cells -> CellShape] /\ cell'[c].task = "done" /\ cell'[c].state # "none"
        /\ \A d \in M!Cells : d # c => cell'[d] = cell[d]
    <3>1. "done" \in Task
      BY DEF Task
    <3> QED BY <1>2, <2>1, <3>1, CellSetTwo
  <2>3. /\ kid' \in [M!Kids -> KidShape]
        /\ \A k \in M!Kids : kid'[k].cell = kid[k].cell /\ kid'[k].in = kid[k].in /\ kid'[k].out = kid[k].out
    BY <1>2, <2>1, FlagSet
  <2>4. c \notin Served /\ c \notin Served'
    BY <2>1, <2>2 DEF Served
  <2> QED BY <1>1, <1>2, <2>1, <2>2, <2>3, <2>4, TableKeeps DEF Holding
<1> QED BY <1>1, <1>3, <1>4, <1>5

\* Every step of Code Mode.
LEMMA CodeStep ==
  ASSUME CodeIInv, M!Next
  PROVE  /\ CodeIInv'
         /\ overflow' = {} => \A call \in nested' :
              call[1] = call[2] /\ (call \notin nested => cell[call[1]].state # "gone")
<1>1. CodeIInv' /\ \A call \in nested' : call \notin nested => cell[call[2]].state # "gone"
  <2>1. CASE \E c \in M!Cells : M!Serve(c)
    BY <2>1, ServeStep
  <2>2. CASE \E c \in M!Cells : M!TakeLock(c)
    BY <2>2, TakeLockStep
  <2>3. CASE \E c \in M!Cells : M!Started(c)
    BY <2>3, StartedStep
  <2>4. CASE \E c \in M!Cells : M!NestedEnds(c) \/ M!PipeEnds(c) \/ M!Closed(c)
    BY <2>4, TaskStep
  <2>5. CASE \/ \E c \in M!Cells, timed \in BOOLEAN, waits \in BOOLEAN : M!StartCell(c, timed, waits)
             \/ \E c \in M!Cells, kill \in BOOLEAN : M!WaitCell(c, kill)
             \/ M!WaitReturns \/ M!RunEnds \/ \E c \in M!Cells : M!TimesOut(c)
    BY <2>5, TableStep
  <2>6. CASE \E k \in M!Kids : M!Worker(k)
    BY <2>6, WorkerStep
  <2> QED BY <2>1, <2>2, <2>3, <2>4, <2>5, <2>6 DEF M!Next, M!Task
<1>2. overflow' = {} => \A call \in nested' : call[1] = call[2]
  BY <1>1 DEF CodeIInv, WorkersTracked
<1> QED BY <1>1, <1>2

\* No cell has been started.
LEMMA CodeInit ==
  ASSUME M!Init
  PROVE  CodeIInv
<1>1. M!None \notin M!Cells
  BY DEF M!None, M!Cells
<1>2. CodeTyped
  <2>1. cell \in [M!Cells -> CellShape]
    BY DEF M!Init, CellShape, State, Task
  <2>2. kid \in [M!Kids -> KidShape]
    BY DEF M!Init, M!NoKid, KidShape
  <2> QED BY <2>1, <2>2 DEF M!Init, CodeTyped
<1>3. \A c \in M!Cells : cell[c].task = "none" /\ cell[c].state = "none"
  BY DEF M!Init
<1>4. Served = {}
  BY <1>3 DEF Served
<1>5. LockTracked /\ StatesTracked
  BY <1>3, <1>4 DEF LockTracked, StatesTracked, Holding, M!Ended
<1>6. WorkersTracked
  BY <1>3, <1>4 DEF WorkersTracked, M!Init
<1> QED BY <1>2, <1>5, <1>6 DEF CodeIInv

(* A nested call is carried out for the cell whose source made it, and no  *)
(* new one for a cell the model has been told the end of, as long as no    *)
(* worker's pipe held a line over the limit: for any number of cells,      *)
(* workers, steps and crashes (code_mode/service.py).                      *)
THEOREM CallsAreOwned == Spec => CellsOwnTheirCalls
<1>1. Init => CodeIInv
  BY CodeInit DEF Init
<1>2. CodeIInv /\ [Next]_vars => CodeIInv'
  <2>1. CASE M!Next
    BY <2>1, CodeStep
  <2>2. CASE UNCHANGED cells
    BY <2>2 DEF cells, CodeIInv, CodeTyped, LockTracked, StatesTracked, WorkersTracked, Served, Clean, Owned
  <2> QED BY <2>1, <2>2 DEF Next, vars
<1>3. CodeIInv /\ [Next]_vars =>
        [overflow' = {} =>
           \A call \in nested' :
             /\ call[1] = call[2]
             /\ call \notin nested => cell[call[1]].state # "gone"]_M!vars
  <2>1. CASE M!Next
    BY <2>1, CodeStep
  <2>2. CASE UNCHANGED cells
    BY <2>2 DEF cells, M!vars
  <2> QED BY <2>1, <2>2 DEF Next, vars
<1> QED BY <1>1, <1>2, <1>3, PTL DEF Spec, CellsOwnTheirCalls, M!CellsOwnTheirCalls

-----------------------------------------------------------------------------
(* The grep of the read-only worker                                        *)

\* A line of ripgrep's output, and what a grep may be.
Line == {R!Match, R!Long, R!Complaint}
Stops == {"exited", "failed"}
GrepShape == [matches : Nat, limitHit : BOOLEAN, early : BOOLEAN, broken : BOOLEAN,
              status : {"none", "ok", "command_error"}]

GrepTyped ==
  /\ script \in Seq(Line) /\ out \in Seq(Line) /\ wrote \in Nat /\ grep \in GrepShape
  /\ rg \in Stops \cup {"running", "killed"} /\ go \in {"stdout", "stderr", "done"}

\* While the matches are read nothing is decided, and none is lost.
ScanTracked ==
  go = "stdout" =>
    /\ ~grep.limitHit /\ ~grep.early /\ ~grep.broken /\ grep.matches <= Limit
    /\ wrote = grep.matches + Len(out) /\ rg # "killed"

\* Afterwards ripgrep has ended, unless the scan broke off, and the flag is
\* set exactly when a match beyond the limit was seen.
EndTracked ==
  go # "stdout" /\ ~grep.broken =>
    /\ rg # "running" /\ grep.early = grep.limitHit
    /\ grep.limitHit => grep.matches = Limit /\ wrote > Limit
    /\ ~grep.limitHit => grep.matches = wrote /\ rg # "killed"

GrepIInv ==
  /\ GrepTyped /\ ScanTracked /\ EndTracked
  /\ rg \in Stops => script = <<>>
  /\ go = "done" => rg # "running"
  /\ go = "done" /\ grep.broken => grep.status # "ok"


-----------------------------------------------------------------------------
\* What ripgrep has to write, has written, and holds in a pipe are its lines.
LEMMA LinesMove ==
  ASSUME NEW from \in Seq(Line), NEW to \in Seq(Line)
  PROVE  /\ Len(from) \in Nat /\ (Len(from) = 0 <=> from = <<>>)
         /\ from # <<>> => /\ Head(from) \in Line /\ Tail(from) \in Seq(Line)
                           /\ Len(Tail(from)) = Len(from) - 1
                           /\ Append(to, Head(from)) \in Seq(Line)
                           /\ Len(Append(to, Head(from))) = Len(to) + 1
<1>1. Len(from) \in Nat /\ (Len(from) = 0 <=> from = <<>>)
  BY LenProperties, EmptySeq
<1>2. ASSUME from # <<>>
      PROVE  Head(from) \in Line /\ Tail(from) \in Seq(Line) /\ Len(Tail(from)) = Len(from) - 1
  BY <1>2, HeadTailProperties
<1>3. ASSUME NEW line \in Line
      PROVE  Append(to, line) \in Seq(Line) /\ Len(Append(to, line)) = Len(to) + 1
  BY AppendProperties
<1> QED BY <1>1, <1>2, <1>3

\* ripgrep writes a line, or exits.
LEMMA RgStep ==
  ASSUME GrepIInv, R!RgWrites \/ R!RgExits
  PROVE  GrepIInv'
<1>1. CASE R!RgWrites
  <2>1. script # <<>> /\ rg = "running" /\ UNCHANGED <<rg, go, grep>> /\ script' = Tail(script)
    BY <1>1 DEF R!RgWrites, R!More
  <2>2. /\ script' \in Seq(Line) /\ Head(script) \in Line
        /\ Append(out, Head(script)) \in Seq(Line) /\ Len(Append(out, Head(script))) = Len(out) + 1
    BY <2>1, LinesMove DEF GrepIInv, GrepTyped
  <2>3. \/ out' = out /\ wrote' = wrote
        \/ out' = Append(out, Head(script)) /\ wrote' = wrote + 1
    BY <1>1 DEF R!RgWrites
  <2>4. Len(out) \in Nat
    BY LinesMove DEF GrepIInv, GrepTyped
  <2>5. GrepTyped'
    <3> DEFINE more == Append(out, Head(script))
    <3>1. more \in Seq(Line) /\ out \in Seq(Line) /\ wrote \in Nat /\ wrote + 1 \in Nat
      BY <2>2 DEF GrepIInv, GrepTyped
    <3>2. (out' = out /\ wrote' = wrote) \/ (out' = more /\ wrote' = wrote + 1)
      BY <2>3
    <3> HIDE DEF more
    <3>3. out' \in Seq(Line) /\ wrote' \in Nat
      BY <3>1, <3>2
    <3> QED BY <2>1, <2>2, <3>3 DEF GrepIInv, GrepTyped
  <2>6. ScanTracked'
    BY <2>1, <2>2, <2>3, <2>4 DEF GrepIInv, GrepTyped, GrepShape, ScanTracked
  <2>7. EndTracked'
    BY <2>1 DEF GrepIInv, EndTracked
  <2> QED BY <2>1, <2>5, <2>6, <2>7 DEF GrepIInv, Stops
<1>2. CASE R!RgExits
  BY <1>2 DEF R!RgExits, GrepIInv, GrepTyped, ScanTracked, EndTracked, Stops
<1> QED BY <1>1, <1>2

\* The worker reads a match, or a line that breaks its scan off.
LEMMA ScanStep ==
  ASSUME GrepIInv, R!Scan
  PROVE  GrepIInv'
<1>1. go = "stdout" /\ out # <<>> /\ UNCHANGED <<script, wrote>>
  BY DEF R!Scan
<1>2. /\ Tail(out) \in Seq(Line) /\ Len(Tail(out)) = Len(out) - 1 /\ Len(out) \in Nat /\ Len(out) # 0
      /\ wrote \in Nat /\ grep \in GrepShape /\ grep.matches \in Nat
  BY <1>1, LinesMove DEF GrepIInv, GrepTyped, GrepShape
<1>3. /\ ~grep.limitHit /\ ~grep.early /\ ~grep.broken /\ grep.matches <= Limit
      /\ wrote = grep.matches + Len(out) /\ rg # "killed"
  BY <1>1 DEF GrepIInv, ScanTracked
<1>4. CASE /\ grep.matches < Limit /\ grep' = [grep EXCEPT !.matches = @ + 1] /\ out' = Tail(out)
           /\ UNCHANGED <<rg, go>>
  <2>1. /\ grep' \in GrepShape /\ grep'.matches = grep.matches + 1 /\ ~grep'.limitHit /\ ~grep'.early
        /\ ~grep'.broken
    BY <1>2, <1>3, <1>4 DEF GrepShape
  <2>2. ScanTracked'
    BY <1>1, <1>2, <1>3, <1>4, <2>1, LimitIsCount DEF ScanTracked
  <2> QED BY <1>1, <1>2, <1>4, <2>1, <2>2 DEF GrepIInv, GrepTyped, EndTracked
<1>5. CASE /\ grep.matches >= Limit /\ grep' = [grep EXCEPT !.limitHit = TRUE, !.early = TRUE]
           /\ out' = Tail(out) /\ R!Stop
  <2>1. /\ grep' \in GrepShape /\ grep'.matches = grep.matches /\ grep'.limitHit /\ grep'.early
        /\ ~grep'.broken
    BY <1>2, <1>3, <1>5 DEF GrepShape
  <2>2. /\ go' = "stderr" /\ rg' \in Stops \cup {"killed"} /\ (rg' \in Stops => rg' = rg)
    BY <1>3, <1>5 DEF R!Stop, GrepIInv, GrepTyped, Stops
  <2>3. EndTracked'
    BY <1>1, <1>2, <1>3, <1>5, <2>1, <2>2, LimitIsCount DEF EndTracked, Stops
  <2>4. GrepTyped' /\ ScanTracked'
    BY <1>1, <1>2, <1>5, <2>1, <2>2 DEF GrepIInv, GrepTyped, ScanTracked
  <2> QED BY <1>1, <2>2, <2>3, <2>4 DEF GrepIInv
<1>6. CASE /\ grep' = [grep EXCEPT !.broken = TRUE] /\ out' = Tail(out) /\ go' = "stderr" /\ rg' = rg
  <2>1. grep' \in GrepShape /\ grep'.broken
    BY <1>2, <1>6 DEF GrepShape
  <2> QED BY <1>1, <1>2, <1>6, <2>1 DEF GrepIInv, GrepTyped, ScanTracked, EndTracked
<1> QED BY <1>4, <1>5, <1>6 DEF R!Scan

\* The scan ends with ripgrep, stderr is drained, and the grep has its status.
LEMMA EndStep ==
  ASSUME GrepIInv, R!ScanEnds \/ R!DrainStderr \/ R!GrepEnds
  PROVE  GrepIInv'
<1>1. /\ wrote \in Nat /\ grep \in GrepShape /\ grep.matches \in Nat /\ UNCHANGED <<script, wrote, out, rg>>
  BY DEF GrepIInv, GrepTyped, GrepShape, R!ScanEnds, R!DrainStderr, R!GrepEnds
<1>2. CASE R!ScanEnds
  <2>1. /\ out = <<>> /\ rg # "running" /\ go = "stdout" /\ go' = "stderr" /\ grep' = grep
    BY <1>2 DEF R!ScanEnds
  <2>2. Len(out) = 0
    BY <2>1, LinesMove DEF GrepIInv, GrepTyped
  <2> QED BY <1>1, <2>1, <2>2 DEF GrepIInv, GrepTyped, GrepShape, ScanTracked, EndTracked
<1>3. CASE R!DrainStderr
  BY <1>1, <1>3 DEF R!DrainStderr, GrepIInv, GrepTyped, ScanTracked, EndTracked
<1>4. CASE R!GrepEnds
  <2>1. /\ rg # "running" /\ go = "stderr" /\ go' = "done"
    BY <1>4 DEF R!GrepEnds
  <2>2. PICK status \in {"ok", "command_error"} :
          grep' = [grep EXCEPT !.status = status] /\ (grep.broken => status # "ok")
    BY <1>4 DEF R!GrepEnds
  <2>3. /\ grep' \in GrepShape /\ grep'.matches = grep.matches /\ grep'.limitHit = grep.limitHit
        /\ grep'.early = grep.early /\ grep'.broken = grep.broken /\ grep'.status = status
    BY <1>1, <2>2 DEF GrepShape
  <2> QED BY <1>1, <2>1, <2>2, <2>3 DEF GrepIInv, GrepTyped, ScanTracked, EndTracked
<1> QED BY <1>2, <1>3, <1>4

\* A grep that is to be scanned, or none.
LEMMA GrepInit ==
  ASSUME Init
  PROVE  GrepIInv
<1>1. /\ R!NoGrep \in GrepShape /\ R!NoGrep.limitHit = FALSE /\ R!NoGrep.early = FALSE
      /\ R!NoGrep.broken = FALSE /\ R!NoGrep.matches = 0
  BY DEF R!NoGrep, GrepShape
<1>2. Len(<<>>) = 0 /\ <<>> \in Seq(Line)
  BY EmptySeq
<1>3. CASE R!GrepIdle
  <2>1. script = <<>> /\ wrote = 0 /\ out = <<>> /\ rg = "exited" /\ go = "done" /\ grep = R!NoGrep
    BY <1>3 DEF R!GrepIdle
  <2>2. GrepTyped
    BY <1>1, <1>2, <2>1 DEF GrepTyped, Stops
  <2> QED BY <1>1, <2>1, <2>2 DEF GrepIInv, ScanTracked, EndTracked
<1>4. CASE R!InitGrep
  <2>1. script \in Seq(Line)
    <3>1. PICK n \in 0..MaxOutput : script \in [1..n -> Line]
      BY <1>4 DEF R!InitGrep, Line
    <3>2. n \in Nat
      OBVIOUS
    <3> QED BY <3>1, <3>2, SeqDef
  <2> QED BY <1>1, <1>2, <1>4, <2>1, LimitIsCount
        DEF R!InitGrep, GrepIInv, GrepTyped, ScanTracked, EndTracked, Stops
<1> QED BY <1>3, <1>4 DEF Init, R!Init

\* LimitIsHonest (ReadOnlyTools.tla): a grep that succeeds has every match, or
\* says that it stopped at the limit and there was more; for any output of
\* ripgrep, in any order with the worker's reads (main.go).
THEOREM GrepLimitIsHonest == Spec => []R!LimitIsHonest
<1>1. Init => GrepIInv
  BY GrepInit
<1>2. GrepIInv /\ [Next]_vars => GrepIInv'
  <2>1. CASE R!GrepStep
    BY <2>1, RgStep, ScanStep, EndStep DEF R!GrepStep
  <2>2. CASE UNCHANGED R!grepping
    BY <2>2 DEF R!grepping, GrepIInv, GrepTyped, ScanTracked, EndTracked
  <2> QED BY <2>1, <2>2 DEF Next, vars, work, R!Next, R!Read, R!grepping
<1>3. GrepIInv => R!LimitIsHonest
  BY DEF GrepIInv, GrepTyped, EndTracked, R!LimitIsHonest, Stops
<1> QED BY <1>1, <1>2, <1>3, PTL DEF Spec

-----------------------------------------------------------------------------
(* The pages of the read-only worker                                       *)

\* A file and what the model was given of it.
PagesTyped == file \in Seq(Nat) /\ offset \in 0..Len(file) /\ seen \in Seq(Nat)

PagesIInv == PagesTyped /\ R!PagesCoverFile

\* A set of numbers that is not empty has a least one.
LEMMA LeastOf ==
  ASSUME NEW T, T \subseteq Nat, T # {}
  PROVE  \E n \in T : \A m \in T : n <= m
<1> DEFINE R0 == OpToRel(<,Nat)
<1>1. IsWellFoundedOn(R0, Nat)
  BY NatLessThanWellFounded
<1>2. \A x \in Nat, y \in Nat : y < x => <<y,x>> \in R0
  BY DEF OpToRel
<1> HIDE DEF R0
<1>3. PICK x \in T : \A y \in T : ~ (<<y, x>> \in R0)
  BY <1>1, WFMin
<1>4. ASSUME NEW y \in T PROVE x <= y
  <2>1. x \in Nat /\ y \in Nat
    OBVIOUS
  <2>2. ~(y < x)
    BY <1>2, <1>3, <2>1
  <2> QED BY <2>1, <2>2
<1> QED BY <1>4

\* A set that has 0, and with each number below n the next, has all up to n.
LEMMA UpFromZero ==
  ASSUME NEW n \in Nat, NEW T, 0 \in T, \A i \in 0 .. n - 1 : i \in T => i + 1 \in T
  PROVE  \A i \in 0 .. n : i \in T
<1> DEFINE missing == {i \in 0 .. n : i \notin T}
<1> SUFFICES ASSUME missing # {} PROVE FALSE
  OBVIOUS
<1>1. PICK m \in missing : \A i \in missing : m <= i
  <2>1. missing \subseteq Nat
    OBVIOUS
  <2> HIDE DEF missing
  <2> QED BY <2>1, LeastOf
<1>2. m # 0 /\ m \in 0 .. n
  BY <1>1
<1>3. m - 1 \in 0 .. n - 1 /\ m - 1 \notin missing
  BY <1>1, <1>2
<1> QED BY <1>1, <1>2, <1>3

\* The recursion of Bytes has a solution, so Bytes satisfies it.
LEMMA BytesAre ==
  ASSUME NEW lines \in Seq(Nat)
  PROVE  /\ R!Bytes(lines)[0] = 0
         /\ \A i \in 1 .. Len(lines) : R!Bytes(lines)[i] = R!Bytes(lines)[i - 1] + lines[i]
<1>0. Len(lines) \in Nat
  BY LenProperties
<1> DEFINE D == 0 .. Len(lines)
           Follow(g, n) == g[0] = 0 /\ \A i \in 1 .. n : g[i] = g[i - 1] + lines[i]
           T == {n \in D : \E g : Follow(g, n)}
<1>1. 0 \in T
  <2> DEFINE h == [i \in D |-> 0]
  <2>1. h[0] = 0
    BY <1>0
  <2> HIDE DEF h
  <2>2. Follow(h, 0)
    BY <2>1
  <2> QED BY <1>0, <2>2
<1>2. ASSUME NEW n \in 0 .. Len(lines) - 1, n \in T PROVE n + 1 \in T
  <2>1. PICK g : Follow(g, n)
    BY <1>2
  <2> DEFINE h == [i \in D |-> IF i = n + 1 THEN g[n] + lines[n + 1] ELSE g[i]]
  <2>2. n + 1 \in D /\ n \in Nat /\ \A i \in 0 .. n : i \in D /\ i # n + 1
    BY <1>0
  <2>3. h[n + 1] = g[n] + lines[n + 1] /\ \A i \in 0 .. n : h[i] = g[i]
    BY <2>2
  <2> HIDE DEF h
  <2>4. ASSUME NEW i \in 1 .. n + 1 PROVE h[i] = h[i - 1] + lines[i]
    <3>1. CASE i = n + 1
      BY <2>2, <2>3, <3>1
    <3>2. CASE i # n + 1
      <4>1. i \in 1 .. n /\ i \in 0 .. n /\ i - 1 \in 0 .. n
        BY <2>2, <3>2
      <4> QED BY <2>1, <2>3, <4>1
    <3> QED BY <3>1, <3>2
  <2>5. h[0] = 0
    BY <2>1, <2>2, <2>3
  <2>6. Follow(h, n + 1)
    BY <2>4, <2>5
  <2> QED BY <2>2, <2>6
<1>3. Len(lines) \in T
  <2> HIDE DEF T
  <2>1. \A i \in 0 .. Len(lines) : i \in T
    BY <1>0, <1>1, <1>2, UpFromZero
  <2> QED BY <1>0, <2>1
<1>4. PICK g : Follow(g, Len(lines))
  BY <1>3
<1> DEFINE f == [i \in D |-> g[i]]
<1>5. f = [i \in D |-> IF i = 0 THEN 0 ELSE f[i - 1] + lines[i]]
  <2>1. \A i \in D : f[i] = IF i = 0 THEN 0 ELSE f[i - 1] + lines[i]
    BY <1>0, <1>4
  <2> QED BY <2>1
<1> DEFINE G == R!Bytes(lines)
<1>6. G = [i \in D |-> IF i = 0 THEN 0 ELSE G[i - 1] + lines[i]]
  BY <1>5, Zenon DEF R!Bytes
<1> HIDE DEF G
<1>7. /\ G[0] = 0
      /\ \A i \in 1 .. Len(lines) : G[i] = G[i - 1] + lines[i]
  BY <1>0, <1>6
<1> QED BY <1>7 DEF G

\* The sums are numbers, and grow with each line by what it has.
LEMMA BytesGrow ==
  ASSUME NEW lines \in Seq(Nat)
  PROVE  /\ \A i \in 0 .. Len(lines) : R!Bytes(lines)[i] \in Nat
         /\ \A n \in 0 .. Len(lines) : \A i \in 1 .. n : lines[i] <= R!Bytes(lines)[n]
<1> DEFINE sum == R!Bytes(lines)
<1>0. Len(lines) \in Nat /\ \A i \in 1 .. Len(lines) : lines[i] \in Nat
  BY LenProperties, ElementOfSeq
<1>1. sum[0] = 0 /\ \A i \in 1 .. Len(lines) : sum[i] = sum[i - 1] + lines[i]
  BY BytesAre
<1> HIDE DEF sum
<1> DEFINE T == {n \in Nat : sum[n] \in Nat /\ \A i \in 1 .. n : lines[i] <= sum[n]}
<1>2. 0 \in T
  BY <1>1
<1>3. ASSUME NEW n \in 0 .. Len(lines) - 1, n \in T PROVE n + 1 \in T
  <2>1. n + 1 \in 1 .. Len(lines) /\ n \in Nat /\ (n + 1) - 1 = n
    BY <1>0
  <2>2. sum[n] \in Nat /\ lines[n + 1] \in Nat /\ sum[n + 1] = sum[n] + lines[n + 1]
    BY <1>0, <1>1, <1>3, <2>1
  <2>3. ASSUME NEW i \in 1 .. n + 1 PROVE lines[i] <= sum[n + 1]
    <3>1. CASE i = n + 1
      BY <2>2, <3>1
    <3>2. CASE i \in 1 .. n
      <4>1. lines[i] <= sum[n] /\ lines[i] \in Nat
        BY <1>0, <1>3, <2>1, <3>2
      <4> QED BY <2>2, <4>1
    <3> QED BY <2>1, <3>1, <3>2
  <2> QED BY <2>1, <2>2, <2>3
<1> HIDE DEF T
<1>4. \A i \in 0 .. Len(lines) : i \in T
  BY <1>0, <1>2, <1>3, UpFromZero
<1> QED BY <1>0, <1>4 DEF T, sum

\* There is a window: the greatest number of lines within both caps.
LEMMA WindowIs ==
  ASSUME NEW lines \in Seq(Nat)
  PROVE  LET n == R!Window(lines) IN
         /\ n \in 0 .. Len(lines)
         /\ \A i \in 1 .. n : lines[i] <= ByteCap
         /\ n = 0 /\ lines # <<>> => lines[1] > ByteCap
<1> DEFINE sum == R!Bytes(lines)
           Within(n) == n <= LineCap /\ sum[n] <= ByteCap
           Full(n) == n = Len(lines) \/ n = LineCap \/ sum[n + 1] > ByteCap
<1>0. Len(lines) \in Nat /\ LineCap \in Nat /\ LineCap # 0 /\ ByteCap \in Nat
  BY LenProperties, CapsAreCounts
<1>1. /\ \A i \in 0 .. Len(lines) : sum[i] \in Nat
      /\ \A n \in 0 .. Len(lines) : \A i \in 1 .. n : lines[i] <= sum[n]
      /\ sum[0] = 0 /\ \A i \in 1 .. Len(lines) : sum[i] = sum[i - 1] + lines[i]
  BY BytesGrow, BytesAre
<1>2. R!Window(lines) = CHOOSE n \in 0 .. Len(lines) : Within(n) /\ Full(n)
  BY Zenon DEF R!Window
<1> HIDE DEF sum
<1>3. \E n \in 0 .. Len(lines) : Within(n) /\ Full(n)
  <2> DEFINE T == {n \in 0 .. Len(lines) : Within(n)}
  <2>1. 0 \in T
    BY <1>0, <1>1
  <2> SUFFICES ASSUME \A n \in T : ~Full(n) PROVE FALSE
    OBVIOUS
  <2>2. ASSUME NEW n \in 0 .. Len(lines) - 1, n \in T PROVE n + 1 \in T
    <3>1. n \in Nat /\ n # LineCap /\ n <= LineCap /\ ~(sum[n + 1] > ByteCap)
      BY <1>0, <2>2
    <3>2. n + 1 \in 0 .. Len(lines) /\ sum[n + 1] \in Nat
      BY <1>0, <1>1
    <3> QED BY <1>0, <3>1, <3>2
  <2>3. Len(lines) \in T
    <3> HIDE DEF T
    <3>1. \A i \in 0 .. Len(lines) : i \in T
      BY <1>0, <2>1, <2>2, UpFromZero
    <3> QED BY <1>0, <3>1
  <2> QED BY <2>3
<1> DEFINE w == R!Window(lines)
<1>4. w \in 0 .. Len(lines) /\ Within(w) /\ Full(w)
  BY <1>2, <1>3, Zenon
<1> HIDE DEF w
<1>5. ASSUME NEW i \in 1 .. w PROVE lines[i] <= ByteCap
  <2>1. lines[i] <= sum[w] /\ sum[w] \in Nat /\ sum[w] <= ByteCap
    BY <1>1, <1>4
  <2>2. lines[i] \in Nat
    BY <1>0, <1>4, ElementOfSeq
  <2> QED BY <1>0, <2>1, <2>2
<1>6. ASSUME w = 0, lines # <<>> PROVE lines[1] > ByteCap
  <2>1. Len(lines) # 0
    BY <1>6, EmptySeq
  <2>2. 1 \in 1 .. Len(lines) /\ lines[1] \in Nat
    BY <1>0, <2>1, ElementOfSeq
  <2>3. sum[1] = lines[1]
    <3>1. sum[1] = sum[1 - 1] + lines[1]
      BY <1>1, <2>2
    <3> QED BY <1>1, <2>2, <3>1
  <2> QED BY <1>0, <1>4, <1>6, <2>1, <2>3
<1> QED BY <1>4, <1>5, <1>6 DEF w

\* The lines a read selects, from the offset on and up to the caller's limit.
LEMMA SelectedIs ==
  ASSUME PagesTyped, offset # 0, NEW limit \in Nat
  PROVE  LET rest == SubSeq(file, offset, Len(file))
             selected == IF limit # 0 THEN SubSeq(rest, 1, R!Min2(limit, Len(rest))) ELSE rest
         IN /\ selected \in Seq(Nat) /\ Len(selected) \in 1 .. Len(file) - offset + 1
            /\ \A i \in 1 .. Len(selected) : selected[i] = file[offset + i - 1]
            /\ limit = 0 => Len(selected) = Len(file) - offset + 1
<1> DEFINE rest == SubSeq(file, offset, Len(file))
           cut == SubSeq(rest, 1, R!Min2(limit, Len(rest)))
<1>1. file \in Seq(Nat) /\ Len(file) \in Nat /\ offset \in 1 .. Len(file)
  BY LenProperties DEF PagesTyped
<1>2. /\ rest \in Seq(Nat) /\ Len(rest) = Len(file) - offset + 1
      /\ \A i \in 1 .. Len(file) - offset + 1 : rest[i] = file[offset + i - 1]
  <2>1. \A i \in offset .. Len(file) : file[i] \in Nat
    BY <1>1, ElementOfSeq
  <2> QED BY <1>1, <2>1, SubSeqProperties
<1> HIDE DEF rest
<1>3. ASSUME limit # 0
      PROVE  /\ cut \in Seq(Nat) /\ Len(cut) \in 1 .. Len(rest)
             /\ \A i \in 1 .. Len(cut) : cut[i] = rest[i]
  <2> DEFINE m == R!Min2(limit, Len(rest))
  <2>1. m \in 1 .. Len(rest)
    BY <1>1, <1>2, <1>3 DEF R!Min2
  <2> HIDE DEF m
  <2>2. \A i \in 1 .. m : rest[i] \in Nat
    BY <1>2, <2>1, ElementOfSeq, LenProperties
  <2>3. cut = SubSeq(rest, 1, m)
    BY DEF m
  <2> HIDE DEF cut
  <2>4. m \in Int /\ 1 \in Int /\ 1 <= m /\ \A i \in 1 .. m : i \in 1 .. m - 1 + 1 /\ 1 + i - 1 = i
    BY <1>1, <1>2, <2>1
  <2>5. /\ SubSeq(rest, 1, m) \in Seq(Nat) /\ Len(SubSeq(rest, 1, m)) = m - 1 + 1
        /\ \A i \in 1 .. m - 1 + 1 : SubSeq(rest, 1, m)[i] = rest[1 + i - 1]
    BY <2>2, <2>4, SubSeqProperties
  <2>6. cut \in Seq(Nat) /\ Len(cut) = m /\ \A i \in 1 .. m : cut[i] = rest[i]
    BY <2>3, <2>4, <2>5
  <2> QED BY <2>1, <2>6
<1> DEFINE selected == IF limit # 0 THEN cut ELSE rest
<1>4. /\ selected \in Seq(Nat) /\ Len(selected) \in 1 .. Len(file) - offset + 1
      /\ \A i \in 1 .. Len(selected) : selected[i] = file[offset + i - 1]
      /\ limit = 0 => Len(selected) = Len(file) - offset + 1
  <2>1. CASE limit = 0
    BY <1>1, <1>2, <2>1
  <2>2. CASE limit # 0
    <3> HIDE DEF cut
    <3> QED BY <1>1, <1>2, <1>3, <2>2
  <2> QED BY <2>1, <2>2
<1> QED BY <1>4 DEF rest

\* A page: lines within the byte cap, unless the first one alone is over it,
\* and a hint exactly when the file goes on behind them.
LEMMA PageIs ==
  ASSUME PagesTyped, offset # 0, NEW limit \in Nat
  PROVE  LET page == R!PageEnd(limit) IN
         /\ page.count \in 0 .. Len(file) - offset + 1
         /\ \A i \in 1 .. page.count : file[offset + i - 1] <= ByteCap
         /\ page.count = 0 => file[offset] > ByteCap
         /\ page.next = IF offset - 1 + page.count < Len(file) THEN offset + page.count ELSE 0
<1> DEFINE rest == SubSeq(file, offset, Len(file))
           selected == IF limit # 0 THEN SubSeq(rest, 1, R!Min2(limit, Len(rest))) ELSE rest
           count == R!Window(selected)
           more == count < Len(selected) \/ (limit # 0 /\ offset - 1 + count < Len(file))
<1>1. R!PageEnd(limit) = [count |-> count, next |-> IF more THEN offset + count ELSE 0]
  BY Zenon DEF R!PageEnd, R!None
<1>2. /\ selected \in Seq(Nat) /\ Len(selected) \in 1 .. Len(file) - offset + 1
      /\ \A i \in 1 .. Len(selected) : selected[i] = file[offset + i - 1]
      /\ limit = 0 => Len(selected) = Len(file) - offset + 1
  BY SelectedIs
<1> HIDE DEF selected
<1>3. /\ count \in 0 .. Len(selected)
      /\ \A i \in 1 .. count : selected[i] <= ByteCap
      /\ count = 0 /\ selected # <<>> => selected[1] > ByteCap
  BY <1>2, WindowIs
<1> HIDE DEF count
<1>4. Len(file) \in Nat /\ offset \in 1 .. Len(file)
  BY LenProperties DEF PagesTyped
<1>5. count \in 0 .. Len(file) - offset + 1
  BY <1>2, <1>3, <1>4
<1>6. ASSUME NEW i \in 1 .. count PROVE file[offset + i - 1] <= ByteCap
  <2>1. i \in 1 .. Len(selected)
    BY <1>2, <1>3
  <2> QED BY <1>2, <1>3, <2>1
<1>7. ASSUME count = 0 PROVE file[offset] > ByteCap
  <2>1. selected # <<>> /\ 1 \in 1 .. Len(selected) /\ offset + 1 - 1 = offset
    BY <1>2, <1>4, EmptySeq
  <2>2. selected[1] = file[offset + 1 - 1]
    BY <1>2, <2>1
  <2> QED BY <1>3, <1>7, <2>1, <2>2
<1>8. more <=> offset - 1 + count < Len(file)
  BY <1>2, <1>3, <1>4
<1> HIDE DEF more
<1>9. /\ R!PageEnd(limit).count = count
      /\ R!PageEnd(limit).next = IF more THEN offset + count ELSE 0
  BY <1>1
<1> QED BY <1>5, <1>6, <1>7, <1>8, <1>9

\* After one more page, the lines given are the small ones up to its end.
LEMMA ReadStep ==
  ASSUME PagesIInv, NEW limit \in Nat, R!Read(limit)
  PROVE  PagesIInv'
<1> DEFINE n == R!PageEnd(limit).count
           page == [i \in 1 .. n |-> offset + i - 1]
           end == IF n = 0 THEN offset ELSE offset - 1 + n
           small(k) == {i \in 1 .. k : file[i] <= ByteCap}
<1>1. /\ file \in Seq(Nat) /\ Len(file) \in Nat /\ offset \in 1 .. Len(file) /\ seen \in Seq(Nat)
      /\ Len(seen) \in Nat /\ file' = file /\ seen' = seen \o page
  BY LenProperties DEF PagesIInv, PagesTyped, R!Read
<1>2. /\ n \in 0 .. Len(file) - offset + 1
      /\ \A i \in 1 .. n : file[offset + i - 1] <= ByteCap
      /\ n = 0 => file[offset] > ByteCap
      /\ R!PageEnd(limit).next = IF offset - 1 + n < Len(file) THEN offset + n ELSE 0
  BY <1>1, PageIs DEF PagesIInv
<1>3. offset' = IF n = 0 THEN (IF offset < Len(file) THEN offset + 1 ELSE 0)
                ELSE R!PageEnd(limit).next
  BY Zenon DEF R!Read, R!None
<1> HIDE DEF n
<1>3a. /\ Len(file) \in Nat /\ offset \in Nat /\ n \in Nat /\ Len(seen) \in Nat
      /\ offset >= 1 /\ offset <= Len(file) /\ n <= Len(file) - offset + 1
  BY <1>1, <1>2
<1>4. /\ offset' \in 0 .. Len(file) /\ end \in offset .. Len(file)
      /\ end = IF offset' = 0 THEN Len(file) ELSE offset' - 1
  <2>1. CASE n = 0
    BY <1>3a, <1>3, <2>1
  <2>2. CASE n # 0
    <3>1. offset' = IF offset - 1 + n < Len(file) THEN offset + n ELSE 0
      BY <1>2, <1>3, <2>2
    <3> QED BY <1>3a, <2>2, <3>1
  <2> QED BY <2>1, <2>2
<1>5. /\ page \in Seq(Nat) /\ Len(page) = n /\ \A i \in 1 .. n : page[i] = offset + i - 1
  <2>1. n \in Nat /\ \A i \in 1 .. n : offset + i - 1 \in Nat
    BY <1>1, <1>2
  <2>2. page \in [1 .. n -> Nat]
    BY <2>1
  <2> QED BY <2>1, <2>2, SeqDef, LenProperties
<1> HIDE DEF page
<1>6. /\ seen' \in Seq(Nat) /\ Len(seen') = Len(seen) + n /\ DOMAIN seen' = 1 .. Len(seen) + n
      /\ DOMAIN seen = 1 .. Len(seen)
      /\ \A i \in 1 .. Len(seen) : seen'[i] = seen[i]
      /\ \A i \in Len(seen) + 1 .. Len(seen) + n : seen'[i] = offset + (i - Len(seen)) - 1
  <2>1. /\ seen' \in Seq(Nat) /\ Len(seen') = Len(seen) + n
        /\ \A i \in 1 .. Len(seen) + n : seen'[i] = IF i <= Len(seen) THEN seen[i] ELSE page[i - Len(seen)]
    BY <1>1, <1>2, <1>5, ConcatProperties
  <2>2. \A i \in 1 .. Len(seen) : seen'[i] = seen[i]
    BY <1>1, <1>2, <2>1
  <2>3. ASSUME NEW i \in Len(seen) + 1 .. Len(seen) + n PROVE seen'[i] = offset + (i - Len(seen)) - 1
    <3>1. i \in 1 .. Len(seen) + n /\ ~(i <= Len(seen)) /\ i - Len(seen) \in 1 .. n
      BY <1>1, <1>2
    <3> QED BY <1>5, <2>1, <3>1
  <2> QED BY <1>1, <2>1, <2>2, <2>3, LenProperties
<1>7. /\ R!ToSet(seen) = small(offset - 1)
      /\ \A i, j \in 1 .. Len(seen) : i < j => seen[i] < seen[j]
  BY <1>1 DEF PagesIInv, R!PagesCoverFile, R!None
<1>8. \A i \in 1 .. Len(seen) : seen[i] \in small(offset - 1)
  BY <1>6, <1>7 DEF R!ToSet
<1>9. \A k \in small(offset - 1) : \E i \in 1 .. Len(seen) : seen[i] = k
  BY <1>6, <1>7 DEF R!ToSet
<1>10. R!ToSet(seen') = small(end)
  <2>1. ASSUME NEW i \in 1 .. Len(seen) + n PROVE seen'[i] \in small(end)
    <3>1. CASE i \in 1 .. Len(seen)
      <4>1. seen'[i] \in small(offset - 1)
        BY <1>6, <1>8, <3>1
      <4>2. \A k \in 1 .. offset - 1 : k \in 1 .. end
        BY <1>3a, <1>4
      <4> HIDE DEF end
      <4> QED BY <4>1, <4>2
    <3>2. CASE i \in Len(seen) + 1 .. Len(seen) + n
      <4>1. i - Len(seen) \in 1 .. n /\ seen'[i] = offset + (i - Len(seen)) - 1
        BY <1>3a, <1>6, <3>2
      <4>2. file[seen'[i]] <= ByteCap
        BY <1>2, <4>1
      <4>3. n # 0 /\ seen'[i] \in 1 .. end
        BY <1>3a, <4>1
      <4> QED BY <4>2, <4>3
    <3> HIDE DEF end, small
    <3> QED BY <1>3a, <3>1, <3>2
  <2>2. ASSUME NEW k \in small(end) PROVE \E i \in 1 .. Len(seen) + n : seen'[i] = k
    <3>1. CASE k \in 1 .. offset - 1
      <4>1. PICK i \in 1 .. Len(seen) : seen[i] = k
        BY <1>9, <3>1
      <4>2. i \in 1 .. Len(seen) + n /\ seen'[i] = k
        BY <1>1, <1>2, <1>6, <4>1
      <4> QED BY <4>2
    <3>2. CASE k \notin 1 .. offset - 1
      <4>1. k \in offset .. end /\ file[k] <= ByteCap
        BY <1>1, <1>4, <3>2
      <4>2. n # 0
        <5> SUFFICES ASSUME n = 0 PROVE FALSE
          OBVIOUS
        <5>1. k = offset /\ file[offset] > ByteCap
          BY <1>1, <1>2, <4>1
        <5>2. file[offset] \in Nat /\ ByteCap \in Nat
          BY <1>1, ElementOfSeq, CapsAreCounts
        <5> QED BY <4>1, <5>1, <5>2
      <4> DEFINE i == Len(seen) + (k - offset) + 1
      <4>3. i \in Len(seen) + 1 .. Len(seen) + n /\ offset + (i - Len(seen)) - 1 = k
        BY <1>3a, <4>1, <4>2
      <4> HIDE DEF i
      <4>4. i \in 1 .. Len(seen) + n
        BY <1>3a, <4>3
      <4>5. seen'[i] = k
        BY <1>6, <4>3
      <4> QED BY <4>4, <4>5
    <3> QED BY <3>1, <3>2
  <2> HIDE DEF end, small
  <2> QED BY <1>6, <2>1, <2>2 DEF R!ToSet
<1>11. ASSUME NEW i \in 1 .. Len(seen'), NEW j \in 1 .. Len(seen'), i < j PROVE seen'[i] < seen'[j]
  <2>1. CASE j \in 1 .. Len(seen)
    <3>1. i \in 1 .. Len(seen)
      BY <1>1, <1>6, <1>11, <2>1
    <3> QED BY <1>6, <1>7, <1>11, <2>1, <3>1
  <2>2. CASE j \in Len(seen) + 1 .. Len(seen) + n
    <3>1. seen'[j] = offset + (j - Len(seen)) - 1
      BY <1>6, <2>2
    <3>2. CASE i \in 1 .. Len(seen)
      <4>1. seen'[i] \in 1 .. offset - 1
        BY <1>6, <1>8, <3>2
      <4> QED BY <1>3a, <2>2, <3>1, <4>1
    <3>3. CASE i \in Len(seen) + 1 .. Len(seen) + n
      <4>1. seen'[i] = offset + (i - Len(seen)) - 1
        BY <1>6, <3>3
      <4> QED BY <1>3a, <1>11, <2>2, <3>1, <3>3, <4>1
    <3> QED BY <1>3a, <1>6, <3>2, <3>3
  <2> QED BY <1>3a, <1>6, <2>1, <2>2
<1>12. PagesTyped'
  BY <1>1, <1>4, <1>6 DEF PagesTyped
<1>13. R!PagesCoverFile'
  <2> DEFINE through == IF offset' = 0 THEN Len(file) ELSE offset' - 1
  <2>1. R!PagesCoverFile' <=> /\ R!ToSet(seen') = {i \in 1 .. through : file[i] <= ByteCap}
                              /\ \A i, j \in 1 .. Len(seen') : i < j => seen'[i] < seen'[j]
    BY <1>1 DEF R!PagesCoverFile, R!None
  <2>2. through = end
    BY <1>4
  <2> HIDE DEF through, end
  <2> QED BY <1>10, <1>11, <2>1, <2>2
<1> QED BY <1>12, <1>13 DEF PagesIInv

\* A file that is to be read, or none.
LEMMA PagesInit ==
  ASSUME Init
  PROVE  PagesIInv
<1>1. <<>> \in Seq(Nat) /\ Len(<<>>) = 0 /\ R!ToSet(<<>>) = {}
  BY EmptySeq DEF R!ToSet
<1>2. CASE R!ReadIdle
  BY <1>1, <1>2 DEF R!ReadIdle, R!None, PagesIInv, PagesTyped, R!PagesCoverFile
<1>3. CASE R!Init
  <2>1. PICK n \in 1 .. MaxLines : file \in [1 .. n -> Widths]
    BY <1>3 DEF R!Init
  <2>2. n \in Nat /\ n # 0
    OBVIOUS
  <2>3. Widths \subseteq Nat
    BY CapsAreCounts
  <2>4. file \in [1 .. n -> Nat]
    BY <2>1, <2>3
  <2>5. file \in Seq(Nat) /\ Len(file) = n
    BY <2>2, <2>4, SeqDef, LenProperties
  <2>6. offset = 1 /\ seen = <<>>
    BY <1>3 DEF R!Init
  <2> QED BY <1>1, <2>2, <2>5, <2>6 DEF PagesIInv, PagesTyped, R!PagesCoverFile, R!None
<1> QED BY <1>2, <1>3 DEF Init, R!InitGrep

\* ResultsAreHonest (ReadOnlyTools.tla): a model that follows the hints gets
\* every line once and in order, except those that alone are over the byte cap,
\* whatever limits it asks for and whatever the file's lines (executeRead in
\* main.go, read.py), and a grep's limit flag is true.
THEOREM ResultsStayHonest == Spec => []ResultsAreHonest
<1>1. Init => PagesIInv
  BY PagesInit
<1>2. PagesIInv /\ [Next]_vars => PagesIInv'
  <2>1. ASSUME PagesIInv, NEW limit \in 0 .. MaxLines, R!Read(limit) PROVE PagesIInv'
    <3>1. limit \in Nat
      OBVIOUS
    <3> QED BY <2>1, <3>1, ReadStep
  <2>2. ASSUME PagesIInv, UNCHANGED R!reading PROVE PagesIInv'
    BY <2>2 DEF R!reading, PagesIInv, PagesTyped, R!PagesCoverFile, R!ToSet
  <2>3. R!GrepStep => UNCHANGED R!reading
    BY DEF R!GrepStep, R!RgWrites, R!RgExits, R!Scan, R!ScanEnds, R!DrainStderr, R!GrepEnds
  <2>4. UNCHANGED work => UNCHANGED R!reading
    BY DEF work, R!reading
  <2> QED BY <2>1, <2>2, <2>3, <2>4 DEF Next, vars, R!Next
<1>3. PagesIInv /\ R!LimitIsHonest => ResultsAreHonest
  BY DEF PagesIInv, ResultsAreHonest, R!ResultsAreHonest
<1> QED BY <1>1, <1>2, <1>3, GrepLimitIsHonest, PTL DEF Spec

-----------------------------------------------------------------------------
(* The client of the read-only worker                                      *)

\* Where a call is, and what a client may be.
Stage == {"idle", "ensure", "start", "send", "sent", "answered", "raised", "cancelled"}
ClientShape == [used : BOOLEAN, alive : BOOLEAN, fatal : BOOLEAN, ready : BOOLEAN,
                pending : SUBSET Call, in : Seq(Call), working : SUBSET Call,
                out : Seq(Call), reading : BOOLEAN]
WorkerTyped ==
  /\ stage \in [Call -> Stage] /\ via \in [Call -> W!Clients \cup {W!None}]
  /\ current \in W!Clients \cup {W!None} /\ client \in [W!Clients -> ClientShape]

\* A call has a client from its start on, and that client was started.
ViaTracked ==
  \A c \in Call :
    /\ stage[c] \in {"idle", "ensure"} => via[c] = W!None
    /\ stage[c] \in {"start", "send", "sent"} => via[c] # W!None
    /\ via[c] # W!None => client[via[c]].used

\* A client waits for its own calls, and is given up for a cause only.
ClientsTracked ==
  /\ current # W!None => client[current].used
  /\ \A w \in W!Clients :
    /\ \A c \in client[w].pending : via[c] = w
    /\ client[w].fatal => ~client[w].alive \/ w \in refused

WorkerIInv == WorkerTyped /\ ViaTracked /\ ClientsTracked /\ W!RaisesHaveCause

-----------------------------------------------------------------------------
\* A client whose record is replaced.
Put(w, r) == [client EXCEPT ![w] = r]

\* The table of clients keeps its shape, and the other clients are as before.
LEMMA ClientSet ==
  ASSUME WorkerTyped, NEW w \in W!Clients, NEW r \in ClientShape
  PROVE  /\ Put(w, r) \in [W!Clients -> ClientShape] /\ Put(w, r)[w] = r
         /\ \A v \in W!Clients : v # w => Put(w, r)[v] = client[v]
BY DEF WorkerTyped, Put

\* A step of a client, or of its worker, that may only add to the causes.
LEMMA ClientKeeps ==
  ASSUME WorkerIInv, NEW w \in W!Clients, NEW r \in ClientShape, client' = Put(w, r),
         r.used = client[w].used, r.alive => client[w].alive,
         \A c \in r.pending : via[c] = w,
         refused \subseteq refused', r.fatal => ~r.alive \/ w \in refused',
         current' = current \/ (current' = w /\ r.used), via' = via, stage' \in [Call -> Stage],
         \A c \in Call :
           \/ stage'[c] = stage[c] \/ stage'[c] \in {"answered", "cancelled"}
           \/ stage'[c] \in {"send", "sent"} /\ via[c] # W!None
           \/ stage'[c] = "raised" /\ via[c] = w /\ (~r.alive \/ w \in refused')
  PROVE  WorkerIInv'
<1>1. /\ client' \in [W!Clients -> ClientShape] /\ client'[w] = r
      /\ \A v \in W!Clients : v # w => client'[v] = client[v]
  BY ClientSet DEF WorkerIInv
<1>2. W!None \notin W!Clients
  BY DEF W!None, W!Clients
<1>3. \A v \in W!Clients :
        /\ client[v].used => client'[v].used
        /\ ~client[v].alive => ~client'[v].alive
  BY <1>1
<1>4. WorkerTyped'
  BY <1>1 DEF WorkerIInv, WorkerTyped
<1>5. ViaTracked'
  BY <1>3 DEF WorkerIInv, WorkerTyped, ViaTracked, Stage
<1>6. ClientsTracked'
  <2>1. current' # W!None => client'[current'].used
    BY <1>1, <1>3 DEF WorkerIInv, WorkerTyped, ClientsTracked
  <2>2. ASSUME NEW v \in W!Clients
        PROVE  /\ \A c \in client'[v].pending : via[c] = v
               /\ client'[v].fatal => ~client'[v].alive \/ v \in refused'
    BY <1>1 DEF WorkerIInv, ClientsTracked
  <2> QED BY <2>1, <2>2 DEF ClientsTracked
<1>7. W!RaisesHaveCause'
  BY <1>1, <1>3 DEF WorkerIInv, WorkerTyped, W!RaisesHaveCause
<1> QED BY <1>4, <1>5, <1>6, <1>7 DEF WorkerIInv

\* A step of a call that leaves the clients.
LEMMA CallKeeps ==
  ASSUME WorkerIInv, UNCHANGED <<current, client, refused>>, NEW c \in Call, NEW s \in Stage,
         stage' = [stage EXCEPT ![c] = s], via' \in [Call -> W!Clients \cup {W!None}],
         \A d \in Call : d # c => via'[d] = via[d],
         via'[c] = via[c] \/ (stage[c] = "ensure" /\ via'[c] = current /\ current # W!None),
         s \in {"idle", "ensure"} => via'[c] = W!None,
         s \in {"start", "send", "sent"} => via'[c] # W!None,
         s = "raised" /\ via'[c] # W!None => ~client[via'[c]].alive \/ via'[c] \in refused
  PROVE  WorkerIInv'
<1>1. /\ stage' \in [Call -> Stage] /\ stage'[c] = s /\ \A d \in Call : d # c => stage'[d] = stage[d]
  BY DEF WorkerIInv, WorkerTyped
<1>2. WorkerTyped'
  BY <1>1 DEF WorkerIInv, WorkerTyped
<1>3. ViaTracked'
  BY <1>1 DEF WorkerIInv, ViaTracked, ClientsTracked
<1>4. \A w \in W!Clients : \A d \in client[w].pending : d # c \/ via'[c] = via[c]
  <2> SUFFICES ASSUME stage[c] = "ensure", NEW w \in W!Clients, c \in client[w].pending PROVE FALSE
    OBVIOUS
  <2>1. via[c] = W!None /\ via[c] = w
    BY DEF WorkerIInv, ViaTracked, ClientsTracked
  <2> QED BY <2>1 DEF W!None, W!Clients
<1>5. ClientsTracked'
  <2>1. \A w \in W!Clients : client[w].pending \subseteq Call
    BY DEF WorkerIInv, WorkerTyped, ClientShape
  <2> QED BY <1>4, <2>1 DEF WorkerIInv, ClientsTracked
<1>6. W!RaisesHaveCause'
  BY <1>1 DEF WorkerIInv, W!RaisesHaveCause
<1> QED BY <1>2, <1>3, <1>5, <1>6 DEF WorkerIInv

\* What the client's record becomes, field by field.
LEMMA ShapeSet ==
  ASSUME NEW r \in ClientShape
  PROVE  /\ r.used \in BOOLEAN /\ r.alive \in BOOLEAN /\ r.fatal \in BOOLEAN /\ r.pending \subseteq Call
         /\ r.in \in Seq(Call) /\ r.working \subseteq Call /\ r.out \in Seq(Call)
         /\ \A b \in BOOLEAN :
              /\ [r EXCEPT !.alive = b] \in ClientShape /\ [r EXCEPT !.fatal = b] \in ClientShape
              /\ [r EXCEPT !.ready = b] \in ClientShape /\ [r EXCEPT !.reading = b] \in ClientShape
         /\ \A p \in SUBSET Call : [r EXCEPT !.pending = p] \in ClientShape /\ [r EXCEPT !.working = p] \in ClientShape
         /\ \A q \in Seq(Call) : [r EXCEPT !.in = q] \in ClientShape /\ [r EXCEPT !.out = q] \in ClientShape
BY DEF ClientShape

\* A call asks for the client, fails for want of one, or is cancelled.
LEMMA CallStep ==
  ASSUME WorkerIInv, NEW c \in Call,
         \/ W!Begin(c) \/ W!Cancel(c) \/ (W!EnsureClient(c) /\ (current # W!None \/ stage'[c] = "raised"))
         \/ W!Send(c) /\ client[via[c]].fatal
  PROVE  WorkerIInv'
<1>1. stage \in [Call -> Stage] /\ via \in [Call -> W!Clients \cup {W!None}]
  BY DEF WorkerIInv, WorkerTyped
<1>2. CASE W!Begin(c)
  BY <1>1, <1>2, CallKeeps DEF W!Begin, Stage, WorkerIInv, ViaTracked
<1>3. CASE W!Cancel(c)
  BY <1>1, <1>3, CallKeeps DEF W!Cancel, Stage
<1>4. CASE W!EnsureClient(c) /\ (current # W!None \/ stage'[c] = "raised")
  <2>1. stage[c] = "ensure" /\ via[c] = W!None /\ UNCHANGED <<current, refused>>
    BY <1>4 DEF W!EnsureClient, WorkerIInv, ViaTracked
  <2>2. CASE current # W!None
    <3>1. via' = [via EXCEPT ![c] = current] /\ stage' = [stage EXCEPT ![c] = "send"] /\ client' = client
      BY <1>4, <2>2 DEF W!EnsureClient
    <3>2. current \in W!Clients
      BY <2>2 DEF WorkerIInv, WorkerTyped
    <3> QED BY <1>1, <2>1, <2>2, <3>1, <3>2, CallKeeps DEF Stage
  <2>3. CASE current = W!None
    <3>1. stage' = [stage EXCEPT ![c] = "raised"] /\ via' = via /\ client' = client
      BY <1>1, <1>4, <2>3 DEF W!EnsureClient
    <3> QED BY <1>1, <2>1, <3>1, CallKeeps DEF Stage
  <2> QED BY <2>2, <2>3
<1>5. CASE W!Send(c) /\ client[via[c]].fatal
  <2>1. stage[c] = "send" /\ UNCHANGED <<via, current, client, refused>> /\ stage' = [stage EXCEPT ![c] = "raised"]
    BY <1>5 DEF W!Send
  <2>2. via[c] \in W!Clients
    BY <1>1, <2>1 DEF WorkerIInv, ViaTracked
  <2>3. ~client[via[c]].alive \/ via[c] \in refused
    BY <1>5, <2>2 DEF WorkerIInv, ClientsTracked
  <2> QED BY <1>1, <2>1, <2>3, CallKeeps DEF Stage
<1> QED BY <1>2, <1>3, <1>4, <1>5

\* A call starts a client: no other call has it yet.
LEMMA StartStep ==
  ASSUME WorkerIInv, NEW c \in Call, W!EnsureClient(c), current = W!None, stage'[c] # "raised"
  PROVE  WorkerIInv'
<1>1. /\ stage \in [Call -> Stage] /\ via \in [Call -> W!Clients \cup {W!None}]
      /\ stage[c] = "ensure" /\ via[c] = W!None /\ UNCHANGED <<current, refused>>
  BY DEF W!EnsureClient, WorkerIInv, WorkerTyped, ViaTracked
<1>2. PICK w \in W!Clients : ~client[w].used /\ client' = Put(w, W!Fresh) /\ via' = [via EXCEPT ![c] = w]
  BY <1>1 DEF W!EnsureClient, Put
<1>3. stage' = [stage EXCEPT ![c] = "start"]
  BY <1>1 DEF W!EnsureClient
<1>4. /\ W!Fresh \in ClientShape /\ W!Fresh.used /\ W!Fresh.alive /\ W!Fresh.fatal = FALSE /\ W!Fresh.pending = {}
  <2> DEFINE u == W!Unused
  <2>1. u \in ClientShape /\ u.fatal = FALSE /\ u.pending = {}
    <3>1. <<>> \in Seq(Call) /\ {} \in SUBSET Call
      BY EmptySeq
    <3> QED BY <3>1 DEF W!Unused, ClientShape
  <2>2. W!Fresh = [[[u EXCEPT !.used = TRUE] EXCEPT !.alive = TRUE] EXCEPT !.reading = TRUE]
    BY DEF W!Fresh
  <2> HIDE DEF u
  <2> QED BY <2>1, <2>2 DEF ClientShape
<1>5. /\ client' \in [W!Clients -> ClientShape] /\ client'[w] = W!Fresh
      /\ \A v \in W!Clients : v # w => client'[v] = client[v]
  BY <1>2, <1>4, ClientSet DEF WorkerIInv
<1>6. /\ stage' \in [Call -> Stage] /\ stage'[c] = "start" /\ \A d \in Call : d # c => stage'[d] = stage[d]
      /\ via' \in [Call -> W!Clients \cup {W!None}] /\ via'[c] = w /\ \A d \in Call : d # c => via'[d] = via[d]
  BY <1>1, <1>2, <1>3 DEF Stage
<1>7. W!None \notin W!Clients
  BY DEF W!None, W!Clients
<1>8. \A d \in Call : d # c => via[d] # w
  BY <1>2, <1>7 DEF WorkerIInv, ViaTracked
<1>9. WorkerTyped'
  BY <1>1, <1>5, <1>6 DEF WorkerIInv, WorkerTyped
<1>10. ViaTracked'
  BY <1>1, <1>4, <1>5, <1>6, <1>7, <1>8 DEF WorkerIInv, WorkerTyped, ViaTracked
<1>11. ClientsTracked'
  <2>1. ASSUME NEW v \in W!Clients
        PROVE  /\ \A d \in client'[v].pending : via'[d] = v
               /\ client'[v].fatal => ~client'[v].alive \/ v \in refused'
    <3>1. CASE v = w
      BY <1>4, <1>5, <3>1
    <3>2. CASE v # w
      <4>1. /\ client'[v] = client[v] /\ client[v].pending \subseteq Call
            /\ \A d \in client[v].pending : via[d] = v
            /\ client[v].fatal => ~client[v].alive \/ v \in refused
        BY <1>5, <3>2 DEF WorkerIInv, WorkerTyped, ClientsTracked, ClientShape
      <4>2. c \notin client[v].pending
        BY <1>1, <1>7, <4>1
      <4> QED BY <1>1, <1>6, <4>1, <4>2
    <3> QED BY <3>1, <3>2
  <2> QED BY <1>1, <2>1 DEF ClientsTracked
<1>12. W!RaisesHaveCause'
  BY <1>1, <1>5, <1>6, <1>8 DEF WorkerIInv, WorkerTyped, W!RaisesHaveCause
<1> QED BY <1>9, <1>10, <1>11, <1>12 DEF WorkerIInv

\* A client that fails what waits in it.
LEMMA FailKeeps ==
  ASSUME WorkerIInv, NEW w \in W!Clients, W!FailPending(w), UNCHANGED <<via, current>>,
         refused \subseteq refused', ~client[w].alive \/ w \in refused'
  PROVE  WorkerIInv'
<1> DEFINE q == client[w]
           r == [q EXCEPT !.fatal = TRUE, !.pending = {}, !.reading = FALSE]
<1>1. q \in ClientShape /\ client \in [W!Clients -> ClientShape] /\ stage \in [Call -> Stage]
  BY DEF WorkerIInv, WorkerTyped
<1>2. client' = Put(w, r)
  BY <1>1 DEF W!FailPending, Put, ClientShape
<1>3. r \in ClientShape /\ r.used = q.used /\ r.alive = q.alive /\ r.pending = {}
  <2> HIDE DEF q
  <2> QED BY <1>1 DEF ClientShape
<1> HIDE DEF r
<1>4. \A c \in q.pending : via[c] = w
  BY DEF WorkerIInv, ClientsTracked
<1>5. /\ stage' \in [Call -> Stage]
      /\ \A c \in Call : stage'[c] = stage[c] \/ (stage'[c] = "raised" /\ c \in q.pending)
  BY <1>1 DEF W!FailPending, Stage
<1> QED BY <1>1, <1>2, <1>3, <1>4, <1>5, ClientKeeps

\* A step that leaves the calls, the client's use and what it waits for.
LEMMA QuietKeeps ==
  ASSUME WorkerIInv, NEW w \in W!Clients, NEW r \in ClientShape, client' = Put(w, r),
         r.used = client[w].used, r.alive => client[w].alive, r.fatal = client[w].fatal,
         r.pending = client[w].pending, UNCHANGED <<stage, via, current, refused>>
  PROVE  WorkerIInv'
<1>1. stage' \in [Call -> Stage]
  BY DEF WorkerIInv, WorkerTyped
<1>2. \A c \in r.pending : via[c] = w
  BY DEF WorkerIInv, ClientsTracked
<1>3. r.fatal => ~r.alive \/ w \in refused
  BY DEF WorkerIInv, ClientsTracked
<1> QED BY <1>1, <1>2, <1>3, ClientKeeps

\* The hello, the request and what the client's reader makes of an answer.
LEMMA ClientStep ==
  ASSUME WorkerIInv,
         \/ \E c \in Call : W!Hello(c) \/ (W!Send(c) /\ ~client[via[c]].fatal)
         \/ \E w \in W!Clients : W!ReadAnswer(w) \/ W!ReadEnd(w)
  PROVE  WorkerIInv'
<1>1. stage \in [Call -> Stage] /\ via \in [Call -> W!Clients \cup {W!None}] /\ client \in [W!Clients -> ClientShape]
  BY DEF WorkerIInv, WorkerTyped
<1>2. ASSUME NEW w \in W!Clients
      PROVE  /\ client[w] \in ClientShape /\ \A c \in client[w].pending : via[c] = w
             /\ client[w].fatal => ~client[w].alive \/ w \in refused
             /\ client[w].pending \subseteq Call /\ client[w].in \in Seq(Call) /\ client[w].out \in Seq(Call)
  BY <1>1, ShapeSet DEF WorkerIInv, ClientsTracked
<1>3. ASSUME NEW c \in Call, W!Hello(c)
      PROVE  WorkerIInv'
  <2> DEFINE w == via[c]
             q == client[w]
             ready == [q EXCEPT !.ready = TRUE]
             unread == [q EXCEPT !.reading = FALSE]
  <2>1. w \in W!Clients /\ q.used /\ stage[c] = "start" /\ UNCHANGED <<via, refused>>
    BY <1>1, <1>3 DEF W!Hello, WorkerIInv, ViaTracked
  <2>2. CASE q.alive
    <3>1. client' = Put(w, ready) /\ current' = w /\ stage' = [stage EXCEPT ![c] = "send"]
      BY <1>1, <1>3, <2>1, <2>2 DEF W!Hello, Put, ClientShape
    <3>2. ready \in ClientShape /\ ready.used = q.used /\ ready.alive = q.alive /\ ready.fatal = q.fatal
          /\ ready.pending = q.pending
      <4>1. q \in ClientShape
        BY <1>2, <2>1
      <4> HIDE DEF q
      <4> QED BY <4>1 DEF ClientShape
    <3> HIDE DEF ready
    <3>3. /\ stage' \in [Call -> Stage] /\ stage'[c] = "send" /\ \A d \in Call : d # c => stage'[d] = stage[d]
      BY <1>1, <3>1 DEF Stage
    <3>4. \A d \in Call : stage'[d] = stage[d] \/ (stage'[d] \in {"send", "sent"} /\ via[d] # W!None)
      BY <2>1, <3>3 DEF W!None, W!Clients
    <3>5. /\ \A d \in ready.pending : via[d] = w
          /\ ready.fatal => ~ready.alive \/ w \in refused
      BY <1>2, <2>1, <3>2
    <3> HIDE DEF w
    <3> QED BY <2>1, <2>2, <3>1, <3>2, <3>3, <3>4, <3>5, ClientKeeps
  <2>3. CASE ~q.alive
    <3>1. client' = Put(w, unread) /\ current' = current /\ stage' = [stage EXCEPT ![c] = "raised"]
      BY <1>1, <1>3, <2>1, <2>3 DEF W!Hello, Put, ClientShape
    <3>2. unread \in ClientShape /\ unread.used = q.used /\ unread.alive = q.alive /\ unread.fatal = q.fatal
          /\ unread.pending = q.pending
      <4>1. q \in ClientShape
        BY <1>2, <2>1
      <4> HIDE DEF q
      <4> QED BY <4>1 DEF ClientShape
    <3> HIDE DEF unread
    <3>3. /\ stage' \in [Call -> Stage] /\ stage'[c] = "raised" /\ \A d \in Call : d # c => stage'[d] = stage[d]
      BY <1>1, <3>1 DEF Stage
    <3>4. \A d \in Call : stage'[d] = stage[d] \/ (stage'[d] = "raised" /\ via[d] = w)
      BY <3>3
    <3>5. /\ \A d \in unread.pending : via[d] = w
          /\ ~unread.alive
      BY <1>2, <2>1, <2>3, <3>2
    <3> HIDE DEF w
    <3> QED BY <2>1, <3>1, <3>2, <3>3, <3>4, <3>5, ClientKeeps
  <2> QED BY <2>2, <2>3
<1>4. ASSUME NEW c \in Call, W!Send(c), ~client[via[c]].fatal
      PROVE  WorkerIInv'
  <2> DEFINE w == via[c]
             q == client[w]
             more == q.pending \cup {c}
             waits == [q EXCEPT !.pending = more]
             sent == [waits EXCEPT !.in = Append(q.in, c)]
  <2>1. w \in W!Clients /\ stage[c] = "send" /\ UNCHANGED <<via, current, refused>>
    BY <1>1, <1>4 DEF W!Send, WorkerIInv, ViaTracked
  <2>2. q \in ClientShape /\ more \subseteq Call /\ Append(q.in, c) \in Seq(Call)
        /\ (\A d \in more : via[d] = w) /\ ~q.fatal
    BY <1>2, <1>4, <2>1, AppendProperties
  <2>3. /\ waits \in ClientShape /\ waits.used = q.used /\ waits.alive = q.alive /\ waits.fatal = q.fatal
        /\ waits.pending = more
    <3> HIDE DEF q, more
    <3> QED BY <2>2 DEF ClientShape
  <2>4. /\ sent \in ClientShape /\ sent.used = q.used /\ sent.alive = q.alive /\ sent.fatal = q.fatal
        /\ sent.pending = more
    <3> DEFINE s == Append(q.in, c)
    <3>1. s \in Seq(Call) /\ sent = [waits EXCEPT !.in = s]
      BY <2>2
    <3> HIDE DEF waits, s, sent
    <3>2. /\ sent \in ClientShape /\ sent.used = waits.used /\ sent.alive = waits.alive
          /\ sent.fatal = waits.fatal /\ sent.pending = waits.pending
      BY <2>3, <3>1 DEF ClientShape
    <3> QED BY <2>3, <3>2
  <2>5. via[c] # W!None
    BY <2>1 DEF W!None, W!Clients
  <2>6. CASE q.alive
    <3>1. client' = Put(w, sent) /\ stage' = [stage EXCEPT ![c] = "sent"]
      BY <1>1, <1>4, <2>1, <2>6 DEF W!Send, Put, ClientShape
    <3>2. /\ stage' \in [Call -> Stage] /\ stage'[c] = "sent" /\ \A d \in Call : d # c => stage'[d] = stage[d]
      BY <1>1, <3>1 DEF Stage
    <3> HIDE DEF sent, waits, more
    <3>3. /\ sent.used = client[w].used /\ (sent.alive => client[w].alive) /\ ~sent.fatal
          /\ \A d \in sent.pending : via[d] = w
      BY <2>2, <2>4
    <3>4. \A d \in Call : stage'[d] = stage[d] \/ (stage'[d] \in {"send", "sent"} /\ via[d] # W!None)
      BY <2>5, <3>2
    <3> HIDE DEF q, w
    <3> QED BY <2>1, <2>4, <3>1, <3>2, <3>3, <3>4, ClientKeeps
  <2>7. CASE ~q.alive
    <3>1. client' = Put(w, waits) /\ stage' = [stage EXCEPT ![c] = "raised"]
      BY <1>1, <1>4, <2>1, <2>7 DEF W!Send, Put, ClientShape
    <3>2. /\ stage' \in [Call -> Stage] /\ stage'[c] = "raised" /\ \A d \in Call : d # c => stage'[d] = stage[d]
      BY <1>1, <3>1 DEF Stage
    <3> HIDE DEF waits, more
    <3>3. /\ waits.used = client[w].used /\ ~waits.alive /\ ~waits.fatal
          /\ \A d \in waits.pending : via[d] = w
      BY <2>2, <2>3, <2>7
    <3>4. \A d \in Call : stage'[d] = stage[d] \/ (stage'[d] = "raised" /\ via[d] = w)
      BY <3>2
    <3> HIDE DEF q, w
    <3> QED BY <2>1, <2>3, <3>1, <3>2, <3>3, <3>4, ClientKeeps
  <2> QED BY <2>6, <2>7
<1>5. ASSUME NEW w \in W!Clients, W!ReadAnswer(w)
      PROVE  WorkerIInv'
  <2> DEFINE q == client[w]
             c == Head(q.out)
             read == [q EXCEPT !.out = Tail(q.out)]
             r == [read EXCEPT !.pending = q.pending \ {c}]
  <2>1. q.out # <<>> /\ UNCHANGED <<via, current>>
    BY <1>5 DEF W!ReadAnswer
  <2>2. CASE ~(W!FailPending(w) /\ refused' = refused \cup {w})
    <3>0. c \in q.pending /\ stage[c] = "sent"
      BY <1>5, <2>2 DEF W!ReadAnswer
    <3>1. client' = Put(w, r) /\ stage' = [stage EXCEPT ![c] = "answered"] /\ refused' = refused
      BY <1>1, <1>5, <2>2 DEF W!ReadAnswer, Put, ClientShape
    <3>2. q \in ClientShape /\ Tail(q.out) \in Seq(Call) /\ q.pending \ {c} \subseteq Call /\ c \in Call
      BY <1>2, <2>1, <3>0, HeadTailProperties
    <3>3. /\ r \in ClientShape /\ r.used = q.used /\ r.alive = q.alive /\ r.fatal = q.fatal
          /\ r.pending = q.pending \ {c}
      <4> DEFINE tail == Tail(q.out)
                 less == q.pending \ {c}
      <4>1. tail \in Seq(Call) /\ less \in SUBSET Call
        BY <3>2
      <4> HIDE DEF tail, less, q
      <4>2. [[q EXCEPT !.out = tail] EXCEPT !.pending = less] \in ClientShape
        BY <3>2, <4>1 DEF ClientShape
      <4>3. r = [[q EXCEPT !.out = tail] EXCEPT !.pending = less]
        BY DEF tail, less
      <4> HIDE DEF r
      <4>4. r.used = q.used /\ r.alive = q.alive /\ r.fatal = q.fatal /\ r.pending = less
        BY <3>2, <4>3 DEF ClientShape
      <4> QED BY <4>2, <4>3, <4>4 DEF less
    <3> HIDE DEF r, c
    <3>4. /\ stage' \in [Call -> Stage] /\ stage'[c] = "answered" /\ \A d \in Call : d # c => stage'[d] = stage[d]
      BY <1>1, <3>1, <3>2 DEF Stage
    <3>5. /\ \A d \in r.pending : via[d] = w
          /\ r.fatal => ~r.alive \/ w \in refused
      BY <1>2, <3>3
    <3>6. \A d \in Call : stage'[d] = stage[d] \/ stage'[d] \in {"answered", "cancelled"}
      BY <3>4
    <3> QED BY <2>1, <3>1, <3>3, <3>4, <3>5, <3>6, ClientKeeps
  <2>3. CASE W!FailPending(w) /\ refused' = refused \cup {w}
    BY <2>1, <2>3, FailKeeps
  <2> QED BY <2>2, <2>3
<1>6. ASSUME NEW w \in W!Clients, W!ReadEnd(w)
      PROVE  WorkerIInv'
  <2> DEFINE q == client[w]
             unread == [q EXCEPT !.reading = FALSE]
  <2>1. ~q.alive /\ UNCHANGED <<via, current, refused>>
    BY <1>6 DEF W!ReadEnd
  <2>2. CASE q.pending = {}
    <3>1. client' = Put(w, unread) /\ stage' = stage
      BY <1>1, <1>6, <2>2 DEF W!ReadEnd, Put, ClientShape
    <3>2. unread \in ClientShape /\ unread.used = q.used /\ unread.alive = q.alive /\ unread.fatal = q.fatal
          /\ unread.pending = q.pending
      <4>1. q \in ClientShape
        BY <1>2
      <4> HIDE DEF q
      <4> QED BY <4>1 DEF ClientShape
    <3> HIDE DEF unread
    <3> QED BY <2>1, <3>1, <3>2, QuietKeeps
  <2>3. CASE q.pending # {}
    BY <1>6, <2>1, <2>3, FailKeeps DEF W!ReadEnd
  <2> QED BY <2>2, <2>3
<1> QED BY <1>3, <1>4, <1>5, <1>6

\* The worker process takes a request, answers one, or dies.
LEMMA ProcessStep ==
  ASSUME WorkerIInv, NEW w \in W!Clients, W!Take(w) \/ (\E c \in Call : W!Answer(w, c)) \/ W!Die(w)
  PROVE  WorkerIInv'
<1> DEFINE q == client[w]
<1>1. /\ q \in ClientShape /\ q.pending \subseteq Call /\ q.in \in Seq(Call) /\ q.out \in Seq(Call)
      /\ q.working \subseteq Call /\ client \in [W!Clients -> ClientShape]
  BY ShapeSet DEF WorkerIInv, WorkerTyped
<1>2. UNCHANGED <<stage, via, current, refused>>
  BY DEF W!Take, W!Answer, W!Die
<1>3. ASSUME NEW s \in Seq(Call), NEW p \in SUBSET Call,
             \/ client' = Put(w, [[q EXCEPT !.in = s] EXCEPT !.working = p])
             \/ client' = Put(w, [[q EXCEPT !.working = p] EXCEPT !.out = s])
             \/ client' = Put(w, [q EXCEPT !.alive = FALSE])
      PROVE  WorkerIInv'
  <2> DEFINE taken == [[q EXCEPT !.in = s] EXCEPT !.working = p]
             answered == [[q EXCEPT !.working = p] EXCEPT !.out = s]
             dead == [q EXCEPT !.alive = FALSE]
  <2>1. \A r \in {taken, answered, dead} :
          /\ r \in ClientShape /\ r.used = q.used /\ (r.alive => q.alive) /\ r.fatal = q.fatal
          /\ r.pending = q.pending
    <3> HIDE DEF q
    <3>1. /\ taken \in ClientShape /\ taken.used = q.used /\ taken.alive = q.alive /\ taken.fatal = q.fatal
          /\ taken.pending = q.pending
      BY <1>1 DEF ClientShape
    <3>2. /\ answered \in ClientShape /\ answered.used = q.used /\ answered.alive = q.alive
          /\ answered.fatal = q.fatal /\ answered.pending = q.pending
      BY <1>1 DEF ClientShape
    <3>3. /\ dead \in ClientShape /\ dead.used = q.used /\ ~dead.alive
          /\ dead.fatal = q.fatal /\ dead.pending = q.pending
      BY <1>1 DEF ClientShape
    <3> HIDE DEF taken, answered, dead
    <3> QED BY <3>1, <3>2, <3>3
  <2>2. PICK r \in {taken, answered, dead} : client' = Put(w, r)
    BY <1>3
  <2> HIDE DEF taken, answered, dead
  <2> QED BY <1>2, <2>1, <2>2, QuietKeeps
<1>4. CASE W!Take(w)
  <2> DEFINE s == Tail(q.in)
             p == q.working \cup {Head(q.in)}
  <2>1. s \in Seq(Call) /\ p \in SUBSET Call
    BY <1>1, <1>4, HeadTailProperties DEF W!Take
  <2>2. client' = Put(w, [[q EXCEPT !.in = s] EXCEPT !.working = p])
    BY <1>1, <1>4 DEF W!Take, Put, ClientShape
  <2> HIDE DEF s, p
  <2> QED BY <1>3, <2>1, <2>2
<1>5. ASSUME NEW c \in Call, W!Answer(w, c)
      PROVE  WorkerIInv'
  <2> DEFINE p == q.working \ {c}
             s == Append(q.out, c)
  <2>1. s \in Seq(Call) /\ p \in SUBSET Call
    BY <1>1, AppendProperties
  <2>2. client' = Put(w, [[q EXCEPT !.working = p] EXCEPT !.out = s])
    BY <1>1, <1>5 DEF W!Answer, Put, ClientShape
  <2> HIDE DEF s, p
  <2> QED BY <1>3, <2>1, <2>2
<1>6. CASE W!Die(w)
  <2>1. client' = Put(w, [q EXCEPT !.alive = FALSE])
    BY <1>1, <1>6 DEF W!Die, Put, ClientShape
  <2>2. <<>> \in Seq(Call) /\ {} \in SUBSET Call
    BY EmptySeq
  <2> QED BY <1>3, <2>1, <2>2
<1> QED BY <1>4, <1>5, <1>6

\* RaisesHaveCause (ReadOnlyWorker.tla): a call fails only because its worker
\* died, or was given up over an answer for a cancelled request; for any number
\* of calls, workers and deaths (read_only_worker/client.py, runtime.py).
THEOREM FailuresHaveCause == Spec => []W!RaisesHaveCause
<1>1. Init => WorkerIInv
  <2> SUFFICES ASSUME W!Init PROVE WorkerIInv
    BY DEF Init
  <2>1. /\ stage = [c \in Call |-> "idle"] /\ via = [c \in Call |-> W!None] /\ current = W!None
        /\ client = [w \in W!Clients |-> W!Unused]
    BY DEF W!Init
  <2>2. W!Unused \in ClientShape /\ W!Unused.pending = {} /\ W!Unused.fatal = FALSE
    <3>1. <<>> \in Seq(Call) /\ {} \in SUBSET Call
      BY EmptySeq
    <3> QED BY <3>1 DEF W!Unused, ClientShape
  <2>3. WorkerTyped
    BY <2>1, <2>2 DEF WorkerTyped, Stage
  <2>4. ViaTracked /\ W!RaisesHaveCause
    BY <2>1 DEF ViaTracked, W!RaisesHaveCause
  <2>5. ClientsTracked
    BY <2>1, <2>2 DEF ClientsTracked
  <2> QED BY <2>3, <2>4, <2>5 DEF WorkerIInv
<1>2. WorkerIInv /\ [Next]_vars => WorkerIInv'
  <2> SUFFICES ASSUME WorkerIInv, [Next]_vars PROVE WorkerIInv'
    OBVIOUS
  <2>1. CASE W!Next
    <3>1. ASSUME NEW c \in Call, W!Begin(c) \/ W!Steps(c) \/ W!Cancel(c)
          PROVE  WorkerIInv'
      BY <3>1, CallStep, StartStep, ClientStep DEF W!Steps
    <3>2. ASSUME NEW w \in W!Clients, W!Serves(w) \/ W!Die(w)
          PROVE  WorkerIInv'
      BY <3>2, ClientStep, ProcessStep DEF W!Serves
    <3> QED BY <2>1, <3>1, <3>2 DEF W!Next
  <2>2. CASE UNCHANGED calls
    BY <2>2 DEF calls, WorkerIInv, WorkerTyped, ViaTracked, ClientsTracked, W!RaisesHaveCause
  <2> QED BY <2>1, <2>2 DEF Next, vars
<1>3. WorkerIInv => W!RaisesHaveCause
  BY DEF WorkerIInv
<1> QED BY <1>1, <1>2, <1>3, PTL DEF Spec
=============================================================================
