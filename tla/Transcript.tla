----------------------------- MODULE Transcript ------------------------------
(***************************************************************************)
(* The transcript of the terminal client (internal/jaca/app/transcript.go, *)
(* runsummary.go): a list of cells with three indexes into it, the         *)
(* intervals of the completed runs, of which the oldest are cut out and    *)
(* replaced by one omission cell, and a rendered text of which a prefix is *)
(* reused from the first dirty cell on.                                    *)
(*                                                                         *)
(* A cell is its kind and a text: the number of its prompt for a user      *)
(* turn, one of two versions for what grows, nothing for others.  The      *)
(* rendered text is the sequence of the cells it was made from.            *)
(* Every handler of Update ends in refreshViewport, so what is written is  *)
(* rendered in the same step.                                              *)
(* Positions start at 1, 0 is the code's -1.                               *)
(***************************************************************************)
EXTENDS Naturals, Sequences, SequencesExt

CONSTANTS
  MaxCompleted, \* transcriptMaxCompletedRuns (10 in the code)
  MaxWrites     \* bound: calls that write

None == 0

VARIABLES
  t,        \* the Transcript
  pending,  \* the model holds back text (pendingAssistant)
  writes

Kind == {"banner", "gap", "user", "live", "assistant", "tools", "note", "line", "error", "omitted"}
Cells == Seq([kind : Kind, text : Nat])

TypeOK ==
  /\ t \in [blocks : Cells, live : Nat, current : Nat, omission : Nat,
            runs : Seq([start : Nat, end : Nat, from : Nat, to : Kind]),
            tools : Nat, dirty : Nat, cache : Cells, cached : 0..1, omitted : Nat,
            prompts : Nat]
  /\ pending \in BOOLEAN /\ writes \in 0..MaxWrites

Init ==
  /\ t = [blocks |-> <<[kind |-> "banner", text |-> 0]>>, live |-> None, current |-> None,
          omission |-> None, runs |-> <<>>, tools |-> 0, dirty |-> 1,
          cache |-> <<>>, cached |-> 0, omitted |-> 0, prompts |-> 0]
  /\ pending = FALSE /\ writes = 0

-----------------------------------------------------------------------------
(* The list.                                                               *)

Cell(kind) == [kind |-> kind, text |-> 0]
Version(text) == IF text = 1 THEN 2 ELSE 1     \* another one

\* markDirty, with 0 for "nothing is dirty".
Dirty(x, i) == [x EXCEPT !.dirty = IF @ = 0 \/ i < @ THEN i ELSE @]

AppendBlock(x, cell) ==
  Dirty([x EXCEPT !.blocks = Append(@, cell)], Len(x.blocks) + 1)
ReplaceBlock(x, i, cell) == Dirty([x EXCEPT !.blocks[i] = cell], i)

\* ensureBlockGap: these end in a blank line, all others in one line end.
Gap(x) ==
  IF x.blocks = <<>> \/ Last(x.blocks).kind \in {"banner", "note", "omitted"} THEN x
  ELSE AppendBlock(x, Cell("gap"))

\* endToolGroup, endLiveAssistant.
EndTools(x) ==
  IF x.tools = 0 THEN x
  ELSE AppendBlock([x EXCEPT !.tools = 0], [kind |-> "tools", text |-> x.tools])
EndLive(x) ==
  IF x.live = None THEN x
  ELSE [ReplaceBlock(x, x.live, Cell("assistant")) EXCEPT !.live = None]
Settled(x) == EndLive(EndTools(x))

Down(i, start, removed) == IF i >= start THEN i - removed ELSE i

\* adjustTrackedIndexesAfterInsertion.
Up(x, i) ==
  LET up(j) == IF j >= i THEN j + 1 ELSE j
      moved(run) == IF run.start >= i THEN [run EXCEPT !.start = @ + 1, !.end = @ + 1] ELSE run
  IN [x EXCEPT !.runs = [r \in DOMAIN @ |-> moved(@[r])], !.live = up(@), !.current = up(@)]

InsertBlock(x, i, cell) == Dirty([x EXCEPT !.blocks = InsertAt(@, i, cell)], i)

\* Slip: the runs that stay are not moved with their cells.
TrimStaying(x) ==
  LET excess == Len(x.runs) - MaxCompleted
      start  == x.runs[1].start
      end    == x.runs[excess].end
      n      == end - start
      cut    == [x EXCEPT
                   !.blocks = SubSeq(@, 1, start - 1) \o SubSeq(@, end, Len(@)),
                   !.runs = [r \in 1..(Len(@) - excess) |-> @[r + excess]],
                   !.live = Down(@, start, n), !.current = Down(@, start, n),
                   !.omission = Down(@, start, n),
                   !.cache = <<>>, !.cached = 0, !.omitted = @ + excess]
      marked == Dirty(cut, start)
      omits  == [kind |-> "omitted", text |-> cut.omitted]
  IN IF excess <= 0 THEN x
     ELSE IF marked.omission = None
     THEN [Up(InsertBlock(marked, start, omits), start) EXCEPT !.omission = start]
     ELSE ReplaceBlock(marked, marked.omission, omits)

\* trimCompletedRuns.  The end of a run is the position after its last cell.
Trim(x) ==
  LET excess == Len(x.runs) - MaxCompleted
      start  == x.runs[1].start
      end    == x.runs[excess].end
      n      == end - start
      moved(run) == [run EXCEPT !.start = @ - n, !.end = @ - n]
      cut    == [x EXCEPT
                   !.blocks = SubSeq(@, 1, start - 1) \o SubSeq(@, end, Len(@)),
                   !.runs = [r \in 1..(Len(@) - excess) |-> moved(@[r + excess])],
                   !.live = Down(@, start, n), !.current = Down(@, start, n),
                   !.omission = Down(@, start, n),
                   !.cache = <<>>, !.cached = 0, !.omitted = @ + excess]
      marked == Dirty(cut, start)
      omits  == [kind |-> "omitted", text |-> cut.omitted]
  IN IF excess <= 0 THEN x
     ELSE IF marked.omission = None
     THEN [Up(InsertBlock(marked, start, omits), start) EXCEPT !.omission = start]
     ELSE ReplaceBlock(marked, marked.omission, omits)

\* finalizeCurrentRun.
Finalize(x) ==
  LET end == Len(x.blocks) + 1 IN
  IF x.current = None THEN x
  ELSE IF end <= x.current THEN [x EXCEPT !.current = None]
  ELSE Trim([x EXCEPT !.runs = Append(@, [start |-> x.current, end |-> end,
                                          from |-> x.blocks[x.current].text,
                                          to |-> Last(x.blocks).kind]),
                      !.current = None])

-----------------------------------------------------------------------------
(* What is written.                                                        *)

WriteNote(x) == AppendBlock(Gap(Settled(x)), Cell("note"))
WriteLine(x) == AppendBlock(Settled(x), Cell("line"))
WriteError(x) == Finalize(AppendBlock(Settled(x), Cell("error")))

InsertNoteBeforeCurrentRun(x) ==
  IF x.current = None THEN WriteNote(x)
  ELSE Up(InsertBlock(x, x.current, Cell("note")), x.current)

WriteUserTurn(x) ==
  LET y == Gap(Settled(x))
      z == AppendBlock(y, [kind |-> "user", text |-> x.prompts])
  IN [z EXCEPT !.prompts = @ + 1, !.current = IF @ = None THEN Len(z.blocks) ELSE @]

\* A compaction notice has a gap before the gap of its note.
WriteCompaction(x) == WriteNote(Gap(Settled(x)))

\* appendAssistantDelta.
Grow(x) ==
  LET y == EndTools(x) IN
  IF y.live = None
  THEN LET z == AppendBlock(Gap(y), [kind |-> "live", text |-> 1]) IN [z EXCEPT !.live = Len(z.blocks)]
  ELSE ReplaceBlock(y, y.live, [y.blocks[y.live] EXCEPT !.text = Version(@)])

\* finishAssistant; completeAssistant of a preview finalizes the run as well.
FinishAssistant(x) ==
  LET y == EndTools(x) IN
  IF y.live # None THEN [ReplaceBlock(y, y.live, Cell("assistant")) EXCEPT !.live = None]
  ELSE AppendBlock(y, Cell("assistant"))

\* startTool: a group takes the call, or it is ended for a new one.
StartTool(x, accepts) ==
  LET y == EndLive(x)
      z == IF y.tools # 0 /\ ~accepts THEN Gap(EndTools(y)) ELSE y
      g == IF z.tools = 0 /\ x.live = None THEN Gap(z) ELSE z
  IN Dirty([g EXCEPT !.tools = Version(@)], Len(g.blocks) + 1)

\* updateTool, finishTool, failTool; the marker of the clock is the same.
ChangeTool(x) ==
  IF x.tools = 0 THEN x ELSE Dirty([x EXCEPT !.tools = Version(@)], Len(x.blocks) + 1)

RunFailed(x, cancelled) ==
  LET y == EndTools(EndLive(x))
  IN Finalize(IF cancelled THEN y ELSE AppendBlock(y, Cell("error")))

RunSucceeded(x, separator) ==
  LET y == FinishAssistant(x)
  IN Finalize(IF separator THEN AppendBlock(Gap(y), Cell("note")) ELSE y)

Tools(x) == IF x.tools = 0 THEN <<>> ELSE <<[kind |-> "tools", text |-> x.tools]>>

\* Render: the cells before the first dirty one are reused, when the offsets of
\* the last rendering are there.  Then the open tool group.
Render(x) ==
  LET from == IF x.cached = 1 /\ x.dirty > 1 THEN x.dirty ELSE 1
  IN IF x.dirty = 0 THEN x
     ELSE [x EXCEPT !.cache = SubSeq(@, 1, from - 1)
                                \o SubSeq(x.blocks, from, Len(x.blocks)) \o Tools(x),
                    !.cached = 1, !.dirty = 0]

-----------------------------------------------------------------------------
(* Update: what waits is written before an event of the run.               *)

Flushed == IF pending THEN Render(Grow(t)) ELSE t

Write(x) == writes < MaxWrites /\ writes' = writes + 1 /\ t' = Render(x)

\* Slash commands, replies and the prompt itself.
LocalWrite ==
  /\ \/ Write(WriteNote(t)) \/ Write(WriteLine(t)) \/ Write(WriteError(t))
     \/ Write(InsertNoteBeforeCurrentRun(t)) \/ Write(WriteUserTurn(t))
  /\ UNCHANGED pending

Delta ==
  /\ ~pending /\ pending' = TRUE
  /\ UNCHANGED <<t, writes>>

LiveFlush == pending /\ pending' = FALSE /\ Write(Flushed)

ApplyRunEvent ==
  /\ pending' = FALSE
  /\ \/ Write(WriteCompaction(Flushed)) \/ Write(WriteUserTurn(Flushed))
     \/ \E accepts \in BOOLEAN : Write(StartTool(Flushed, accepts))
     \/ Write(ChangeTool(Flushed))
     \/ \E cancelled \in BOOLEAN : Write(RunFailed(Flushed, cancelled))
     \/ \E separator \in BOOLEAN : Write(RunSucceeded(Flushed, separator))

\* Another width: everything is rendered again.
Resize ==
  /\ t' = Render([t EXCEPT !.cached = 0, !.dirty = 1])
  /\ UNCHANGED <<pending, writes>>

Next == LocalWrite \/ Delta \/ LiveFlush \/ ApplyRunEvent \/ Resize

Spec == Init /\ [][Next]_<<t, pending, writes>>

-----------------------------------------------------------------------------
(* Properties.                                                             *)

KindAt(i, kind) == i \in DOMAIN t.blocks /\ t.blocks[i].kind = kind

\* However notes are inserted, runs fail and old runs are cut out: the indexes
\* point at the cells they were set for, and no other cell is live or an
\* omission.
IndexesPoint ==
  /\ \A i \in DOMAIN t.blocks : t.blocks[i].kind = "live" <=> t.live = i
  /\ \A i \in DOMAIN t.blocks : t.blocks[i].kind = "omitted" <=> t.omission = i
  /\ t.omission # None => t.blocks[t.omission].text = t.omitted
  /\ t.current # None => KindAt(t.current, "user")
  /\ ~(t.live # None /\ t.tools # 0)

\* The completed runs are kept whole, apart and in order: each interval holds
\* the cells it was closed with, so cutting the oldest cuts nothing else.
RunsKeptWhole ==
  /\ Len(t.runs) <= MaxCompleted
  /\ \A r \in DOMAIN t.runs :
       LET run == t.runs[r] IN
       /\ 1 <= run.start /\ run.start < run.end /\ run.end <= Len(t.blocks) + 1
       /\ KindAt(run.start, "user")
       /\ t.blocks[run.start].text = run.from /\ t.blocks[run.end - 1].kind = run.to
       /\ r > 1 => t.runs[r - 1].end <= run.start
  /\ t.current # None /\ t.runs # <<>> => Last(t.runs).end <= t.current

\* Whatever prefix was reused, what is shown is the transcript as it is now.
ShownIsCurrent == writes > 0 => t.cache = t.blocks \o Tools(t)

\* The transcript is what happened: its parts refer to each other rightly, no run
\* is shown in part, and the screen is not older than the blocks.
TranscriptSound == IndexesPoint /\ RunsKeptWhole /\ ShownIsCurrent

\* The transcript keeps the current run and the most recent completed runs
\* only: with the omission cell there is nothing older than the first of them.
SurfaceIsBounded ==
  t.omission # None /\ t.runs # <<>> =>
    \A i \in t.omission + 1 .. t.runs[1].start - 1 : t.blocks[i].kind = "gap"

=============================================================================
