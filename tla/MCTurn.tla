-------------------------------- MODULE MCTurn -------------------------------
(***************************************************************************)
(* What surrounds the model calls of a turn, each part explored alone from *)
(* its own initial states: the session's calls from configuration to the   *)
(* close of the MCP servers, the MCP tools of a run, the turn context, the *)
(* text algorithms of the tools, and the transcript that shows the turn.   *)
(* A behaviour moves one part and leaves the others as they began.         *)
(* McpTools is extended, the others are instantiated.                      *)
(***************************************************************************)
EXTENDS McpTools, Sequences

CONSTANTS
  Servers, MaxCalls, MaxFailures, Budget, MaxTokens,
  Plain, Posture, Value, Tool, MaxChanges,
  Char, MaxFile, MaxOld, MaxNew, MaxItems, Sizes, ByteCap, LineCap,
  MaxCompleted, MaxWrites

VARIABLES
  part,
  pc, calls, tokens, since, failures, log, next, open, closing, shown, running, file,
  loadable, ended,
  now, servers, enabled, entry, history, status, prefix, update, noted, phase, changes,
  text, old, new, result, items, limit, listed, tail,
  t, pending, writes

\* No setting has the word for "nothing was said" as its value.
ASSUME UnsaidIsNoValue == "unsaid" \notin Value
\* transcriptMaxCompletedRuns is a number of runs.
ASSUME CompletedIsCount == MaxCompleted \in Nat

session == <<pc, calls, tokens, since, failures, log, next, open, closing, shown, running,
             file, loadable, ended>>
context == <<now, servers, enabled, entry, history, status, prefix, update, noted, phase,
             changes>>
texts == <<text, old, new, result, items, limit, listed, tail>>
screen == <<t, pending, writes>>
allVars == <<part, session, vars, context, texts, screen>>

\* Two raw names that normalize to one, and others that do not change.
Normalized == [r \in Raw |-> IF r = "a-b" THEN "a_b" ELSE r]

S == INSTANCE SessionRun WITH pending <- running
C == INSTANCE TurnContext WITH active <- enabled
X == INSTANCE TextTools WITH file <- text
V == INSTANCE Transcript

\* A part that is not explored has one initial state.
ToolsFixed == /\ offered = [s \in Server |-> Raw] /\ admitted = offered
              /\ mode = [r \in Server \X Raw |-> "auto"]
ContextFixed == /\ now = [s \in Plain \cup Posture |-> CHOOSE v \in Value : TRUE]
                /\ servers = {}
TextsFixed == text = <<>> /\ old = <<>> /\ new = <<>> /\ items = <<>> /\ limit = 1

MCInit ==
  /\ S!Init /\ V!Init
  /\ \/ part \in {"session", "screen"} /\ ToolsFixed /\ ContextFixed /\ TextsFixed
     \/ part = "tools" /\ ContextFixed /\ TextsFixed
     \/ part = "context" /\ ToolsFixed /\ TextsFixed
     \/ part = "texts" /\ ToolsFixed /\ ContextFixed
  /\ Init /\ C!Init /\ X!Init

MCNext ==
  \/ part = "session" /\ S!Next /\ UNCHANGED <<part, vars, context, texts, screen>>
  \/ part = "tools" /\ Next /\ UNCHANGED <<part, session, context, texts, screen>>
  \/ part = "context" /\ C!Next /\ UNCHANGED <<part, session, vars, texts, screen>>
  \/ part = "texts" /\ X!Next /\ UNCHANGED <<part, session, vars, context, screen>>
  \/ part = "screen" /\ V!Next /\ UNCHANGED <<part, session, vars, context, texts>>

MCSpec == MCInit /\ [][MCNext]_allVars

\* A call that is over leaves no server and no half of a run (runtime/session.py).
CallLeavesNothing == S!CallLeavesNothing
\* The consumer is told the end of the run it saw begin (runtime/session.py).
ConsumerSeesEnd == S!ConsumerSeesEnd
\* The model knows the current settings (runtime/turn_context.py).
ModelIsToldCurrent == C!ModelIsToldCurrent
\* An edit keeps the rest, a cut is announced (tools/edit.py, truncation.py).
TextsKept == X!TextsKept
\* Indexes point, runs are whole, the screen is current (app/transcript.go).
TranscriptSound == V!TranscriptSound
=============================================================================
