----------------------------- MODULE SessionRun -----------------------------
(***************************************************************************)
(* One call of stream_session_run_events after another on one session:     *)
(* automatic compaction with its failure count, the start of the           *)
(* configured MCP servers, the framing status, the agent, the run, and the *)
(* end, on which the file is finalized and the servers are closed.         *)
(*                                                                         *)
(* The call is a generator.  It can be cancelled where it awaits, and the  *)
(* consumer can drop it where it yields.  History tokens are counted in    *)
(* units; a server's connection is open from its __aenter__ on.            *)
(***************************************************************************)
EXTENDS Naturals, FiniteSets, Sequences

CONSTANTS
  Servers,      \* number of enabled MCP servers in the configuration
  MaxCalls,     \* calls made on the session
  MaxFailures,  \* MAX_CONSECUTIVE_AUTO_COMPACTION_FAILURES
  Budget,       \* units of history that trigger a compaction
  MaxTokens     \* bound: units the history may reach

VARIABLES
  pc,        \* where the call stands
  calls,     \* calls made so far
  tokens,    \* units of history a next run would resume
  since,     \* runs since the latest compaction
  failures,  \* consecutive_auto_compaction_failures of the metadata file
  log,       \* the compactions of the session: "failed", "ok", "byhand"
  next,      \* the server being started
  open,      \* servers of this call whose connection is open
  closing,   \* servers still to close, last first, and what follows
  shown,     \* what the consumer of this call has been given
  pending,   \* whether a tool call of the run is unanswered
  file,      \* "none", "running", "final": the call's run in the session file
  loadable,  \* whether load_session accepts the session
  ended      \* how the last call ended

session == <<calls, tokens, since, failures, log, loadable>>
mcp == <<next, open, closing>>
run == <<pending, file>>
vars == <<pc, session, mcp, run, shown, ended>>

Shown(event) == shown' = Append(shown, event)
Terminal == {"succeeded", "failed"}
Saw(event) == \E i \in DOMAIN shown : shown[i] = event
RunSeen == Saw("started")

Least(a, b) == IF a < b THEN a ELSE b

\* The call is over; what is open now stays open.
Ends(how) == pc' = "idle" /\ ended' = how

-----------------------------------------------------------------------------
\* Before the run: the file is loaded, and compacted when over budget.

ShouldCompact == since > 0 /\ tokens >= Budget

BeginCall ==
  /\ pc = "idle" /\ calls < MaxCalls /\ calls' = calls + 1
  /\ next' = 1 /\ open' = {} /\ closing' = [left |-> {}, then |-> "none"]
  /\ pending' = FALSE /\ file' = "none" /\ shown' = <<>>
  /\ IF ~loadable THEN Ends("unloadable")
     ELSE IF ~ShouldCompact THEN pc' = "config" /\ ended' = "none"
     ELSE IF failures >= MaxFailures THEN Ends("blocked")
     ELSE pc' = "compacting" /\ ended' = "none"
  /\ UNCHANGED <<tokens, since, failures, log, loadable>>

\* The start is announced before the summary is requested.
Announce ==
  /\ pc = "compacting" /\ ~Saw("compaction_started")
  /\ Shown("compaction_started")
  /\ UNCHANGED <<pc, session, mcp, run, ended>>

CompactionFails ==
  /\ pc = "compacting" /\ Saw("compaction_started")
  /\ failures' = failures + 1 /\ log' = Append(log, "failed")
  /\ Ends("raised")
  /\ UNCHANGED <<calls, tokens, since, loadable, mcp, run, shown>>

Compacted ==
  /\ pc = "compacting" /\ Saw("compaction_started")
  /\ failures' = 0 /\ log' = Append(log, "ok") /\ since' = 0
  /\ \E summary \in 1..tokens : tokens' = summary
  /\ Shown("compaction_completed") /\ pc' = "config"
  /\ UNCHANGED <<calls, loadable, mcp, run, ended>>

-----------------------------------------------------------------------------
\* The configured MCP servers are started one after the other.

\* A configuration entry that does not validate raises as it is.
BadConfig ==
  /\ pc = "config" /\ Ends("raised")
  /\ UNCHANGED <<session, mcp, run, shown>>

Configured ==
  /\ pc = "config" /\ pc' = "starting"
  /\ UNCHANGED <<session, mcp, run, shown, ended>>

\* Slip: a failed start raises without closing what it had started.
StartFailsOpen ==
  /\ pc = "starting"
  /\ Shown("mcp_failed") /\ Ends("returned")
  /\ UNCHANGED <<session, mcp, run>>

\* The factory or __aenter__ of the next server fails, or, all being started,
\* their tools cannot be mounted together: those started are closed.
StartFails ==
  /\ pc = "starting"
  /\ pc' = "closing" /\ closing' = [left |-> open, then |-> "mcp_failed"]
  /\ UNCHANGED <<session, next, open, run, shown, ended>>

Enters ==
  /\ pc = "starting" /\ next <= Servers
  /\ open' = open \cup {next} /\ pc' = "listing"
  /\ UNCHANGED <<session, next, closing, run, shown, ended>>

ListFails ==
  /\ pc = "listing"
  /\ pc' = "closing" /\ closing' = [left |-> open, then |-> "mcp_failed"]
  /\ UNCHANGED <<session, next, open, run, shown, ended>>

Lists ==
  /\ pc = "listing" /\ next' = next + 1 /\ pc' = "starting"
  /\ UNCHANGED <<session, open, closing, run, shown, ended>>

\* All servers run: the status of the persisted framing is shown when the
\* session had a file, and the agent is built.
Mounted ==
  /\ pc = "starting" /\ next > Servers /\ pc' = "framing"
  /\ IF tokens > 0 THEN Shown("status") ELSE UNCHANGED shown
  /\ UNCHANGED <<session, mcp, run, ended>>

\* The status, the history with its project documents or the grants raise,
\* before or after the status is shown, and nothing there closes the servers.
FramingFails ==
  /\ pc = "framing" \/ (pc = "starting" /\ next > Servers)
  /\ Ends("unframed")
  /\ UNCHANGED <<session, mcp, run, shown>>

AgentFails ==
  /\ pc = "framing"
  /\ pc' = "closing" /\ closing' = [left |-> open, then |-> "raised"]
  /\ UNCHANGED <<session, next, open, run, shown, ended>>

AgentBuilt ==
  /\ pc = "framing" /\ pc' = "running"
  /\ UNCHANGED <<session, mcp, run, shown, ended>>

-----------------------------------------------------------------------------
\* The run: each event is appended to the file, then shown.

Running == pc = "running" /\ ~\E t \in Terminal : Saw(t)

Finishing(how) == pc' = "closing" /\ closing' = [left |-> open, then |-> how]

RunStarted ==
  /\ Running /\ ~RunSeen
  /\ file' = "running" /\ Shown("started")
  /\ UNCHANGED <<pc, session, mcp, pending, ended>>

\* The run has its id, and its entry or its first event cannot be written: the
\* consumer is told the end of a run it did not see begin.
RunStartFails ==
  /\ Running /\ ~RunSeen /\ Shown("failed") /\ Finishing("raised")
  /\ \/ UNCHANGED <<file, loadable>>
     \/ file' = "running" /\ loadable' = FALSE
  /\ UNCHANGED <<calls, tokens, since, failures, log, next, open, pending, ended>>

ToolStarted ==
  /\ Running /\ RunSeen /\ ~pending /\ ~Saw("tool_ended")
  /\ pending' = TRUE /\ Shown("tool_started")
  /\ UNCHANGED <<pc, session, mcp, file, ended>>

ToolEnded ==
  /\ Running /\ pending /\ pending' = FALSE /\ Shown("tool_ended")
  /\ UNCHANGED <<pc, session, mcp, file, ended>>

RunEnds(how) ==
  /\ Running /\ RunSeen /\ ~pending /\ Shown(how)
  /\ UNCHANGED <<pc, session, mcp, run, ended>>

\* The tools still unanswered and the run itself are told as failed.
Failures == (IF pending THEN <<"tool_ended">> ELSE <<>>) \o <<"failed">>

\* What finalization leaves: the run's messages, or, when they are refused or
\* cannot be written, a run without an end.
Finalized ==
  \/ /\ file' = "final" /\ since' = since + 1
     /\ \E size \in 1..2 : tokens' = Least(tokens + size, MaxTokens)
     /\ UNCHANGED loadable
  \/ /\ loadable' = FALSE
     /\ UNCHANGED <<file, since, tokens>>

\* The stream is over after its terminal event.
StreamEnds ==
  /\ pc = "running" /\ \E t \in Terminal : Saw(t)
  /\ Finalized
  /\ Finishing(IF file' = "final" THEN "returned" ELSE "raised")
  /\ UNCHANGED <<calls, failures, log, next, open, pending, shown, ended>>

\* Slip: an error in the loop is only raised.
LoopFailsSilently ==
  /\ Running
  /\ loadable' = (loadable /\ ~RunSeen) /\ Finishing("raised")
  /\ UNCHANGED <<calls, tokens, since, failures, log, next, open, run, shown, ended>>

\* An error in the loop: the live consumer is told, the file is left as it is.
LoopFails ==
  /\ Running
  /\ shown' = IF RunSeen THEN shown \o Failures ELSE shown
  /\ pending' = FALSE
  /\ loadable' = (loadable /\ ~RunSeen) /\ Finishing("raised")
  /\ UNCHANGED <<calls, tokens, since, failures, log, next, open, file, ended>>

-----------------------------------------------------------------------------
\* Cancellation and abandonment.

Waits == {"compacting", "starting", "listing"}
Yields == {"compacting", "config", "framing"}

\* Before the run nothing catches them.
CancelStart ==
  /\ pc \in Waits /\ Ends("cancelled")
  /\ UNCHANGED <<session, mcp, run, shown>>

DropStart ==
  /\ pc \in Yields /\ shown # <<>> /\ Ends("dropped")
  /\ UNCHANGED <<session, mcp, run, shown>>

\* During the run a cancellation is finalized as a failure; once the terminal
\* event is in the file, the appender refuses a second one.
CancelRun ==
  /\ pc = "running"
  /\ IF RunSeen
     THEN /\ shown' = IF Running THEN shown \o Failures ELSE shown
          /\ Finalized
     ELSE UNCHANGED <<shown, file, since, tokens, loadable>>
  /\ pending' = FALSE /\ Finishing("cancelled")
  /\ UNCHANGED <<calls, failures, log, next, open, ended>>

\* A consumer that drops the generator leaves the run without an end, unless
\* it has been given the terminal event.
DropRun ==
  /\ pc = "running" /\ RunSeen
  /\ IF Running THEN loadable' = FALSE /\ UNCHANGED <<file, since, tokens>> ELSE Finalized
  /\ pending' = FALSE /\ Finishing("dropped")
  /\ UNCHANGED <<calls, failures, log, next, open, shown, ended>>

\* The servers are closed in reverse order.
Close ==
  /\ pc = "closing" /\ closing.left # {}
  /\ LET last == CHOOSE s \in closing.left : \A t \in closing.left : t <= s IN
     /\ open' = open \ {last}
     /\ closing' = [closing EXCEPT !.left = @ \ {last}]
  /\ UNCHANGED <<pc, session, next, run, shown, ended>>

\* One that cannot be closed, or a cancellation, ends the closing.
CloseStops ==
  /\ pc = "closing" /\ closing.left # {} /\ Ends("close_failed")
  /\ closing' = [closing EXCEPT !.left = {}]
  /\ UNCHANGED <<session, next, open, run, shown>>

Closed ==
  /\ pc = "closing" /\ closing.left = {}
  /\ IF closing.then = "mcp_failed" THEN Shown("mcp_failed") /\ Ends("returned")
     ELSE Ends(closing.then) /\ UNCHANGED shown
  /\ UNCHANGED <<session, mcp, run>>

\* session.compact between two runs shortens the history as well; it does not
\* touch the count.
CompactByHand ==
  /\ pc = "idle" /\ loadable /\ since > 0 /\ since' = 0
  /\ tokens' = 1 /\ log' = Append(log, "byhand")
  /\ UNCHANGED <<pc, calls, failures, loadable, mcp, run, shown, ended>>

-----------------------------------------------------------------------------
Init ==
  /\ pc = "idle" /\ calls = 0 /\ tokens = 0 /\ since = 0 /\ failures = 0 /\ log = <<>>
  /\ next = 1 /\ open = {} /\ closing = [left |-> {}, then |-> "none"]
  /\ shown = <<>> /\ pending = FALSE /\ file = "none" /\ loadable = TRUE /\ ended = "none"

Prepare == BeginCall \/ Announce \/ CompactionFails \/ Compacted \/ CompactByHand
Start == \/ BadConfig \/ Configured \/ Enters \/ ListFails \/ Lists \/ Mounted
         \/ StartFails \/ FramingFails \/ AgentFails \/ AgentBuilt
Stream == \/ RunStarted \/ RunStartFails \/ ToolStarted \/ ToolEnded \/ StreamEnds \/ LoopFails
          \/ \E how \in Terminal : RunEnds(how)
Stops == CancelStart \/ DropStart \/ CancelRun \/ DropRun \/ Close \/ CloseStops \/ Closed

Next == Prepare \/ Start \/ Stream \/ Stops

Spec == Init /\ [][Next]_vars

-----------------------------------------------------------------------------
(* A call that got as far as its run, or was not stopped before it, leaves *)
(* no MCP server running, unless one of them fails to close or the history *)
(* cannot be framed (session.py's finally and the except around the agent, *)
(* build_configured_mcp_runtime).                                          *)
ServersClosed ==
  pc = "idle" /\ open # {} =>
    \/ ended \in {"close_failed", "unframed"}
    \/ ended \in {"cancelled", "dropped"} /\ ~RunSeen

(* The consumer that stays is told the end of every run it saw begin,      *)
(* once and last, and the end of every tool call, however the run ends     *)
(* (session.py:626-634: without it the client is stuck on "running").      *)
ConsumerSeesEnd ==
  pc = "idle" /\ RunSeen /\ ended # "none" =>
    LET ends == {i \in DOMAIN shown : shown[i] \in Terminal} IN
    /\ Cardinality(ends) <= 1
    /\ ends # {} => ends = {Len(shown)} /\ (Saw("tool_started") => Saw("tool_ended"))
    /\ ends = {} => ended \in {"dropped", "close_failed"}

(* A call that ended before its run began, on a failed compaction, server, *)
(* configuration, framing or agent, or stopped, leaves no run in the       *)
(* session file and the file loadable (docs/contracts.md:121-123), unless  *)
(* it told the end of a run whose start could not be written.              *)
FailedStartLeavesNoRun ==
  pc = "idle" /\ ~RunSeen /\ ~Saw("failed") => file = "none" /\ (loadable \/ ended = "unloadable")

(* The session is blocked only after MaxFailures attempts in a row failed, *)
(* with no success among them.                                             *)
Earned == {i \in DOMAIN log : log[i] = "failed" /\ \A j \in i..Len(log) : log[j] # "ok"}
BlockedAfterFailures == pc = "idle" /\ ended = "blocked" => Cardinality(Earned) >= MaxFailures

\* A call that is over leaves nothing behind: no server, no half of a run, and
\* no count of failures that it did not earn.
CallLeavesNothing == ServersClosed /\ FailedStartLeavesNoRun /\ BlockedAfterFailures

(* docs/contracts.md:109-113 "Session runs must load persisted configured  *)
(* MCP servers, ... and close configured MCP clients through the backend   *)
(* runtime-resource lifecycle".  Refuted: three ways out of a call come    *)
(* after servers were opened and before the try that closes them.          *)
ServersAlwaysClosed == pc = "idle" => open = {}

(* docs/contracts.md:1165 "the runtime blocks further automatic compaction *)
(* attempts for that session and fails hard until the user reduces context *)
(* or starts a new session": no call is blocked whose latest compaction    *)
(* was the user's.  Refuted: session.compact does not reset the count, and *)
(* the next time the history has grown there is no attempt.                *)
BlockEndsWithContext ==
  [][calls' # calls /\ ended' = "blocked" => log[Len(log)] # "byhand"]_vars
=============================================================================
