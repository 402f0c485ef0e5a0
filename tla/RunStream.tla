----------------------------- MODULE RunStream -----------------------------
(***************************************************************************)
(* One streamed run: runtime/run.py turns what the agent framework does    *)
(* into run events and restarts the attempt where it can; around it        *)
(* runtime/session.py appends each event to the session file before the    *)
(* client sees it.                                                         *)
(*                                                                         *)
(* The framework is external.  It announces the calls of a response one by *)
(* one, resolves them in any order once all are announced, and may run a   *)
(* tool, and pass on its updates, before the call is announced (the reason *)
(* run.py buffers updates).  Tools of an abandoned attempt stop.           *)
(***************************************************************************)
EXTENDS EventRules

CONSTANTS
  CorrectionRetries,  \* CANONICAL_AGENT_TOOL_CORRECTION_RETRIES
  RecoveryRetries,    \* CANONICAL_RUN_RECOVERY_RETRY_LIMIT
  MaxUpdates          \* bound: updates one tool passes on

RetriesAssumption ==
  /\ CorrectionRetries \in Nat /\ RecoveryRetries \in Nat /\ MaxUpdates \in Nat
  /\ IsFiniteSet(Call)

VARIABLES
  stage,        \* "asking" the model, in the "tools" phase, or "over"
  saw,          \* saw_streamed_event: the framework streamed in this attempt
  corrections,  \* correction_attempts
  recoveries,   \* recovery_attempts

  unseen,       \* calls of the response whose call event was not consumed yet
  idle,         \* calls of the response whose tool has not begun
  running,      \* tools the framework is executing
  queue,        \* the attempt's queue of tool updates, by call
  sent,         \* how many updates each tool passed on
  used,         \* calls of all responses so far

  pending,      \* pending_tool_calls of run.py
  completed,    \* completed_tool_calls of run.py
  buffered,     \* buffered_tool_updates of run.py, counted per call

  open,         \* pending_tool_calls of the appender and of session.py
  log,          \* the events the session file holds for this run
  tail,         \* events shown to the client and not written
  filed,        \* the run in the session file: "open", "complete", "incomplete"
  dropped       \* history: calls run.py abandoned while pending

attempt   == <<saw, corrections, recoveries>>
framework == <<unseen, idle, running, queue, sent, used>>
tables    == <<pending, completed, buffered>>
stream    == <<open, log, tail, filed>>
vars == <<stage, attempt, framework, tables, stream, dropped>>

\* What the client saw.
Shown == log \o tail

Init ==
  /\ stage = "asking"
  /\ saw = FALSE /\ corrections = 0 /\ recoveries = 0
  /\ unseen = {} /\ idle = {} /\ running = {} /\ queue = <<>> /\ sent = [c \in Call |-> 0]
  /\ used = {}
  /\ pending = {} /\ completed = {} /\ buffered = [c \in Call |-> 0]
  /\ open = {} /\ log = <<>> /\ tail = <<>> /\ filed = "open"
  /\ dropped = {}

-----------------------------------------------------------------------------
(* Building blocks.                                                        *)

\* Slip: after a refused event the client is told only that the run failed.
EmitBareFailure(events, next) ==
  LET fed == Feed(open, log, events)
  IN  /\ log' = fed.log
      /\ open' = fed.open
      /\ IF ~fed.ok
         THEN /\ stage' = "over" /\ filed' = "incomplete"
              /\ tail' = <<Over("run_failed")>>
         ELSE /\ tail' = tail
              /\ IF Closed(fed.log)
                 THEN stage' = "over" /\ filed' = "complete"
                 ELSE stage' = next /\ filed' = filed

\* session.py: each event is appended, then passed on.  An event the appender
\* refuses raises: the client still gets an end of the run, the file does not,
\* and the run stays without its messages.  Otherwise the run goes on in stage
\* "next", or is finalized after a terminal event.
Emit(events, next) ==
  LET fed == Feed(open, log, events)
  IN  /\ log' = fed.log
      /\ open' = fed.open
      /\ IF ~fed.ok
         THEN /\ stage' = "over" /\ filed' = "incomplete"
              /\ tail' = Append(FailAll(fed.open), Over("run_failed"))
         ELSE /\ tail' = tail
              /\ IF Closed(fed.log)
                 THEN stage' = "over" /\ filed' = "complete"
                 ELSE stage' = next /\ filed' = filed

\* The framework's tools stop, its queue goes with the attempt.
StopTools ==
  /\ unseen' = {} /\ idle' = {} /\ running' = {} /\ queue' = <<>>
  /\ UNCHANGED <<sent, used>>

\* The next attempt, from a new prompt; the tables are cleared.
Restart ==
  /\ StopTools
  /\ saw' = FALSE
  /\ recoveries' = 0
  /\ pending' = {} /\ completed' = {} /\ UNCHANGED buffered

\* An exception run.py does not recover from: every pending call fails, then
\* the run.
Fail ==
  /\ StopTools
  /\ Emit(Append(FailAll(pending), Over("run_failed")), "over")
  /\ UNCHANGED <<attempt, tables, dropped>>

\* The buffered updates of a call, now that it has started.
Drained(c) == [i \in 1 .. buffered[c] |-> On("updated", c)]

-----------------------------------------------------------------------------
(* The model request.                                                      *)

\* The model answers with tool calls.
AnswerCalls(calls) ==
  /\ stage = "asking" /\ calls # {}
  /\ calls \cap used = {} /\ used' = used \cup calls
  /\ stage' = "tools" /\ saw' = TRUE
  /\ unseen' = calls /\ idle' = calls
  /\ UNCHANGED <<corrections, recoveries, running, queue, sent, tables, stream, dropped>>

\* The model answers with text.  Calls that never got a result fail the run;
\* so does, after the end was recorded as emitted, an update left in the
\* buffer: that error leaves the generator, and only the client is told.
AnswerText ==
  /\ stage = "asking"
  /\ saw' = TRUE
  /\ \/ /\ pending # {}
        /\ Emit(Append(FailAll(pending), Over("run_failed")), "over")
        /\ pending' = {} /\ completed' = {} /\ UNCHANGED buffered
     \/ /\ pending = {} /\ \E c \in Call : buffered[c] > 0
        /\ stage' = "over" /\ filed' = "incomplete"
        /\ tail' = Append(FailAll(open), Over("run_failed"))
        /\ UNCHANGED <<open, log, tables>>
     \/ /\ pending = {} /\ \A c \in Call : buffered[c] = 0
        /\ Emit(<<Over("run_succeeded")>>, "over")
        /\ UNCHANGED tables
  /\ StopTools
  /\ UNCHANGED <<corrections, recoveries, dropped>>

\* A retryable transport error, before anything was streamed in this attempt.
Recover ==
  /\ stage = "asking"
  /\ ~saw /\ recoveries < RecoveryRetries
  /\ recoveries' = recoveries + 1
  /\ UNCHANGED <<stage, saw, corrections, framework, tables, stream, dropped>>

\* Any other error of the model request.
AskError == stage = "asking" /\ Fail

\* The request is over the context limit: the history is truncated and the
\* attempt starts anew, with its tables if the truncation failed.
Compact ==
  /\ stage = "asking"
  /\ \/ Restart /\ dropped' = dropped \cup pending
     \/ StopTools /\ saw' = FALSE /\ UNCHANGED <<recoveries, tables, dropped>>
  /\ UNCHANGED <<stage, corrections, stream>>

-----------------------------------------------------------------------------
(* The tool phase.                                                         *)

\* External: a tool of the response begins, possibly before its call event.
BeginTool(c) ==
  /\ c \in idle
  /\ idle' = idle \ {c}
  /\ running' = running \cup {c}
  /\ UNCHANGED <<stage, attempt, unseen, queue, sent, used, tables, stream, dropped>>

\* External: a running tool passes on an update.
SendUpdate(c) ==
  /\ c \in running
  /\ sent[c] < MaxUpdates
  /\ sent' = [sent EXCEPT ![c] = @ + 1]
  /\ queue' = Append(queue, c)
  /\ UNCHANGED <<stage, attempt, unseen, idle, running, used, tables, stream, dropped>>

\* Slip: an update of a completed call is passed on.
TakeUpdateAlways ==
  /\ stage = "tools" /\ queue # <<>>
  /\ queue' = Tail(queue)
  /\ LET c == Head(queue)
     IN  \/ /\ c \in pending \cup completed
            /\ Emit(<<On("updated", c)>>, "tools")
            /\ UNCHANGED buffered
         \/ /\ c \notin pending \cup completed
            /\ buffered' = [buffered EXCEPT ![c] = @ + 1]
            /\ UNCHANGED <<stage, stream>>
  /\ UNCHANGED <<attempt, unseen, idle, running, sent, used, pending, completed, dropped>>

\* _resolve_tool_update: passed on for a pending call, ignored for a completed
\* one, buffered for a call that has not started.
TakeUpdate ==
  /\ stage = "tools" /\ queue # <<>>
  /\ queue' = Tail(queue)
  /\ LET c == Head(queue)
     IN  \/ /\ c \in pending
            /\ Emit(<<On("updated", c)>>, "tools")
            /\ UNCHANGED buffered
         \/ /\ c \in completed \ pending
            /\ UNCHANGED <<stage, buffered, stream>>
         \/ /\ c \notin pending \cup completed
            /\ buffered' = [buffered EXCEPT ![c] = @ + 1]
            /\ UNCHANGED <<stage, stream>>
  /\ UNCHANGED <<attempt, unseen, idle, running, sent, used, pending, completed, dropped>>

\* _process_tool_call_event, for a call whose name and arguments are valid.
StartCall(c) ==
  /\ stage = "tools" /\ c \in unseen
  /\ unseen' = unseen \ {c}
  /\ pending' = pending \cup {c}
  /\ buffered' = [buffered EXCEPT ![c] = 0]
  /\ Emit(<<On("started", c)>> \o Drained(c), "tools")
  /\ UNCHANGED <<attempt, idle, running, queue, sent, used, completed, dropped>>

\* The same, for an unknown tool or invalid arguments: a correction while the
\* budget lasts, the end of the run after that.
MalformedCall(c) ==
  LET begun == <<On("started", c)>> \o Drained(c)
  IN  /\ stage = "tools" /\ c \in unseen
      /\ buffered' = [buffered EXCEPT ![c] = 0]
      /\ IF corrections < CorrectionRetries
         THEN /\ Emit(Append(begun, On("succeeded", c)), "asking")
              /\ corrections' = corrections + 1
              /\ saw' = FALSE /\ recoveries' = 0
              /\ pending' = {} /\ completed' = {}
         ELSE /\ Emit(begun \o <<On("failed", c), Over("run_failed")>>, "over")
              /\ completed' = completed \cup {c}
              /\ UNCHANGED <<attempt, pending>>
      /\ dropped' = dropped \cup pending
      /\ StopTools

\* _process_tool_result_event
Result(c) ==
  /\ stage = "tools" /\ unseen = {} /\ c \in running
  /\ running' = running \ {c}
  /\ pending' = pending \ {c}
  /\ completed' = completed \cup {c}
  /\ Emit(<<On("succeeded", c)>>, "tools")
  /\ UNCHANGED <<attempt, unseen, idle, queue, sent, used, buffered, dropped>>

\* The same, for a RetryPromptPart: the attempt restarts, budget or no budget.
RetryResult(c) ==
  /\ stage = "tools" /\ unseen = {} /\ c \in running
  /\ Emit(<<On("succeeded", c)>>, "asking")
  /\ corrections' = corrections + 1
  /\ dropped' = dropped \cup (pending \ {c})
  /\ Restart

\* A ToolOperationalError, when one call is pending, is that call's result,
\* and the attempt restarts.
RecoverableError(c) ==
  /\ stage = "tools" /\ unseen = {} /\ c \in running
  /\ Cardinality(pending) = 1
  /\ \E p \in pending : Emit(<<On("succeeded", p)>>, "asking")
  /\ Restart
  /\ UNCHANGED <<corrections, dropped>>

\* A tool error that is not recoverable, or not attributable to one call.
ToolError == stage = "tools" /\ unseen = {} /\ running # {} /\ Fail

\* External: the framework ends the phase; calls that never ran stay pending.
EndTools ==
  /\ stage = "tools" /\ unseen = {} /\ running = {}
  /\ stage' = "asking"
  /\ idle' = {}
  /\ UNCHANGED <<attempt, unseen, running, queue, sent, used, tables, stream, dropped>>

-----------------------------------------------------------------------------
\* Slip: only run.py's own table is consulted.
CancelByTable ==
  /\ stage # "over"
  /\ StopTools
  /\ Emit(Append(FailAll(pending), Over("run_failed")), "over")
  /\ UNCHANGED <<attempt, tables, dropped>>

\* The run task is cancelled: session.py fails what its own table holds.
Cancel ==
  /\ stage # "over"
  /\ StopTools
  /\ Emit(Append(FailAll(open), Over("run_failed")), "over")
  /\ UNCHANGED <<attempt, tables, dropped>>

Next ==
  \/ \E calls \in SUBSET Call : AnswerCalls(calls)
  \/ AnswerText \/ Recover \/ AskError \/ Compact
  \/ \E c \in Call : \/ BeginTool(c) \/ SendUpdate(c)
                     \/ StartCall(c) \/ MalformedCall(c)
                     \/ Result(c) \/ RetryResult(c) \/ RecoverableError(c)
  \/ TakeUpdate \/ ToolError \/ EndTools
  \/ Cancel

Spec == Init /\ [][Next]_vars

-----------------------------------------------------------------------------
(* Properties.                                                             *)

\* The values the state of the stream takes; recoveries respect their budget.
TypeOK ==
  /\ stage \in {"asking", "tools", "over"}
  /\ saw \in BOOLEAN /\ corrections \in Nat /\ recoveries \in 0 .. RecoveryRetries
  /\ unseen \subseteq Call /\ idle \subseteq Call /\ running \subseteq Call
  /\ used \subseteq Call /\ queue \in Seq(Call)
  /\ sent \in [Call -> 0 .. MaxUpdates]
  /\ pending \subseteq Call /\ completed \subseteq Call
  /\ buffered \in [Call -> 0 .. MaxUpdates]
  /\ open \subseteq Call /\ dropped \subseteq Call
  /\ log \in Seq(Event) /\ tail \in Seq(Event)
  /\ filed \in {"open", "complete", "incomplete"}

\* What the client sees is a well-formed run however it ends: each started call
\* is resolved exactly once, updates fall between, and there is exactly one
\* terminal event, the last one (the rules of Sound).
ShownSound ==
  /\ Sound(Shown)
  /\ stage = "over" => Closed(Shown)

\* What the appender accepted as a complete run obeys the contract that
\* load_session checks; and the file is loadable after the run, unless a
\* correction (or the end of the correction budget) forgot the other calls of
\* the same response, or an early update outlived the call it was buffered for:
\* no other interleaving of results, updates, errors, recoveries and
\* cancellation leaves an incomplete run.
FileSound ==
  /\ filed = "complete" => Sound(log) /\ Closed(log)
  /\ filed = "incomplete" => dropped # {} \/ \E c \in Call : buffered[c] > 0

\* Cancellation always leaves a complete run, even when calls were forgotten
\* before (docs/contracts.md: cancellation persists tool_call_failed for each
\* pending call, then run_failed).
CancelKeepsFile == [][Cancel => filed' = "complete"]_vars

-----------------------------------------------------------------------------
(* What the documentation says and the code does not do.                   *)

\* docs/contracts.md: persisted events satisfy the streamed run contract,
\* including exactly one terminal outcome.
PersistedRunCloses == stage = "over" => Closed(log)
=============================================================================
