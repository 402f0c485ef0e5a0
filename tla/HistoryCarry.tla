---------------------------- MODULE HistoryCarry ----------------------------
(***************************************************************************)
(* The messages of one run in runtime/run.py: what each model request      *)
(* holds, what a restarted attempt takes over from the one before, what    *)
(* in-run compaction leaves, and what session.py stores at the end.        *)
(*                                                                         *)
(* The framework is external: it appends a request to the captured         *)
(* messages when it sends it, a response when it is complete, and makes    *)
(* the tool returns part of the next request.                              *)
(***************************************************************************)
EXTENDS Messages

CONSTANTS
  Call,               \* ids of tool calls, never reused
  Bases,              \* message histories a run can start with
  Context,            \* build_prompt_context_layers(...).before_history_messages
  Steers,             \* texts the user can steer with
  CorrectionRetries,  \* CANONICAL_AGENT_TOOL_CORRECTION_RETRIES
  RecoveryRetries,    \* CANONICAL_RUN_RECOVERY_RETRY_LIMIT
  MaxCompactions,     \* bound: successful in-run compactions
  CompactFailures     \* bound on failed ones, at most MAX_IN_RUN_COMPACT_FAILURES

Task == "task"        \* the prompt of the run
Fix  == "fix"         \* a correction prompt
GoOn == "go on"       \* IN_RUN_COMPACTION_CONTINUATION_PROMPT
Blank == ""           \* the prompt after a recovered tool error

CarryAssumption ==
  /\ CorrectionRetries \in Nat /\ RecoveryRetries \in Nat
  /\ MaxCompactions \in Nat /\ CompactFailures \in Nat
  /\ Steers \cap {Task, Fix, GoOn, Blank} = {}

VARIABLES
  base,         \* message_history the run was given
  stage,        \* "request", "model", "tools" or "over"
  history,      \* current_message_history
  prompt,       \* current_prompt
  carried,      \* carried_messages
  captured,     \* captured_messages[attempt_history_count:]
  next,         \* parts of the request about to be sent
  open,         \* calls of the last response
  streamed,     \* saw_streamed_event
  corrections,  \* correction_attempts
  recoveries,   \* recovery_attempts
  failures,     \* in_run_compact_failures
  compactions,  \* compactions that succeeded, counted for the bound
  synthetic,    \* synthetic_prompt_counts
  sent,         \* the messages of the last model request
  stored,       \* session_messages, written at the end
  ended,        \* how the run ended: "", "succeeded", "failed", "cancelled"
  said,         \* history: what the user said and was told is submitted
  given,        \* history: parts of this run the model was sent
  cut,          \* history: a restart took its slice at the wrong place
  skipped       \* history: a compaction passed over a request not captured yet

carry  == <<history, prompt, carried, synthetic>>
counts == <<corrections, failures, compactions>>
ghosts == <<said, given, cut, skipped>>
vars == <<base, stage, carry, captured, next, open, streamed, counts, recoveries, sent,
          stored, ended, ghosts>>

Init ==
  /\ base \in Bases
  /\ stage = "request"
  /\ history = base /\ prompt = Task /\ carried = <<>> /\ captured = <<>>
  /\ synthetic = [text \in {Fix, GoOn} |-> 0]
  /\ next = {User(Task)} /\ open = {}
  /\ streamed = FALSE
  /\ corrections = 0 /\ recoveries = 0 /\ failures = 0 /\ compactions = 0
  /\ sent = <<>> /\ stored = <<>> /\ ended = ""
  /\ said = {Task} /\ given = {} /\ cut = FALSE /\ skipped = FALSE

-----------------------------------------------------------------------------
(* Building blocks.                                                        *)

\* A new attempt asks with the current prompt.
NewAttempt ==
  /\ stage' = "request"
  /\ captured' = <<>>
  /\ next' = {User(prompt')}
  /\ open' = {}
  /\ streamed' = FALSE
  /\ UNCHANGED <<base, sent, stored, ended>>

\* Slip: the messages of the abandoned attempt are forgotten.
CarryOnWithoutAttempt(attempt) ==
  /\ UNCHANGED <<carried, history>>
  /\ cut' = (cut \/ Len(history) # Len(carried))
  /\ UNCHANGED <<said, given, skipped>>

\* A restart keeps what the attempt did: its messages join carried_messages,
\* and the history grows by those beyond its own length.
CarryOn(attempt) ==
  /\ carried' = carried \o Sanitized(attempt)
  /\ history' = history \o SubSeq(carried', Len(history) + 1, Len(carried'))
  /\ cut' = (cut \/ Len(history) # Len(carried))
  /\ UNCHANGED <<said, given, skipped>>

\* The end of the run; a failed run is stored without unresolved calls.
End(how, messages) ==
  /\ stage' = "over" /\ ended' = how
  /\ stored' = IF how = "succeeded" THEN messages ELSE Sanitized(messages)
  /\ UNCHANGED <<base, carry, captured, next, open, streamed, counts, recoveries, sent, ghosts>>

-----------------------------------------------------------------------------
(* Model requests.                                                         *)

SendRequest ==
  /\ stage = "request"
  /\ stage' = "model"
  /\ captured' = Append(captured, Request(next))
  /\ sent' = history \o captured'
  /\ given' = given \cup PartsOf(captured')
  /\ UNCHANGED <<base, carry, next, open, streamed, counts, recoveries, stored, ended,
                 said, cut, skipped>>

\* check_in_run_compaction_needed answers yes: the messages captured so far,
\* without the request about to be sent, are truncated.
Compact(tail) ==
  LET live == history \o captured
      new  == Context \o TruncatedHistory(live, synthetic, tail)
  IN  /\ stage = "request" /\ live # <<>>
      /\ compactions < MaxCompactions /\ compactions' = compactions + 1
      /\ history' = new /\ carried' = new
      /\ synthetic' = [Reconciled(synthetic, new) EXCEPT ![GoOn] = @ + 1]
      /\ prompt' = GoOn
      /\ recoveries' = 0
      /\ skipped' = (skipped \/ Named(next, "user") \cap said # {})
      /\ NewAttempt
      /\ UNCHANGED <<corrections, failures, said, given, cut>>

\* The truncation raises: the attempt starts over from where it began.
CompactionFails ==
  /\ stage = "request" /\ history \o captured # <<>>
  /\ failures < CompactFailures /\ failures' = failures + 1
  /\ skipped' = (skipped \/ captured # <<>>)
  /\ UNCHANGED <<carry, corrections, compactions, recoveries, said, given, cut>>
  /\ NewAttempt

\* A transient failure before anything was streamed is retried.
RequestRetried ==
  /\ stage = "model" /\ ~streamed
  /\ recoveries < RecoveryRetries /\ recoveries' = recoveries + 1
  /\ UNCHANGED <<carry, counts, ghosts>>
  /\ NewAttempt

RequestFails ==
  /\ stage = "model"
  /\ End("failed", carried \o captured)

AnswerText ==
  /\ stage = "model"
  /\ End("succeeded", carried \o Append(captured, Response({Text("done")})))

\* A response with calls, and possibly with text beside them.
AnswerCalls(calls, text) ==
  /\ stage = "model"
  /\ calls # {} /\ \A c \in calls : CallOf(c) \notin given
  /\ stage' = "tools" /\ streamed' = TRUE
  /\ captured' = Append(captured, Response({CallOf(c) : c \in calls} \cup text))
  /\ given' = given \cup {CallOf(c) : c \in calls}
  /\ open' = calls
  /\ UNCHANGED <<base, carry, next, counts, recoveries, sent, stored, ended, said, cut,
                 skipped>>

-----------------------------------------------------------------------------
(* Tool phases.                                                            *)

\* Every call has its result; a steer may join the next request.
ToolsDone(steers) ==
  /\ stage = "tools"
  /\ stage' = "request"
  /\ next' = {ReturnOf(c) : c \in open} \cup {User(s) : s \in steers}
  /\ said' = said \cup steers
  /\ open' = {}
  /\ UNCHANGED <<base, carry, captured, streamed, counts, recoveries, sent, stored, ended,
                 given, cut, skipped>>

\* A malformed call, within its budget: the run restarts with a correction.
Correct ==
  /\ stage = "tools"
  /\ corrections < CorrectionRetries /\ corrections' = corrections + 1
  /\ CarryOn(captured)
  /\ prompt' = Fix
  /\ synthetic' = [synthetic EXCEPT ![Fix] = @ + 1]
  /\ recoveries' = 0
  /\ NewAttempt
  /\ UNCHANGED <<failures, compactions>>

\* A tool's operational error when every other call has its result: it becomes
\* the call's result, and the run restarts with an empty prompt.  The results of
\* the others were not captured yet; their calls go as unpaired.
RecoverToolError(c) ==
  /\ stage = "tools"
  /\ CarryOn(Append(captured, Request({ReturnOf(c)})))
  /\ prompt' = Blank
  /\ recoveries' = 0
  /\ NewAttempt
  /\ UNCHANGED <<synthetic, counts>>

ToolFails ==
  /\ stage = "tools"
  /\ End("failed", carried \o captured)

\* Cancellation publishes the captured messages; the session stores them
\* without the calls that were interrupted.
Cancel ==
  /\ stage # "over"
  /\ End("cancelled", carried \o captured)

Next ==
  \/ SendRequest
  \/ \E tail \in TailSizes(history \o captured, synthetic) : Compact(tail)
  \/ CompactionFails
  \/ RequestRetried \/ RequestFails
  \/ AnswerText
  \/ \E calls \in SUBSET Call, text \in {{}, {Text("note")}} : AnswerCalls(calls, text)
  \/ \E steers \in {{}} \cup {{s} : s \in Steers \ said} : ToolsDone(steers)
  \/ Correct
  \/ \E c \in open : RecoverToolError(c)
  \/ ToolFails
  \/ Cancel

Spec == Init /\ [][Next]_vars

-----------------------------------------------------------------------------
(* Properties.                                                             *)

\* Every budget holds, and a request always has something to ask.
TypeOK ==
  /\ base \in Bases
  /\ stage \in {"request", "model", "tools", "over"}
  /\ prompt \in {Task, Fix, GoOn, Blank}
  /\ open \subseteq Call
  /\ (stage = "tools" => open # {})
  /\ (stage = "request" => next # {})
  /\ streamed \in BOOLEAN /\ cut \in BOOLEAN /\ skipped \in BOOLEAN
  /\ corrections \in 0 .. CorrectionRetries
  /\ recoveries \in 0 .. RecoveryRetries
  /\ failures \in 0 .. CompactFailures /\ compactions \in 0 .. MaxCompactions
  /\ DOMAIN synthetic = {Fix, GoOn}
  /\ ended \in {"", "succeeded", "failed", "cancelled"} /\ (ended # "") = (stage = "over")
  /\ said \subseteq {Task} \cup Steers

\* Every model request is whole.  What the user said so far is in it: truncation
\* keeps real user prompts wherever they are, and restarts take over what the
\* abandoned attempt was told (replacement_history.py, "Anchors"; run.py, the
\* restart branches).  And it holds no call without its return or return without
\* its call, whatever restarts and truncations came before: providers refuse
\* those (strip_unpaired_tool_parts).  Two causes are excepted, and looked at on
\* their own: a slice taken at the wrong place (PromptReachesModel), and a
\* compaction that passes over a request.
RequestsWhole ==
  stage = "model" /\ ~cut =>
    /\ ~skipped => said \subseteq Named(PartsOf(sent), "user")
    /\ Unpaired(sent) = {}

\* What is stored for the run is whole.  However it ended, it holds no unresolved
\* call (docs/contracts.md:1145, :1150); and after a success without in-run
\* compaction it has everything the model was told, across all attempts, so that
\* the next run resumes from what this one knew (run.py, terminal_messages).
StoredWhole ==
  /\ ended # "" => Unpaired(stored) = {}
  /\ ended = "succeeded" /\ compactions = 0 /\ failures = 0 =>
       {p \in given : p.kind \in {"user", "return"}} \subseteq PartsOf(stored)

\* "The actual model-visible next-run substrate starts with ... then the new user
\* prompt" (docs/contracts.md:1128), and steers are announced as submitted: each
\* model request of the run has them.
PromptReachesModel ==
  stage = "model" => said \subseteq Named(PartsOf(sent), "user")

\* "Successful resumed runs must persist only new run deltas instead of replaying
\* replacement history back into trailing session_messages"
\* (docs/contracts.md:1157).
DeltasOnly ==
  ended = "succeeded" => PartsOf(stored) \cap PartsOf(base) = {}
=============================================================================
