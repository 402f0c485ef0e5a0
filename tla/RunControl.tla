----------------------------- MODULE RunControl -----------------------------
(***************************************************************************)
(* One session under the RPC server: the task that serves run.start, and   *)
(* the run.enqueue and run.interrupt requests that other tasks serve while *)
(* it is suspended.  All tasks share one event loop, so a step of the      *)
(* model is what one task does between two suspension points:              *)
(*   - the queue operations of rpc/state.py never suspend (the lock is     *)
(*     free whenever it is taken, the emitters only append to a buffer);   *)
(*   - the run task suspends only inside stream_session_run_events, so     *)
(*     the work between two streamed runs is one step.                     *)
(* The queues of different sessions are disjoint, and the server's session *)
(* lock admits one run.start at a time: one session is modelled.           *)
(***************************************************************************)
EXTENDS PromptQueue

(***************************************************************************)
(* Where the run task is suspended.                                        *)
(*   idle      no run.start is being served                                *)
(*   request   preparing the next model request of the streamed run        *)
(*   model     the model is answering                                      *)
(*   tools     tool calls are running, the steer boundary is open          *)
(*   submitted all of them have a result; waiting steers were attached     *)
(*   cleanup   the helper task of the tool phase is being torn down; the   *)
(*             suffix says what follows: the next request, a restarted     *)
(*             attempt (correction or tool error), or the end of the run   *)
(*   unwind    the streamed run is over; its session is being finalized    *)
(***************************************************************************)
Cleanup == {"cleanupNext", "cleanupRestart", "cleanupStop"}
ToolPhase == {"tools", "submitted"} \cup Cleanup
Phase == {"idle", "request", "model", "unwind"} \cup ToolPhase

VARIABLES
  phase,
  active,       \* the session is in _active_sessions, with task and emitters
  boundary,     \* _active_steer_targets holds this session
  cancelling,   \* cancel() was called on the run task, not delivered yet
  steers,       \* _steer_queues of this session
  followUps,    \* _follow_up_queues of this session
  view,         \* the last queue state sent to the client
  attached      \* queued prompts the next model request should carry

\* History variables: they record, and no action reads them.
VARIABLES
  accepted,     \* [mode, prompt] of every accepted run.enqueue, in order
  submitted,    \* the batches announced as submitted, in order
  reached,      \* prompts some model request carried
  interrupted,  \* an interrupt of the current streamed run was accepted
  outcome       \* how the last run.start ended: "none", "response", "error"

queues  == <<steers, followUps, view>>
history == <<accepted, submitted, reached, interrupted, outcome>>
vars == <<phase, active, boundary, cancelling, queues, attached, history>>

AcceptedPrompts  == {accepted[i].prompt : i \in DOMAIN accepted}
SubmittedPrompts == PromptsOf(submitted)

Init ==
  /\ phase = "idle"
  /\ active = FALSE /\ boundary = FALSE /\ cancelling = FALSE
  /\ steers = <<>> /\ followUps = <<>>
  /\ view = EmptyQueueState
  /\ attached = <<>>
  /\ accepted = <<>> /\ submitted = <<>> /\ reached = {}
  /\ interrupted = FALSE
  /\ outcome = "none"

\* Every queue operation compares the queue state before and after, and
\* emits the new one when it differs.
EmitIfChanged ==
  LET before == QueueState(steers, followUps)
      after  == QueueState(steers', followUps')
  IN  view' = IF before = after THEN view ELSE after

-----------------------------------------------------------------------------
(* Requests served by other tasks.                                         *)

\* run.enqueue, mode "next" or "later".  Without an active run it is refused
\* and changes nothing.
Enqueue(prompt, mode) ==
  /\ active
  /\ prompt \notin AcceptedPrompts
  /\ IF mode = "next"
     THEN steers' = Append(steers, prompt) /\ UNCHANGED followUps
     ELSE followUps' = AppendLater(followUps, prompt) /\ UNCHANGED steers
  /\ EmitIfChanged
  /\ accepted' = Append(accepted, [mode |-> mode, prompt |-> prompt])
  /\ UNCHANGED <<phase, active, boundary, cancelling, attached, submitted,
                 reached, interrupted, outcome>>

\* Slip: the promoted steers are not removed from the steer queue.
InterruptKeepingSteers(promote) ==
  /\ active
  /\ steers' = steers
  /\ followUps' = IF promote THEN Prepend(followUps, steers) ELSE followUps
  /\ EmitIfChanged
  /\ cancelling' = TRUE
  /\ interrupted' = TRUE
  /\ UNCHANGED <<phase, active, boundary, attached, accepted, submitted,
                 reached, outcome>>

\* run.interrupt, with or without promotion of the waiting steers.
Interrupt(promote) ==
  /\ active
  /\ IF promote
     THEN steers' = <<>> /\ followUps' = Prepend(followUps, steers)
     ELSE UNCHANGED <<steers, followUps>>
  /\ EmitIfChanged
  /\ cancelling' = TRUE
  /\ interrupted' = TRUE
  /\ UNCHANGED <<phase, active, boundary, attached, accepted, submitted,
                 reached, outcome>>

-----------------------------------------------------------------------------
(* The run task.  A pending cancel() is raised at its suspension point, so  *)
(* only CancelDelivered and the cleanup can follow it.                      *)

Moves(from, to) == phase = from /\ ~cancelling /\ phase' = to

\* run.start: activate; prompts an earlier run.start left behind are shown.
RunStart ==
  /\ Moves("idle", "request")
  /\ active' = TRUE
  /\ LET event == QueueState(steers, followUps)
     IN  view' = IF event = EmptyQueueState THEN view ELSE event
  /\ interrupted' = FALSE
  /\ outcome' = "none"
  /\ UNCHANGED <<boundary, cancelling, steers, followUps, attached, accepted,
                 submitted, reached>>

SendRequest ==
  /\ Moves("request", "model")
  /\ attached' = <<>>
  /\ reached' = reached \cup ToSet(attached)
  /\ UNCHANGED <<active, boundary, cancelling, queues, accepted, submitted,
                 interrupted, outcome>>

\* In-run compaction replaces the pending request by a continuation prompt
\* over the truncated history, which does not hold that request yet.
CompactInRun ==
  /\ Moves("request", "request")
  /\ attached' = <<>>
  /\ UNCHANGED <<active, boundary, cancelling, queues, history>>

\* The answer has tool calls: the boundary opens (activate_steer_boundary).
BeginTools ==
  /\ Moves("model", "tools")
  /\ ~boundary
  /\ boundary' = TRUE
  /\ UNCHANGED <<active, cancelling, queues, attached, history>>

\* submit_active_steer_boundary: the waiting steers are attached to the tool
\* node and announced.
SubmitSteers ==
  /\ boundary
  /\ attached' = steers
  /\ steers' = <<>>
  /\ UNCHANGED followUps
  /\ EmitIfChanged
  /\ submitted' = IF steers = <<>> THEN submitted
                  ELSE Append(submitted, [kind |-> "next", prompts |-> steers])
  /\ UNCHANGED <<active, boundary, cancelling, accepted, reached, interrupted,
                 outcome>>

\* The last pending call got its result ...
ToolsDone == Moves("tools", "submitted") /\ SubmitSteers

\* ... or a retry result, which submits too and then restarts the attempt.
ToolsDoneWithRetry == Moves("tools", "cleanupRestart") /\ SubmitSteers

\* The tool phase ends: normally after the results; before them by a
\* malformed call or a recoverable tool error (restart), or by an error that
\* fails the run (stop).
EndTools ==
  /\ \/ Moves("submitted", "cleanupNext")
     \/ Moves("tools", "cleanupRestart")
     \/ \E p \in {"tools", "submitted"} : Moves(p, "cleanupStop")
  /\ UNCHANGED <<active, boundary, cancelling, queues, attached, history>>

\* The helper task is awaited with CancelledError suppressed, so a cancel()
\* that arrives during the teardown is consumed here; then the boundary
\* closes.  A restarted attempt starts from a new prompt: what was attached
\* to the abandoned node is gone.
CleanupDone ==
  /\ phase \in Cleanup
  /\ phase' = IF phase = "cleanupStop" THEN "unwind" ELSE "request"
  /\ cancelling' = FALSE
  /\ boundary' = FALSE
  /\ attached' = IF phase = "cleanupNext" THEN attached ELSE <<>>
  /\ UNCHANGED <<active, queues, history>>

\* Slip: the cancellation is not consumed, and strikes again.
CancelDeliveredForEver ==
  /\ cancelling
  /\ phase \notin Cleanup \cup {"idle"}
  /\ phase' = IF phase \in {"tools", "submitted"} THEN "cleanupStop" ELSE "unwind"
  /\ attached' = <<>>
  /\ UNCHANGED <<active, boundary, cancelling, queues, history>>

\* CancelledError at the suspension point.  In a tool phase it passes through
\* the teardown first; the run's unsent prompts go with the run.
CancelDelivered ==
  /\ cancelling
  /\ phase \notin Cleanup \cup {"idle"}
  /\ cancelling' = FALSE
  /\ phase' = IF phase \in {"tools", "submitted"} THEN "cleanupStop" ELSE "unwind"
  /\ attached' = <<>>
  /\ UNCHANGED <<active, boundary, queues, history>>

\* The model's final answer, or a failure that becomes run_failed.
EndTurn ==
  /\ Moves("model", "unwind")
  /\ UNCHANGED <<active, boundary, cancelling, queues, attached, history>>

\* The streamed run is over: downgrade what still waits, then take the first
\* batch.  Its prompts, combined, are the prompt of the next streamed run.
TakeBatch ==
  LET waiting == Prepend(followUps, steers)
  IN  /\ Moves("unwind", "request")
      /\ waiting # <<>>
      /\ steers' = <<>>
      /\ followUps' = Tail(waiting)
      /\ EmitIfChanged
      /\ attached' = Head(waiting).prompts
      /\ submitted' = Append(submitted, [kind |-> "later",
                                         prompts |-> Head(waiting).prompts])
      /\ interrupted' = FALSE
      /\ UNCHANGED <<active, boundary, cancelling, accepted, reached, outcome>>

\* Slip: the client keeps its last preview.
DeactivateSilently ==
  /\ active' = FALSE /\ boundary' = FALSE
  /\ UNCHANGED <<cancelling, steers, followUps, view, accepted, submitted,
                 reached, interrupted>>

\* deactivate: the client is shown an empty queue if it was not empty, and
\* the queues themselves stay.
Deactivate ==
  /\ active' = FALSE /\ boundary' = FALSE
  /\ view' = IF QueueState(steers, followUps) = EmptyQueueState
             THEN view ELSE EmptyQueueState
  /\ UNCHANGED <<cancelling, steers, followUps, accepted, submitted, reached,
                 interrupted>>

\* Slip: waiting steers are not downgraded before the queue is tested.
RespondWithoutDowngrade ==
  /\ Moves("unwind", "idle")
  /\ followUps = <<>>
  /\ Deactivate
  /\ outcome' = "response"
  /\ UNCHANGED attached

\* No batch is left: run.start is answered.
Respond ==
  /\ Moves("unwind", "idle")
  /\ Prepend(followUps, steers) = <<>>
  /\ Deactivate
  /\ outcome' = "response"
  /\ UNCHANGED attached

\* The session cannot be read or written, or the provider is not ready:
\* run.start ends with rpc_error.  The queues are not drained.
ErrorReturn ==
  /\ \E p \in {"request", "model", "tools", "submitted", "unwind"} :
       Moves(p, "idle")
  /\ Deactivate
  /\ attached' = <<>>
  /\ outcome' = "error"

RunTask ==
  \/ SendRequest \/ CompactInRun \/ BeginTools
  \/ ToolsDone \/ ToolsDoneWithRetry \/ EndTools
  \/ CleanupDone \/ CancelDelivered
  \/ EndTurn \/ TakeBatch \/ Respond \/ ErrorReturn

Next ==
  \/ RunStart
  \/ \E prompt \in Prompt, mode \in Kind : Enqueue(prompt, mode)
  \/ \E promote \in BOOLEAN : Interrupt(promote)
  \/ RunTask

Spec == Init /\ [][Next]_vars

(***************************************************************************)
(* Users owe nothing.  The event loop resumes the run task, requests are   *)
(* eventually sent, a model that keeps answering eventually gives a final   *)
(* answer, and finalizing a run suspends finitely often, so interrupts      *)
(* cannot hold it up for ever.                                             *)
(***************************************************************************)
FairSpec ==
  /\ Spec
  /\ WF_vars(RunTask)
  /\ SF_vars(SendRequest)
  /\ SF_vars(EndTurn)
  /\ SF_vars(TakeBatch \/ Respond)

-----------------------------------------------------------------------------
(* Properties.                                                             *)

\* The values each variable of the session's control state takes.
TypeOK ==
  /\ phase \in Phase
  /\ active \in BOOLEAN /\ boundary \in BOOLEAN /\ cancelling \in BOOLEAN
  /\ steers \in Seq(Prompt) /\ followUps \in Seq(Batch)
  /\ DOMAIN view = {"next_prompts", "later_prompts"}
  /\ attached \in Seq(Prompt)
  /\ accepted \in Seq([mode : Kind, prompt : Prompt])
  /\ submitted \in Seq(Batch)
  /\ reached \in SUBSET Prompt
  /\ interrupted \in BOOLEAN
  /\ outcome \in {"none", "response", "error"}

\* No prompt is in two of the batches.
Disjoint(batches) ==
  \A i, j \in DOMAIN batches :
    i # j => ToSet(batches[i].prompts) \cap ToSet(batches[j].prompts) = {}

\* Every accepted prompt is in exactly one of three places, across any
\* interleaving of enqueue, promotion, boundary submission, downgrade and
\* error return: waiting as a steer, waiting in a follow-up batch, or
\* submitted (rpc/state.py moves prompts between them by drain and prepend).
Conservation ==
  /\ AcceptedPrompts = ToSet(steers) \cup PromptsOf(followUps) \cup SubmittedPrompts
  /\ ToSet(steers) \cap PromptsOf(followUps) = {}
  /\ (ToSet(steers) \cup PromptsOf(followUps)) \cap SubmittedPrompts = {}
  /\ Disjoint(followUps)
  /\ Disjoint(submitted)

\* No batch is empty, and only the last one may hold "later" prompts.
Shaped(batches) ==
  \A i \in DOMAIN batches :
    /\ batches[i].prompts # <<>>
    /\ IsLater(batches[i]) => i = Len(batches)

\* Follow-up batches keep the shape the draining order relies on: promoted or
\* downgraded batches first, then at most one batch of "later" prompts, and no
\* batch is empty (_prepend_follow_ups_locked, _append_follow_up_locked).
QueueShape == Shaped(followUps)

\* The steer boundary is registered exactly while the tools of a streamed run
\* are running: the two RuntimeErrors "Steer boundary already active" and
\* "not active" of rpc/state.py cannot happen, whatever interrupts, restarts
\* and error returns came before.
BoundaryDiscipline ==
  /\ boundary <=> phase \in ToolPhase
  /\ active <=> phase # "idle"
  /\ cancelling => active

\* What the client was last told is the queue state of the active run, and
\* nothing once it is over: no queue operation forgets to emit, and none
\* leaves a stale preview behind.
ViewFaithful ==
  view = IF active THEN QueueState(steers, followUps) ELSE EmptyQueueState

\* When run.start is answered with a response nothing accepted during it is
\* left behind.  (An error return gives no such guarantee.)
DrainedOnResponse ==
  outcome = "response" => steers = <<>> /\ followUps = <<>>

\* The queues and what stands around them agree: a batch is drained in the
\* order its kind promises, the boundary is open when steers may be attached,
\* the client's preview is the queue, and a response leaves nothing waiting.
\* A step that keeps one of the four and breaks another is the usual slip of
\* rpc/state.py, whose operations each touch several of them.
QueueDiscipline ==
  QueueShape /\ BoundaryDiscipline /\ ViewFaithful /\ DrainedOnResponse

\* The prompts of the "next" batches, and those of the one "later" batch, which
\* can only be the last (QueueShape).
NextPrompts(batches) ==
  {p \in Prompt : \E i \in DOMAIN batches : IsNext(batches[i]) /\ p \in ToSet(batches[i].prompts)}
LaterPrompts(batches) ==
  LET n == Len(batches) IN IF n > 0 /\ IsLater(batches[n]) THEN batches[n].prompts ELSE <<>>

\* A session's queue implements the inbox its users may rely on: delivery at
\* most once, "later" prompts in order of acceptance, and no "later" prompt
\* delivered while a "next" prompt waits.
Inbox == INSTANCE PromptInbox WITH
  nextWaiting  <- ToSet(steers) \cup NextPrompts(followUps),
  laterWaiting <- LaterPrompts(followUps),
  delivered    <- [i \in DOMAIN submitted |-> submitted[i].prompts]
ImplementsInbox == Inbox!Spec

\* An accepted prompt is submitted in the end, however often the run is
\* interrupted, unless run.start ended with an error.
AcceptedIsSubmitted ==
  \A p \in Prompt :
    (p \in AcceptedPrompts) ~> (p \in SubmittedPrompts \/ outcome = "error")

\* run.start comes to an end: the drain loop of _handle_run_start cannot run
\* for ever on finitely many prompts.
RunStartReturns == active ~> ~active

-----------------------------------------------------------------------------
(* What the documentation says and the code does not do.                   *)

\* docs/contracts.md: FIFO order is preserved within the promoted/downgraded
\* "next" bucket.
NextInOrder ==
  LET isNext(p) == \E i \in DOMAIN accepted : accepted[i] = [mode |-> "next", prompt |-> p]
      order     == SelectSeq([i \in DOMAIN accepted |-> accepted[i].prompt], isNext)
  IN  IsPrefix(SelectSeq(Concat(submitted), isNext), order)

\* docs/contracts.md: run.interrupt cancels the active run.  An interrupted
\* streamed run asks the model nothing more.
InterruptStopsRun ==
  [][phase = "request" /\ phase' = "model" => ~interrupted]_vars

\* docs/contracts.md: queued steers are attached once the tool phase completes,
\* before the next model round-trip in the same run, and are announced as
\* actually submitted.  In-run compaction comes between the two.
SteersSurviveCompaction ==
  [][phase = "request" /\ phase' = "request"
       => ToSet(attached) \subseteq ToSet(attached')]_vars
=============================================================================
