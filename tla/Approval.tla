------------------------------ MODULE Approval ------------------------------
(***************************************************************************)
(* Approvals of one session: a tool that needs permission puts a request   *)
(* into the queue of its run and waits; the loop of runtime/run.py takes   *)
(* one request at a time, asks the client (rpc/stdio.py,                   *)
(* resolve_approval_request) and waits for approval.submit; the answer     *)
(* goes back to the tool, which remembers session grants                   *)
(* (tools/_approval_flow.py).  permission.set and run.interrupt are other  *)
(* tasks; grants are saved with every finished run and restored when the   *)
(* next one starts (runtime/session.py).                                   *)
(*                                                                         *)
(* An action (a command, or an operation on a path) needs a root outside   *)
(* the workspace, the network for its command prefix, or only the          *)
(* workspace.  Full access to the file system is left out: it turns every  *)
(* need into the last one.                                                 *)
(***************************************************************************)
EXTENDS Integers, Sequences, FiniteSets, SequencesExt

CONSTANTS
  Call,        \* ids of tool calls, never reused
  Action,      \* what calls do
  Needs,       \* what each action needs
  Root,        \* roots outside the workspace
  Network,     \* command prefixes that need the network
  NoCall,      \* no call
  MaxRuns,     \* bound: runs of the session
  MaxChanges   \* bound: permission.set requests

Workspace == "workspace"
Need == Root \cup Network \cup {Workspace}
Mode == {"always", "on_escalation", "never"}
Decision == {"denied", "once", "session"}

ASSUME ApprovalAssumption ==
  /\ NoCall \notin Call
  /\ Workspace \notin Root \cup Network /\ Root \cap Network = {}
  /\ Needs \in [Action -> Need]
  /\ MaxRuns \in Nat /\ MaxChanges \in Nat

VARIABLES
  mode,      \* approval policy of the session's live permission state
  memory,    \* SessionPermissionMemory: needs granted for the session
  saved,     \* session_permission_grants of the last finished run, if any
  phase,     \* "idle", "streaming", or "asking": the run task awaits the client
  runMode,   \* the policy the run was started with
  queue,     \* approval requests in the run's queue
  asked,     \* the call the pending approval is about
  verdict,   \* decision in the pending approval's future
  denied,    \* denied_request_fingerprints
  tool,      \* what each call does; a decision is one its future holds
  action,    \* what each call does
  asking,    \* calls whose request asks for a permission they lack
  broken,    \* the framework's stream has failed
  cancelling,\* a cancellation of the run task is not delivered yet
  runs, changes,
  told,      \* history: what the user answered about a call that waits
  refusals,  \* history: requests the user denied in this run
  granted    \* history: needs granted for the session and not taken back

run    == <<phase, runMode, queue, asked, verdict, denied, broken, cancelling>>
plans  == <<action, asking>>
calls  == <<tool, plans>>
bounds == <<runs, changes>>
vars   == <<mode, memory, saved, run, calls, bounds, told, refusals, granted>>

Init ==
  /\ mode = "on_escalation" /\ memory = {} /\ saved = {}
  /\ phase = "idle" /\ runMode = mode
  /\ queue = <<>> /\ asked = NoCall /\ verdict = "none"
  /\ denied = {} /\ broken = FALSE /\ cancelling = FALSE
  /\ tool = [c \in Call |-> "new"] /\ action \in [Call -> Action] /\ asking = {}
  /\ runs = 0 /\ changes = 0
  /\ told = [c \in Call |-> "none"] /\ refusals = {} /\ granted = {}

-----------------------------------------------------------------------------
(* Deciding.                                                               *)

Covered(n) == n \in memory \cup {Workspace}

\* derive_sandbox_execution_plan: the disposition of an action.
Disposition(n) ==
  IF runMode = "always" \/ (runMode = "on_escalation" /\ ~Covered(n)) THEN "prompt"
  ELSE IF Covered(n) THEN "allowed"
  ELSE "denied_by_policy"

\* approval_request_fingerprint: the action and the permission asked for.
Fingerprint(c) == <<action[c], c \in asking>>

\* What the client can submit, and normalize_approval_decision: a bare approval
\* grants what was requested, a root for the session, the network once.
Submitted(c) == {"denied", "approved"} \cup (IF c \in asking THEN {"once", "session"} ELSE {})

Normalized(c, decision) ==
  IF decision # "approved" THEN decision
  ELSE IF c \in asking /\ Needs[action[c]] \in Root THEN "session" ELSE "once"

Waiting == {c \in Call : tool[c] = "queued"}
Stopped == [c \in Call |-> IF tool[c] = "new" THEN "new" ELSE "over"]

-----------------------------------------------------------------------------
(* The run task.                                                           *)

\* A run restores the grants that the last finished run saved.
StartRun ==
  /\ phase = "idle" /\ runs < MaxRuns
  /\ phase' = "streaming" /\ runMode' = mode /\ runs' = runs + 1
  /\ memory' = IF saved = {} THEN memory ELSE UNION saved
  /\ denied' = {} /\ refusals' = {}
  /\ UNCHANGED <<mode, saved, queue, asked, verdict, broken, cancelling, calls, changes,
                 told, granted>>

\* Slip: a repeated request is dropped without an answer.
TakeRequestSilently ==
  /\ phase = "streaming" /\ queue # <<>>
  /\ queue' = Tail(queue)
  /\ IF Fingerprint(Head(queue)) \in denied
     THEN UNCHANGED <<phase, asked>>
     ELSE phase' = "asking" /\ asked' = Head(queue)
  /\ UNCHANGED <<mode, memory, saved, runMode, verdict, denied, broken, cancelling, calls,
                 bounds, told, refusals, granted>>

\* Slip: a repeated request goes to the end of the queue.
TakeRequestPuttingBack ==
  /\ phase = "streaming" /\ queue # <<>>
  /\ IF Fingerprint(Head(queue)) \in denied
     THEN queue' = Append(Tail(queue), Head(queue)) /\ UNCHANGED <<phase, asked>>
     ELSE queue' = Tail(queue) /\ phase' = "asking" /\ asked' = Head(queue)
  /\ UNCHANGED <<mode, memory, saved, runMode, verdict, denied, broken, cancelling, calls,
                 bounds, told, refusals, granted>>

\* A request whose fingerprint was denied before is denied without asking.
TakeRequest ==
  /\ phase = "streaming" /\ queue # <<>>
  /\ Fingerprint(Head(queue)) \in denied => tool[Head(queue)] = "queued"
  /\ queue' = Tail(queue)
  /\ IF Fingerprint(Head(queue)) \in denied
     THEN tool' = [tool EXCEPT ![Head(queue)] = "denied"] /\ UNCHANGED <<phase, asked>>
     ELSE phase' = "asking" /\ asked' = Head(queue) /\ UNCHANGED tool
  /\ UNCHANGED <<mode, memory, saved, runMode, verdict, denied, broken, cancelling, plans,
                 bounds, told, refusals, granted>>

\* The client's decision goes to the tool that asked.
Resolve ==
  /\ phase = "asking" /\ verdict # "none" /\ ~cancelling /\ tool[asked] = "queued"
  /\ phase' = "streaming" /\ asked' = NoCall /\ verdict' = "none"
  /\ denied' = IF verdict = "denied" THEN denied \cup {Fingerprint(asked)} ELSE denied
  /\ tool' = [tool EXCEPT ![asked] = verdict]
  /\ UNCHANGED <<mode, memory, saved, runMode, queue, broken, cancelling, plans, bounds,
                 told, refusals, granted>>

\* Slip: a new attempt forgets what was denied.
RestartForgiving ==
  /\ phase = "streaming" /\ ~broken /\ Stopped # tool
  /\ tool' = Stopped /\ queue' = <<>> /\ denied' = {}
  /\ UNCHANGED <<mode, memory, saved, phase, runMode, asked, verdict, broken, cancelling,
                 plans, bounds, told, refusals, granted>>

\* A correction or an in-run compaction: the tools of the attempt are stopped,
\* its queue is replaced, what was denied is kept.
Restart ==
  /\ phase = "streaming" /\ ~broken /\ Stopped # tool
  /\ tool' = Stopped /\ queue' = <<>>
  /\ UNCHANGED <<mode, memory, saved, phase, runMode, asked, verdict, denied, broken,
                 cancelling, plans, bounds, told, refusals, granted>>

\* The end of a run; finalize saves the session's grants.
EndRun ==
  /\ phase' = "idle" /\ tool' = Stopped
  /\ queue' = <<>> /\ asked' = NoCall /\ verdict' = "none"
  /\ broken' = FALSE /\ cancelling' = FALSE
  /\ saved' = {memory}
  /\ UNCHANGED <<mode, memory, runMode, denied, plans, bounds, told, refusals, granted>>

Succeed ==
  /\ phase = "streaming" /\ ~broken
  /\ \A c \in Call : tool[c] \in {"new", "over"}
  /\ EndRun

\* The failed stream ends the run.  So does an answer to a tool that is gone:
\* set_result on its cancelled future raises.
Fail ==
  /\ \/ phase = "streaming" /\ broken
     \/ phase = "asking" /\ verdict # "none" /\ ~cancelling /\ tool[asked] # "queued"
  /\ EndRun

\* Slip: a cancelled run does not save its grants.
CancelForgetting ==
  /\ cancelling
  /\ phase' = "idle" /\ tool' = Stopped
  /\ queue' = <<>> /\ asked' = NoCall /\ verdict' = "none"
  /\ broken' = FALSE /\ cancelling' = FALSE
  /\ saved' = IF saved = {} THEN {{}} ELSE saved
  /\ UNCHANGED <<mode, memory, runMode, denied, plans, bounds, told, refusals, granted>>

\* The cancellation is delivered where the run task waits; a decision submitted
\* just before it is lost.
Cancel == cancelling /\ EndRun

-----------------------------------------------------------------------------
(* The tools, each a task of its own.                                      *)

BeginTool(c) ==
  /\ phase # "idle" /\ ~broken
  /\ tool[c] = "new"
  /\ LET n == Needs[action[c]]
     IN  \/ /\ Disposition(n) = "prompt"
            /\ tool' = [tool EXCEPT ![c] = "queued"] /\ queue' = Append(queue, c)
            /\ asking' = IF Covered(n) THEN asking ELSE asking \cup {c}
         \/ /\ Disposition(n) = "allowed"
            /\ tool' = [tool EXCEPT ![c] = "running"] /\ UNCHANGED <<queue, asking>>
         \/ /\ Disposition(n) = "denied_by_policy"
            /\ tool' = [tool EXCEPT ![c] = "over"] /\ UNCHANGED <<queue, asking>>
  /\ UNCHANGED <<mode, memory, saved, phase, runMode, asked, verdict, denied, broken,
                 cancelling, action, bounds, told, refusals, granted>>

\* resolve_tool_approval goes on: a denial is the tool's result, a session grant
\* is remembered.
Resume(c) ==
  LET grants == IF tool[c] = "session" THEN {Needs[action[c]]} ELSE {}
  IN  /\ tool[c] \in Decision
      /\ tool' = [tool EXCEPT ![c] = IF @ = "denied" THEN "over" ELSE "running"]
      /\ memory' = memory \cup grants /\ granted' = granted \cup grants
      /\ told' = [told EXCEPT ![c] = "none"]
      /\ UNCHANGED <<mode, saved, run, plans, bounds, refusals>>

EndTool(c) ==
  /\ tool[c] = "running"
  /\ tool' = [tool EXCEPT ![c] = "over"]
  /\ UNCHANGED <<mode, memory, saved, run, plans, bounds, told, refusals, granted>>

\* An error that is not a tool's result: the framework cancels the other calls.
BreakTool(c) ==
  /\ tool[c] = "running"
  /\ tool' = Stopped /\ broken' = TRUE
  /\ UNCHANGED <<mode, memory, saved, phase, runMode, queue, asked, verdict, denied,
                 cancelling, plans, bounds, told, refusals, granted>>

-----------------------------------------------------------------------------
(* Requests of the client.                                                 *)

\* approval.submit: refused when the approval is unknown or already resolved, as
\* it is once the run task was cancelled.
Submit(decision) ==
  /\ phase = "asking" /\ verdict = "none" /\ ~cancelling
  /\ decision \in Submitted(asked)
  /\ verdict' = Normalized(asked, decision)
  /\ told' = [told EXCEPT ![asked] = verdict']
  /\ refusals' = IF verdict' = "denied" THEN refusals \cup {Fingerprint(asked)} ELSE refusals
  /\ UNCHANGED <<mode, memory, saved, phase, runMode, queue, asked, denied, broken,
                 cancelling, calls, bounds, granted>>

\* permission.set takes back the grants; the run in progress keeps its policy.
PermissionSet(m) ==
  /\ changes < MaxChanges /\ changes' = changes + 1
  /\ mode' = m /\ memory' = {} /\ granted' = {}
  /\ UNCHANGED <<saved, run, calls, runs, told, refusals>>

Interrupt ==
  /\ phase # "idle" /\ ~cancelling /\ cancelling' = TRUE
  /\ UNCHANGED <<mode, memory, saved, phase, runMode, queue, asked, verdict, denied,
                 broken, calls, bounds, told, refusals, granted>>

\* The backend is started again between two runs.
RestartBackend ==
  /\ phase = "idle" /\ runs > 0
  /\ mode' = "on_escalation" /\ memory' = {}
  /\ UNCHANGED <<saved, run, calls, bounds, told, refusals, granted>>

RunTask == StartRun \/ TakeRequest \/ Resolve \/ Restart \/ Succeed \/ Fail \/ Cancel
Tool(c) == BeginTool(c) \/ Resume(c) \/ EndTool(c) \/ BreakTool(c)
Client ==
  \/ \E decision \in {"denied", "approved", "once", "session"} : Submit(decision)
  \/ \E m \in Mode : PermissionSet(m)
  \/ Interrupt \/ RestartBackend

Next == RunTask \/ (\E c \in Call : Tool(c)) \/ Client

Spec == Init /\ [][Next]_vars

\* The event loop resumes the run task and the tools, and the user answers.
Fairness ==
  /\ WF_vars(TakeRequest) /\ WF_vars(Resolve) /\ WF_vars(Fail) /\ WF_vars(Cancel)
  /\ WF_vars(\E decision \in {"denied", "approved"} : Submit(decision))

FairSpec == Spec /\ Fairness

-----------------------------------------------------------------------------
(* Properties.                                                             *)

TypeOK ==
  /\ mode \in Mode /\ runMode \in Mode
  /\ memory \subseteq Root \cup Network
  /\ saved \subseteq SUBSET (Root \cup Network) /\ Cardinality(saved) <= 1
  /\ phase \in {"idle", "streaming", "asking"}
  /\ queue \in Seq(Call) /\ asked \in Call \cup {NoCall}
  /\ verdict \in {"none"} \cup Decision
  /\ denied \subseteq Action \X BOOLEAN /\ broken \in BOOLEAN /\ cancelling \in BOOLEAN
  /\ tool \in [Call -> {"new", "queued", "running", "over"} \cup Decision]
  /\ action \in [Call -> Action] /\ asking \subseteq Call
  /\ runs \in 0 .. MaxRuns /\ changes \in 0 .. MaxChanges
  /\ (phase = "asking") = (asked # NoCall)
  /\ phase # "asking" => verdict = "none"

\* A tool that waits for an answer is in the queue or asked about, once: whatever
\* is restarted, cancelled or denied meanwhile, none waits for an answer that
\* cannot come, and after the run none waits at all (run.py, the update queue;
\* rpc/stdio.py:514-533).
NobodyWaitsInVain ==
  LET line == IF asked = NoCall THEN queue ELSE <<asked>> \o queue
  IN  /\ IsInjective(line)
      /\ Waiting \subseteq {line[i] : i \in DOMAIN line}
      /\ phase = "idle" => Waiting = {} /\ queue = <<>>

\* "exact repeated denied approval requests within the same run should be denied
\* again without re-prompting the user" (docs/contracts.md:545): also for calls
\* that were queued before the denial, and across restarts.
NoRepeatedPrompt ==
  [][phase # "asking" /\ phase' = "asking" => Fingerprint(asked') \notin refusals]_vars

\* A call that starts was covered when it was planned, under a policy that does
\* not ask always, or the user approved this very call.
RunsOnlyIfAllowed ==
  [][\A c \in Call : tool[c] # "running" /\ tool'[c] = "running" =>
       \/ tool[c] = "new" /\ runMode # "always" /\ Covered(Needs[action[c]])
       \/ told[c] \in {"once", "session"}]_vars

\* What the user decided holds: what was denied is not asked again in the run,
\* and nothing runs that was not allowed.
DecisionsHold == NoRepeatedPrompt /\ RunsOnlyIfAllowed

\* "once approved, those writable roots are remembered for the rest of the
\* session", and "durably restored on later resumed runs"
\* (docs/permission-execution.md:283-286): while a run is in progress, what the
\* user granted in it or before it is in force, however the earlier runs ended
\* and though the backend was started again, until permission.set.
GrantsKept == phase # "idle" => granted \subseteq memory

\* docs/contracts.md:377-379: a bare approval is normalized to the first approved
\* option, which "keeps `Allow once` as the canonical conservative default for
\* lean approve flows".  Refuted: normalize_approval_decision gives the requested
\* grant, and that of a root is for the session.
LeanApprovalIsOnce == [][Submit("approved") => verdict' = "once"]_vars

\* A user who answers never leaves a tool waiting for ever.
WaitingEnds == \A c \in Call : tool[c] = "queued" ~> tool[c] # "queued"
=============================================================================
