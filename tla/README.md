# A TLA+ model of just-another-coding-agent

This directory holds TLA+ modules that model the coding agent: the Python
backend (`src/just_another_coding_agent/`), the Go terminal client
(`internal/jaca/`) and the Go read-only worker (`cmd/jaca-read-only-worker/`);
the TLC configurations that check them on small instances; and TLAPS proofs
about them. Module comments name the function each definition translates;
`PROJECT.json` has the line numbers ("map"), the runs, the mutants, the hazards
and the findings. Paths below are relative to `src/just_another_coding_agent/`
unless they begin with another directory of the repository.

Run a check with `tlc -config X.cfg M`, a proof with `tlapm M.tla`.

## 1. The system

A terminal client starts the Python backend and talks to it in JSON lines over
stdin and stdout. The backend serves every line in an asyncio task of its own;
one event loop runs all of them. A `run.start` request streams one model run,
and after it the prompts that were queued meanwhile. Each run is appended to a
session file while it streams. Tools run in the backend or in helper processes.

| Component | State | Operations | What is hard |
|---|---|---|---|
| Prompt queues, run control (`rpc/state.py`, `rpc/stdio.py`) | steer and follow-up queues, active run, steer boundary | activate, enqueue, interrupt, boundary open/submit/close, downgrade, take, deactivate | requests of other tasks between any two suspension points; cancellation swallowed or consumed |
| Run runtime (`runtime/run.py`) | pending, completed and buffered tool calls, retry counters, message history | call, result and update events, correction, recovery, in-run compaction, failure | early and late updates, parallel calls, restarts that forget |
| Session runtime (`runtime/session.py`) | appender, its own table of pending calls, open MCP servers, failure count | auto-compact, start servers, forward, cancel, fail, finalize, close | ends at every await and yield; what was opened before the `try` |
| Session files (`session/jsonl.py`) | append-only lines and a metadata file per session | create, start run, append, finalize, compact, name, fork, load | crash between writes, power loss, a second process |
| Permissions (`tools/_permissions.py`, `_approval_flow.py`, `rpc/handlers/permissions.py`) | pending approval futures, session grants, denied fingerprints | request, submit, set | answers racing cancellation; grants restored from the file |
| RPC server (`rpc/stdio.py`) | session locks, tasks, output queue, writer | read a line, serve, write, end of input | everyone waiting for an answer that cannot come; batching |
| Login (`rpc/handlers/auth.py`, `oauth_openai_codex.py`, `oauth_store.py`) | flow table, callback server on one port, oauth.json | start, wait, complete, callback, expire | several tasks exchange a code and end one result |
| Onboarding (`onboarding.py`, `tools/onboarding_question.py`) | attempts table, question future | start, ask, submit | an answer racing an interrupt, a death, another question |
| Compaction, replacement history (`runtime/compaction/`, `session/replacement_history.py`) | failure count, block | decide, summarize, sanitize, strip, truncate | pairing rules, stale loads |
| Turn context (`runtime/turn_context.py`) | baseline entry in the session file | classify, update | a stale baseline tells the model of settings no longer in force |
| MCP (`runtime/mcp.py`, `mcp_inventory.py`) | open servers, mounted tools, enabled and approved names | start, mount, search, call, close | failures half way, names that meet, consents given to another call |
| Code mode (`runtime/code_mode/`) | cells, lock, worker process, its pipe | start, wait, nested call, time out, cancel | the worker outlives the cell, its pipe outlives both |
| Read-only worker (`tools/read_only_worker/`, `cmd/jaca-read-only-worker/`) | client, request table, process | send, route, cancel, restart | cancelled and late answers, deaths, full pipes |
| Tools (`tools/`) | files and processes | edit, read, list, tail, ... | spans of normalized text, limits and hints |
| Terminal client (`internal/jaca/`) | waiter table; event channel, queue preview, overlays; login state; transcript | call, route, restart; keys and replies; trim and render | goroutines, replies in any order, positions that move |

How they interact: the client sends requests and routes answers by id;
`run.start` iterates over the session runtime, which iterates over the run
runtime; the run runtime calls back into the queues at the steer boundary and
asks the client through the event stream; `run.enqueue` and `run.interrupt`
change the queues and cancel the `run.start` task; the session runtime writes
each event through the appender before the client sees it; compaction and naming
write the same file under the session lock; the launcher forks session files
from another process.

What makes each component correct, in one line each:

* queues: each accepted prompt is delivered once, and the client's preview tells
  the truth;
* run runtime: the stream obeys the contract of `docs/contracts.md` however the
  framework, the tools and the user behave;
* session runtime: what the client saw begin has an end, and nothing stays open;
* session files: what was finalized stays, what was written loads;
* permissions: an action runs only under a decision or a grant still in force;
* server: what was emitted is written, in order, and the server ends;
* login, onboarding: who is told "done" finds it done; one answer counts;
* turn context: the model knows the settings of this run;
* MCP: a call reaches the tool of its name, with the consent it needs;
* helper processes: a call gets its own answer or a failure with a cause;
* client: every call returns; the screen shows what happened and keeps what was
  typed.

## 2. Modules

| Module | Models | Composes |
|---|---|---|
| `PromptQueue` | values and pure queue operations of `rpc/state.py` | |
| `PromptInbox` | abstract: what the queue promises its users | |
| `RunControl` | the `run.start` task, `run.enqueue`, `run.interrupt` | `PromptQueue`; implements `PromptInbox` |
| `RunControlProofs` | proofs about `RunControl` for any set of prompts | `RunControl` |
| `EventRules` | run events, the appender's incremental rules, the contract over a whole stream | |
| `RunStream` | `runtime/run.py` and `runtime/session.py` around one run | `EventRules` |
| `Messages` | message parts; pairing repair, truncation and prompt counts of `session/replacement_history.py` | |
| `HistoryCarry` | the messages of one run: requests, restarts, in-run compaction, what is stored | `Messages` |
| `SessionFile` | session lines, `load_session`, the copy a fork makes | |
| `SessionLog` | session and metadata files, backend, launcher, faults | `SessionFile` |
| `SessionRun` | calls of the session runtime: auto-compaction, MCP start, run, end | |
| `TurnContext` | what the model is told of its settings, run after run | |
| `McpTools` | mounting, search, consent and calls of MCP tools in one run | |
| `Approval` | approval requests of one session's runs, the user's decisions, grants in memory and in the file | |
| `Login` | OAuth flows of the backend | |
| `Onboarding` | the attempts table, submit, the question of a run | |
| `RpcServer` | `serve_rpc_stdio`: tasks, locks, writer, end of input | |
| `CodeMode` | cells, the worker process, its pipe | |
| `ReadOnlyWorker` | the worker's client and process | |
| `ReadOnlyTools` | one read and one grep inside the worker | |
| `TextTools` | edit, listing and tail as operators | |
| `RpcClient` | the Go client's waiters, goroutines, restarts | |
| `Tui` | the Go client's loop: events, replies, overlays, preview | |
| `ClientLogin` | the login overlay of the Go client | |
| `Transcript` | the Go client's list of cells, trimming, render cache | |
| `MC*` | instances for TLC | |
| `ApprovalProofs` | proofs about `Approval` for any calls, runs and requests | `Approval` |
| `StoreProofs` | proofs about `SessionLog` for any sessions, runs, names and bounds | `SessionLog` |
| `SessionProofs` | proofs about the events of a run, `RunStream`, and the store's properties as the runs check them | `MCSession` |
| `TurnProofs` | proofs about `SessionRun`, `TurnContext`, `McpTools` and `Transcript` | `MCTurn` |
| `BackendProofs` | proofs about `Login`, `RpcServer` and `Onboarding` | `MCBackend` |
| `ClientProofs` | proofs about `RpcClient`, `Tui` and `ClientLogin` | `MCClient` |
| `ToolsProofs` | proofs about `CodeMode`, `ReadOnlyTools` and `ReadOnlyWorker` | `MCTools` |

`MCSession`, `MCBackend`, `MCClient`, `MCTools` and `MCTurn` each explore
several modules in one run: `part` chooses one of them in the initial state, a
behaviour moves that one and leaves the others as they began. So the states of a
run are the sum of its parts, not their product, and each property is the
property of its part. The parts of one pack share no state in the code except
through files and requests that the parts already model from their own side
(a RunStream's appender and SessionLog's lines, for example). The proofs about a
part are of the pack's specification: each invariant speaks of one part, is kept
by the steps of that part, and by the steps of the others because they leave it
alone. So the theorem names the property the run checks.

### RunControl

One session. `phase` says where the run task is suspended; a step is what one
task does between two suspension points, because the queue operations never
suspend and the loop is single-threaded. `steers`, `followUps` are the two
queues, `view` is the last `session_queue_state` sent, `attached` the queued
prompts the next model request should carry, `boundary` the registered steer
target, `cancelling` a `cancel()` not delivered yet. A cancellation that reaches
the teardown of the tool phase is consumed there (`CleanupDone`), as in the code.
`accepted`, `submitted`, `reached`, `interrupted`, `outcome` are history.
The queued prompts have distinct identities; combining the prompts of a batch
into one text is left out.

### RunStream

The agent framework is external: it announces the calls of a response one by
one, may run a tool and pass on its updates before its call is announced,
resolves announced calls in any order, raises at any point. `pending`,
`completed`, `buffered` are the tables of `run.py`; `open` is the table the
appender and `session.py` share in content; `log` is what the file holds, `tail`
what only the client saw. Text deltas are not persisted and not modelled; message
histories are in `HistoryCarry`. `dropped` is history: calls forgotten by a
restart. Tool-call ids are never reused; the duplicate-event branch of
`_process_tool_call_event` does not arise then.

### HistoryCarry

`history` is what the next attempt starts from, `carried` what the run has
besides the attempt, `captured` the attempt's own messages (the framework's
captured messages beyond the history it was given). The request about to be
sent is `next`: it joins `captured` only when it is sent, so a compaction, which
decides just before, does not see it. `Compact` takes any number of recent
messages, because the token counts that choose it are estimates. `sent` is what
the model got last. `cut` and `skipped` are history: a restart took its slice
although `carried` and `history` had different lengths; a compaction dropped a
request of the user's or the attempt it was in. The framework is assumed to keep
the given history as it is; if it merged messages, the slices of `run.py` would
be shifted further. Retry parts and failed correction tails do not arise with
the canonical agent, which has no framework retries.

### SessionLog

An operation reads and decides in one step and puts its writes into `todo`;
`Perform` carries them out one by one, so the other process sees every
intermediate state and `Die` can stop between any two. A flush of several
lines may be cut after a line, or, for a line longer than the text buffer,
before its newline (`bare`). `LosePower` keeps what was synced and any part of
the rest. `hurt` marks sessions an abandoned run, a fault or a racing fork
touched. Entries are abstracted to their type, their run and what a compaction
covers; the first non-terminal event stands for `run_started`.

### Approval

`tool` says what each call does: `"queued"` means that it waits on the future of
its request, a decision that its future holds one, `"running"` that it may act.
`queue` is the update queue of the attempt, only its approval requests;
`asked` and `verdict` are the entry of `pending_approvals` and its future. While
`phase` is `"asking"` the run task waits for the client and takes nothing from
the queue. A plan is made when a call begins (`Disposition`, `asking`) and not
again when its turn comes, as in the code: of two parallel calls both are asked
about, although the grant of the first covers the second. `memory` is the
`SessionPermissionMemory` shared by the session's runs and `permission.set`;
`saved` is the grants line of the last finalized run. `runMode` is the policy
the run was given at its start; `permission.set` does not change it. `Resolve`
with a tool that a failed sibling has cancelled raises in the code
(`runtime/run.py:1025`); that is a disjunct of `Fail`. `told`, `refusals`,
`granted` are history. `action` is chosen at the start, for the model that will
make the calls. A backend that dies during a run leaves a file that does not
load (`SessionLog`), so `RestartBackend` is between runs.

### SessionRun

A call of `stream_session_run_events` from the load to `finally`. `pc` is where
the generator is suspended; it can be cancelled where it awaits (`CancelStart`,
`CancelRun`) and dropped by its consumer where it yields (`DropStart`,
`DropRun`). `open` is the set of servers entered and not exited, `next` the
server being started, `closing` those still to close and what follows;
`failures` the count in the metadata file, `log` the compactions it counted.
`shown` is what the consumer was given. Between the start of the servers and the
`try` around the agent the history is framed, with the project documents read
from disk, and the grants are restored: what raises there ends the call as
`"unframed"` and closes nothing (`FramingFails`). The run has its id before its
entry is written; when that fails the consumer is told the end of a run it did
not see begin (`RunStartFails`). Tokens are units; the estimate decides
compaction and is a number here because the block depends on its growth.

### TurnContext

`now` are the settings, `entry` the persisted one, `prefix` and `update` what
the model reads before and after the history, `noted` whether the update says
that the MCP tools changed. Settings are told in full or by a difference; posture settings are told
together, as in `build_runtime_context_update_text`. `Believed` is what a reader
of prefix and update takes a setting to be.

### McpTools

`offered` and `admitted` are chosen at the start: what the servers list, and
what the configuration lets through. `mounted` is the result of
`_server_definition_from_config`, or its failure. `active` are the deferred
tools a search enabled; `approved` the names of mode "approve" that were
consented to; `call` and `answers` are calls in flight, two at a time.

### Login

`table` is the flow table of the process, `task` the driver of a flow
(listening, closing its server, done), `outcome` what its callback brought,
`result` the shared future, `req` wait and complete requests, `conn` the
connections of browsers to the port, `spent` the codes the provider has
accepted, `store` the flow oauth.json holds, `saved` history. `Closed` is the
end of `wait_closed`, which waits for idle connections too. A browser that hangs
up changes nothing, unless the server meets a reset, a line that is too long or
a page it cannot write: that fails the flow (`BrowserCloses`).

### Onboarding

`row` is the table; each function of `onboarding.py` is one step, since it
commits one transaction and never suspends. `queued` is the question on its way
from the tool to the run loop, `future` the one the server keeps, `reply` what
submitters were told, `taken` what the tool got. `orphans` is history: questions
whose run ended, by a death or a cancellation, before it asked them.

### RpcServer

Each line is a task (`task`), of one of three kinds; `entered` is the order in
which tasks of a session took its lock. `queue` is the output queue with its
stop mark, `writer` and `written` the writer, `emitted` history. `broken` is a
client that no longer reads. An answer to a question ends the request that
brought it; the task that asked goes on in a later turn (`Resume`).

### CodeMode

`cell` has the state of each cell, whether it has a time limit, and where its
task stands; `lock` is the runtime's; `proc` the process the runtime holds,
`kid` all processes with what each is doing, `left` messages in the pipe.
`nested` holds pairs: the cell whose source called, the cell whose task served
the call. `overflow` is the set of workers whose pipe had a line over the limit.

### ReadOnlyWorker, ReadOnlyTools

`stage` is where each call stands, `via` the client it uses, `starter` the call
that holds the runtime's lock and starts a worker, `current` the runtime's
client, `client` the clients with their table of pending requests, pipes and
fatal error, `refused` the clients that got an answer they do not accept: one for
a cancelled request, one over 16 MiB, or one that does not parse. In
`ReadOnlyTools` a file is the widths of its lines and a model follows the
offsets it is given; `rg` writes `script` to two bounded pipes while `go` reads
them as `runGrep` does.

### TextTools

No steps but the choice of inputs: `result`, `listed` and `tail` are what the
functions return for every input within the bounds. A listing's item has the
bytes the worker counts, its name and a newline; the slash that `ls` then puts
behind each directory (`tools/ls.py:65-67`) is in no count, so a listing of
directories can exceed its cap by as many bytes as it has lines.

### RpcClient

`manager` is the backend in use; `proc`, `pipe`, `waiters`, `hand` and
`terminal` belong to one backend process: what it wrote, the table, the result
the dispatcher has looked up and not yet sent, the terminal error. `chan` are
the waiter channels. A call is `"unary"`, with a deadline; `"open"`, without one
(`session.create`, `session.compact`, `session.name`); or `"stream"`, a
`run.start`, which has none either. The program has one call without a deadline
at a time: `run.start` follows `session.create` in one goroutine, and no slash
command is taken while the client is streaming (`Streaming`).

A stream's events go on to asyncCh, of which `shown` counts what is in it;
`Listen` is the screen taking one, and while the screen is behind an overlay
(`held`) it takes none. Then asyncCh fills, the sink of `StreamRun` stops
receiving, the waiter channel fills, and `dispatchLoop` waits with the next event
in its hand: from then on no call of that backend gets its answer until the
overlay is answered or the call's deadline passes. `End` is `failAllWaiters` up to
its loop: at the end of the output (`FailAll`), or when a line is too long, is
malformed or has no id, although the process may live on (`Unreadable`). The
loop takes the waiters one by one (`ending`) and waits at a full channel, too.
`gaveUp` and `panicked` are history: calls whose deadline passed, and a send on
a closed channel.

### Tui, ClientLogin

Keys become `requests`, handled by the backend in any order, and `replies`,
handled by `Update` in any order. `ch` is asyncCh, `listeners` the commands
that read it (none while an overlay is open). A text typed is known by its
position in `typed`, so equal texts stay apart. A request can pass its 30 seconds,
or the process can end with the reply unread, before or after the backend has
handled it (`Expire`): the client is told an error, and the backend may still
handle a request whose reply nobody awaits (`late`). The backend is what
`RunControl`, `Approval` and `Onboarding` say, seen from outside. `orphaned`,
`expired`, `given`, `overwritten`, `stated` are history. `ClientLogin` is the part of
`Update` in which a prompt waits for a login, with the backend of `Login`.

### Transcript

`t` is the record of the Go struct: `blocks`, the three indexes, the intervals
of completed runs, the dirty mark and `cache`, the rendered cells. A step is one
exported method. The texts in `runs` (`from`, `to`) are history: the cells an
interval was closed with.

### Slips

Each module has definitions marked "Slip", just before the definition they
mutate: the same code with a plausible mistake. No action uses them; the mutants
in `PROJECT.json` substitute them, and each property is violated by its slip.
`TypeOK`, in most modules, gives the values of the variables; it is no property
of a run. Those of `RunControl`, `Approval`, `Onboarding` and `RpcServer` are
proved as parts of their inductive invariants.

## 3. Runs

Passing. Many properties are conjunctions; their parts are in parentheses and
have comments of their own.

`control` (`MCRunControl`, 3 prompts, symmetry-free, `FairSpec`)
: `Conservation`: each accepted prompt is in exactly one place. `QueueDiscipline`
  (shape of the batches, boundary registered exactly during a tool phase, view
  never stale, nothing queued when `run.start` has answered). `ImplementsInbox`:
  refinement of `PromptInbox`. `AcceptedIsSubmitted`, `RunStartReturns`:
  liveness.

`session` (`MCSession`; `RunStream`: 3 calls, one correction, one recovery, one
update per tool; `HistoryCarry`: 2 calls, 1 steer, 2 corrections, 1 recovery, 2
compactions, 1 failed, on three histories; `SessionLog`: one session with two
runs, and two sessions with a fork, one fault each)
: `ShownSound`, `FileSound`, `CancelKeepsFile`: the stream is well formed, a
  complete file obeys the contract, an incomplete one has one of two named
  causes, cancellation leaves a complete run. `RequestsWhole`, `StoredWhole`:
  requests keep the user's words and paired calls, stored messages can be
  replayed and cover the run. `Durable`, `CompactionCovers`, `ForkFaithful`,
  `StoreUsable` (loads unless abandoned, hit by a fault or raced by a fork;
  names of one process unique).

`approval` (`MCApproval`; 3 calls, 2 runs, one `permission.set`)
: `NobodyWaitsInVain`, `GrantsKept`, `DecisionsHold` (a denied request is not
  asked again in the run; no call runs without permission), `WaitingEnds`.

`backend` (`MCBackend`; 2 flows, 1 browser connection, 2 requests; 2 questions,
2 submits, 2 runs, 1 death; 3 lines, 1 session)
: `LoginIsStored`; `LoginsEnd` (a browser's callback that is the first to
  store credentials of its flow does so while the table has the flow and its
  result is open; every wait is answered); `OneQuestion` (one pending, its tool waiting
  unless orphaned, one answer for table, submitters and model);
  `AnsweredToolReturns`; `OutputWhole` (prefix of what was emitted, all of it at
  a good end, commands of a session in order); `ServerStops`.

`client` (`MCClient`; 2 calls, 2 backends, 4 events, channels of 2 and of 1; 2 texts
typed, 2 questions, 2 keys, 2 runs, 1 request given up; 2 login flows, 1 text, 1
restart)
: `SendsToOpenChannels`: the client panics only when a deadline passes between
  look-up and send. `CallsReturn`: no call waits for good, but a `run.start` behind
  its own overlay; with both channels of a `run.start` full and the dispatcher
  waiting, the calls whose answers are not routed end at their deadlines.
  `ScreenSound` (an overlay is one the backend waits for, unless its run was
  interrupted or died, or the client gave up its answer; typed text is in the
  editor, on its way, or with the backend; the preview is what the backend
  told); `EventsInOrder`; `ClientReturns`; `RestartSparesRuns`. `FewEvents` and
  `FewLate` of `MCClient` bound what is explored together: with a second backend, one
  event, no overlay, and no process that outlives its client; with a request given
  up, one run and two texts and questions in all. No step that fairness demands is
  cut off by them.

`tools` (`MCTools`; 2 cells, 2 workers, 1 message each, 1 crash; 3 calls, 2
clients, 1 death; files of 5 lines in 3 widths, output of 5 lines, pipes of 2)
: `CellsOwnTheirCalls` (a call is served under the cell that made it; an ended
  cell makes none), `TimedCellsEnd`, `CallsEndForCause` (every call ends if the
  worker answers what it is asked, which `worker_grep` refutes for grep; it fails
  only when its worker died or gave an answer the client does not accept),
  `ResultsAreHonest` (pages cover the file; the limit flag tells whether there
  was more).

`turn` (`MCTurn`; 2 servers, 5 calls, 2 failures; 1 server with 3 raw names, two
that meet, 2 calls; 3 settings of 2 values, 2 MCP tools, 3 changes; files of 4
characters, 4 items; 1 completed run kept, 5 writes)
: `CallLeavesNothing` (servers closed, but for the three ways out listed below and
  a close that fails; no run of a failed start; blocked only after that
  many failures in a row); `ConsumerSeesEnd`; `CallsAllowed` (the
  tool of its name, with consent); `ModelIsToldCurrent`; `TextsKept` (an edit
  keeps the rest; cuts are announced and as small as the caps allow);
  `TranscriptSound` (indexes point, runs whole, the screen current).

Violations, each a disagreement between a document and the code (`findings`):

| Run | What happens |
|---|---|
| `control_interrupt` | an interrupt during the teardown of a tool phase is lost |
| `control_compaction` | steers announced as submitted are dropped by in-run compaction |
| `stream_persisted` | a malformed call among parallel ones leaves the file incomplete |
| `history_prompt` | a restart cuts the run's own prompt out of the next request whenever the run began with messages |
| `worker_grep` | the worker reads one pipe of rg to its end before the other: rg waits on the one nobody reads (many complaints on stderr, or a line over the scanner's buffer) |

More disagreements show in the models and have no run of their own. Where a
definition states one, it is named; TLC refutes it.

Queues and runs:

* a second group of `next` prompts overtakes the promoted one (`NextInOrder`;
  `rpc/state.py:249`; contracts.md:1345);
* promoted prompts are in neither list of the queue snapshot while they wait for
  a cancelled run to end (`rpc/state.py:279`; contracts.md:1314 calls the
  snapshot authoritative);
* an error return of `run.start` leaves prompts queued in a session without a
  run (`rpc/stdio.py:611`; contracts.md:1339);
* a transient failure after a restart is retried although tool events were shown
  (`runtime/run.py:705`, 1419; contracts.md:1373);
* in-run compaction makes a resumed run store the resumed history again
  (`DeltasOnly`; `runtime/run.py:616`; contracts.md:1157);
* the recent message a truncation keeps "so the model has current state" can be
  a response the final pairing repair removes
  (`session/replacement_history.py:468`, 498).

Sessions:

* the block after failed compactions survives `session.compact`
  (`BlockEndsWithContext`; `runtime/session.py:288`, `session/jsonl.py:428`;
  contracts.md:1165, compaction.md:114);
* a call leaves servers open (`ServersAlwaysClosed`; contracts.md:109-113) when it is
  cancelled while they start (`runtime/mcp.py:1280` closes them on an Exception
  only), dropped at the framing status (`runtime/session.py:395`), or when its
  history cannot be framed, say because a project document cannot be read
  (`runtime/session.py:404`, outside the `try` of 428);
* `jaca fork --name` and `session.name` can take the same name
  (`session/jsonl.py:396`; contracts.md:1105; `NamesUnique` excepts sessions the
  launcher named);
* a fork validates its source and then reads it again, so a run that starts in
  between is copied (`session/jsonl.py:464`; contracts.md:1054);
* a death between a long line and its newline leaves a file that loads, and the
  next append joins its line to that one (`session/jsonl.py:1068`;
  contracts.md:1153; `bare`, `hurt`);
* a configuration file that cannot be read raises out of the generator instead
  of ending in a failure event (`BadConfig`; `runtime/session.py:363`;
  contracts.md:121-123);
* after a change, or after a search, the model is told that the MCP tools
  changed and not what they are (`McpSurfaceIsTold`; `runtime/turn_context.py:468`;
  mcp.md:163-164).

Tools and approvals:

* a parallel call is asked about although the grant just given covers it
  (`tools/_permissions.py:698`; permission-execution.md:277);
* yielded cells go on, and call tools, after their run (`QuietAfterRun`;
  `runtime/run.py:1519`; code-mode.md:193);
* after a line over the stream limit the next cell serves the calls of the
  failed one (`CallsRunAsTheirCell`; `runtime/code_mode/python_runtime.py:105`;
  code-mode.md:84-88, contracts.md:601);
* the answer to a cancelled read ends the client for the rest of the run
  (`AbandonedSparesOthers`; `tools/read_only_worker/client.py:153`;
  read-only-worker.md:151-153);
* a bare approval of a root outside the workspace grants it for the session
  (`LeanApprovalIsOnce`; `contracts/sandbox.py:398-404`), where contracts.md:377-379
  has it normalized to the first option, `Allow once`, as the conservative default;
* an edit rewrites mixed line endings and can take half of a ligature with it
  (`EditPreservesOutside`; `tools/edit.py:244-250`), and an `old_text` that is
  blank throughout raises IndexError (`tools/edit.py:171-173`).

Login and client:

* an answer whose request passed its 30 seconds, although the backend had taken
  it, leaves its overlay open over an ask that is over, and another answer to it
  is refused (`internal/jaca/app/model.go:642-646`, 1624; the exception of
  `OverlayIsLive`); in the same way a prompt that the backend has queued is put
  back into the editor (`model.go:1651`);
* the events of a run that nobody reads behind an overlay stop the dispatcher, so
  that other calls get no answer before their deadline
  (`internal/jaca/rpc/client.go:549`; the exception of `CallsReturn`);
* a manual completion succeeds while the flow's callback has already failed, so
  wait and complete report different results (`SameLoginResult`;
  `rpc/handlers/auth.py:223`; contracts.md:193-195);
* with two equal prompts queued, submitting one takes both out of the preview
  (`PreviewIsQueueTruth`; `internal/jaca/app/model.go:459-462`; tui.md:153-156,
  contracts.md:1317);
* Esc on a login between its start and its reply leaves the editor blocked
  (`InputComesBack`; `model.go:1208`, 701; its own notice, `model.go:968`), and a
  stashed prompt is not always restored (`DetourRestores`; `model.go:1294`);
* cells before the first kept run are never trimmed (`SurfaceIsBounded`;
  tui.md:89).

Bounds. Three prompts give two batches of different kinds and a prompt in
flight, the smallest case in which order between batches matters; the proofs
remove this bound. Three tool calls give two parallel ones and a later response;
counters of 1 reach both sides of each limit. Two runs are needed for a
compaction with a run behind it; two sessions for a fork and a name clash. One
fault per behaviour: a second one hits a state the first already marked. In
`Approval` two runs are what a grant needs to be saved and restored. Two flows,
questions, cells, clients or backends give an old one and its successor; one
death gives both sides of it. A channel of 2 fills with the events of one run as
one of 32 does: of four events one opens the overlay, one waits in asyncCh and two
in the waiter channel, so that the dispatcher holds the answer. One request given
up is taken by the backend before, afterwards or never. A cap of 3 or 4 units is crossed by whole lines and within a
line. Files of four characters hold a match, what is before and after it, and a
character that normalizes to two. One completed run kept, with five writes,
trims twice. Two raw names that meet, and a third, are the smallest mount with a
collision and a deferred tool.
`CHECK_DEADLOCK FALSE` is set where the system really stops: a run, an output or
a call has ended, or the bound on lines, runs, keys or processes is used up.
Symmetry is used only in the `session` run, which has no liveness.

Fairness.

* `RunControl!FairSpec`: weak fairness of the run task, because the event loop
  resumes it, its tool phase included, that is, tools end and approvals are given;
  strong fairness of sending a request, of a final answer and of the end of a run,
  because a model that is asked again and again eventually answers without tool calls, and an unwinding run suspends finitely often.
* `Approval`: the event loop resumes the run task, and the user answers what is
  asked, since nothing else ends the wait; tools need not end.
* `Login`: tasks and timers run, the provider answers, a browser closes its
  connection at last (the server waits for idle ones).
* `Onboarding`: ready tasks and callbacks run; nobody has to submit.
* `RpcServer`: the loop and its two threads run; the client need not send, and a
  question need not be answered, which `ServerStops` excepts.
* `RpcClient`: goroutines run, deadlines pass, the screen takes events unless it is
  behind an overlay, a backend that lives answers a call without a deadline; those
  with one are not promised an answer, and nobody has to answer the overlay.
* `Tui`: the client's loop and its goroutines run, the backend handles requests;
  runs need not end, and no request has to be given up.
* `CodeMode`: time limits pass, a discarded worker is killed; sources need not
  end.
* `ReadOnlyWorker`: weak for all steps of client and worker, strong for taking
  the runtime's lock, which asyncio grants in order.
* `ReadOnlyTools`: the worker's goroutine and rg go on as long as they can.

No user, and no fault, is fair. The other modules assume no fairness.

## 4. Proofs

Eight modules prove theorems for every value of the constants, each from an
inductive invariant. A proof has one lemma
per action (a stutter is one more), lemmas for what helpers do, and one lemma
that puts the steps together. The assumptions are those the modules name; they
say that bounds are numbers (`LineBound`, `LimitIsCount`, `CompletedIsCount`, the hypotheses of
`OneQuestionAlways`, and `BoundsAssumption` of the session store, which also says
that the names and trailing lines to be tried are among those there are), that retries are numbers and the calls of a run finitely
many (`BoundsHold`), and that no setting has the word for "nothing was said" as
its value (`UnsaidIsNoValue`).

`RunControlProofs`. No assumption is made on `Prompt`.

* `Conservation` is not inductive by itself: it needs the batch shapes and the
  disjointness of the batches of `followUps` and `submitted`, and that each of
  `steers` and the batches is a sequence of accepted prompts. `IInv` has these
  parts. The pure queue operations have lemmas (`PrependLemma`,
  `AppendLaterLemma`, `TakeLemma`), each action a lemma, and `StepIInv` puts
  them together (`Invariance`, and `TypeCorrect`, `PromptsConserved`,
  `QueueShaped`, `BoundaryKept`).
* `QueueDiscipline` adds that the client's view is never stale and that nothing
  is queued when `run.start` has answered. These need a second invariant, `Told`:
  besides `IInv`, that the last snapshot equals the queues while a run is active
  and is empty otherwise (`ViewFaithful`), and that after a response no run is
  active and both queues are empty (`Drained`); `StepTold` uses `IInv` of the
  state before the step (`QueuesDisciplined`).
* `QueueIsInbox` is the refinement of `PromptInbox`. What waits in the inbox is
  the set of prompts in the steer queue and in the batches of each kind
  (`NextPrompts`, `LaterPrompts`), what it delivered are the submitted batches.
  A prompt that stood twice in a queue would be delivered and wait at once;
  conservation counts places, not positions, so a third invariant, `Queued`,
  adds that each place holds a prompt once (`OnceEach`). Each action is then an
  acceptance, a downgrade or a delivery of the inbox, or leaves it as it is.

`ApprovalProofs` proves all three safety properties of `Approval`. `IInv` adds to
the types that the queue has no call twice and holds every call that waits, with
the one asked about (`Lined`), that no call is under way between two runs
(`Quiet`), that what a future holds is what the user said of that call, for the
session only if the call asked for a grant (`Answered`), that the run knows every
denial of the user's or is about to be told (`Refused`), and that grants are in
memory during a run and in the file between two (`Granted`).
`NobodyWaits` and `GrantsStay` follow from the invariant, `DecisionsAlwaysHold`,
an action property, from it and each step.

`StoreProofs` proves the four safety properties of the session store, each from
an invariant of its own over a common one, `Frame`.

* `Frame` says who may write where: a process has writes for one session only,
  lines before metadata (`Shape`); a session that is being created has no line or
  its header (`Creating`); the lock of a session is held exactly while a run or a
  compaction is open in it (`Locks`); the session the launcher makes or names is
  never one the backend works in (`Apart`); a last line without its newline can
  only be followed by a run's first line (`BareFirst`); what `finalize` and the
  compaction will return was begun (`Returns`, `Sources`).
* Loading is a walk over the lines of a file, a recursive function. The induction
  over its length is done by hand: a set of numbers with 0 and with every successor
  has all of them (`CountingUp`, from the library's well-foundedness of the
  numbers), and `WalkIs` shows that the recursion has a solution. A walk depends on
  the lines before it only, so that appending continues it (`LoadAppend`).
* `ForksAlwaysFaithful` follows two walks at once, over the lines of the source
  and over those that the fork copies: they stay alike in everything but the lines
  that are dropped (`Alike`). It holds of any file that loads.
* `NamesAlwaysUnique`: each name a process still has to write fits the names there
  are (`Named`).
* `AlwaysDurable`: `Firm(s)` counts the lines that no step can change, the synced
  ones but for a last one without its newline. What a run has returned stands
  within them (`Stored`); while it goes on, the file it will have when the pending
  write is done ends with its lines (`Streams`); and between the decision to
  finalize and the return the write still to do is synced (`Storing`).
* `AlwaysCovers`: every file, as it is and as it will be when the pending lines
  are written, has only compactions that cover what stands before them
  (`Covering`). A death may leave any prefix of a write, a loss of power any prefix
  from the synced lines on, and both keep it.
* `AlwaysLoads`: a session that nothing hurt loads when what is pending is written,
  and while a run is written the state of the walk at its end is the state of its
  appender (`Loading`, `Follow`). Several lines in one write are a run's last ones
  or a fork's (`Batches`), so that elsewhere a death leaves all of a write or none
  of it, and here it hurts the session. `AlwaysUsable` joins it with the names.

`SessionProofs` proves the three properties of a run's events (`ShownIsSound`,
`FileIsSound`, `CancelsKeepFile`). The contract, `Sound`, looks back over the
whole stream; `run.py`, `session.py` and the appender each keep a table instead.
`StreamIInv` relates them while the run goes on: the appender's table is what the
written stream started and did not resolve (`Written`), the pending calls of
`run.py` are among them and the rest was dropped by a restart (`TablesAgree`),
a call that still has to be announced never started before (`Announced`), a tool
belongs to a call to come or to a pending one (`ToolsPending`). `Feed` appends up
to the first event that is refused: `FeedTakes` finds it (`Least`: a set of
numbers that is not empty has a least one), `UptoSound` and `OpenIs` say what the
stream and the table are there, `FeedEffect` and `EmitEffect` what a step leaves.
The end of a run fits only when nothing is open: `FailListFits` shows that the
failures `run.py` adds resolve exactly what it has pending, so that the run is
incomplete on disk just when a call was dropped, and that cancellation, which
fails what the appender has open, always completes it. `FinalizedRunsStay`,
`CompactionsCover`, `ForksAreFaithful` and `StoreStaysUsable` carry the theorems
of `StoreProofs` over to the two stores of `MCSession`, which are instances of it:
a behaviour in which `part` is a store is one of that store (`OneStore`,
`TwoStore`), and in the others the properties say nothing.

`TurnProofs`.

* `CallsLeaveNothing`, `ConsumersSeeEnd`: `SessionIInv` says for each place of
  the generator which servers are open (`OpenTracked`), what was shown and what
  the file holds (`RunTracked`), that the end of a run comes once, last and after
  its tool (`EndTracked`), and that the failure count is that of the log since
  the last success (`CountTracked`). Servers and file of a call that is over are
  parts of their own (`ServersGone`, `NoRunLeft`): a call that showed neither the
  start nor the end of a run (`Unbegun`) has none in the file.
* `ModelsAreTold`: the property is inductive with its types once nothing is
  enabled between runs. `RunStartTells` takes the three forms of the plan: in
  full, by a difference, and silence when nothing changed.
* `OnlyAllowedCalls`: mounted names and admitted tools correspond one to one
  (`MountedOnce`), a call began with a tool the model saw and keeps it,
  unanswered while it is asked about (`BegunWithTool`), and whatever is in
  `approved` was approved in some call of that tool (`Answered`), since a call
  may be made on a consent given to another. It holds for every set of servers,
  raw names and calls, every normalization and every threshold.
* `TranscriptsStaySound`: the property is of what is on the screen after a handler,
  and a handler is a chain of calls on the list, of which each changes the list or
  an index. `Sound` is what holds between any two of them: the indexes point at their
  cells (`Points`), the kept runs are whole, in order, behind the omission cell and
  before what is still open (`Kept`), and the cells before the first dirty one are
  as they were rendered (`Reusable`). `Marks` adds what rendering relies on: a call
  that marks nothing as dirty changed nothing. Each call has a lemma that it gives a
  sound list and marks (`AppendGives`, `EndLiveGives`, `InsertNoteGives`, ...), and
  a handler follows by `GivesOn`. The one that can go wrong is the cut of the oldest
  run: `OldestCutIs` says which cell and which run stands where afterwards, and
  `CutSound` that this is sound, whether the omission cell is put there or was there
  already. It needs that at most one run is too many, which is why the bound on the
  kept runs is part of `Sound`. `ScreenIInv` is the soundness of the list between
  handlers, with what was rendered.

`BackendProofs`.

* `OneQuestionAlways` proves `OneQuestion` for any bounds on questions, runs and
  deaths that are natural numbers. The invariant says that two pending rows are
  equal (`AtMostOne`; `AtMostOneCounts` turns it into the count), that the question
  the tool waits for is on its way or registered and that the future follows the
  table (`ToolServed`), and that an answer that was reported is in the table and
  never changes (`AnswersStored`).
* `LoginsStored`: a flow that oauth.json holds was saved (`StoreSaved`), and only
  a wait request waits, for a flow (`WaitsForFlow`).
* `OutputIsWhole`: what was emitted is what was written, what the writer holds
  and what is queued, in this order, with the stop mark cut out (`Open`, `Marked`
  and `Cut`, by where the mark is); behind the mark stands only what was emitted
  because a task had failed. Who entered a session had its turn before those that
  still wait (`Turns`), who is done has answered (`Answers`), and after the end of
  the input only tasks that are waited for can emit (`Gathered`).

`ClientProofs`.

* `SendsAreToOpenChannels`: `RpcIInv` follows an envelope from the pipe to the
  table, the dispatcher's hand and the channel: waiters have open channels, what is
  in hand goes to an open one or to a call that gave up, and nothing follows an
  answer.
* `EventsComeInOrder`: `TuiIInv` numbers the events that are out, one at most with
  the command that reads the channel and the others in it, without gaps
  (`Numbered`); nobody reads while an overlay has what the backend waits for, and
  an answer on its way is to that (`WaitTracked`); the last event of a run is out
  last (`EndTracked`).
* `ScreenStaysSound` has one invariant for each part of `ScreenSound`, with
  `TuiIInv`: overlays (`OverlaysTracked`), what was typed (`TextsTracked`) and the
  preview (`PreviewTracked`). A batch that is out comes right after the queue event
  told without it, or that was the last event handled (`BatchesFollow`); so its texts
  are not in the preview and `removeQueuedPrompts` finds nothing to remove
  (`NothingRemoved`). That needs a prompt to be in one place only (`OnceTracked`) and
  never in both groups of the queue (`QueueTracked`), and the typed texts to differ
  and none to be sent twice (`Differ`, `Fresh`), the condition the property names.
  The backend may still handle a request that the client gave up; `LateTracked`
  finds it among those, for the exception of the overlays.
* `RunsAreSpared`: no login is under way while a run goes on.

`ToolsProofs`.

* `CallsAreOwned`: `CodeIInv` follows what each worker process still holds of a
  source, in its pipe and in what it was given: the worker of a cell that is
  served holds that cell's only, and the one that waits for a cell holds none
  (`WorkersTracked`). That lasts until a line is over the limit of the pipe, the
  exception the property names.
* `ResultsStayHonest`, for both parts of `ResultsAreHonest`. Pages: a window is the
  greatest number of lines within both caps (`WindowIs`; the sums of `Bytes` grow
  with each line), a hint is given exactly when the file goes on (`PageIs`), so a
  page takes what was given from the offset to the page's end (`ReadStep`). Grep:
  while matches are read, those counted and those in the pipe are what rg wrote
  (`ScanTracked`); afterwards the flag is set exactly when there was a match
  beyond the limit, unless the scan broke off (`EndTracked`). It assumes that the
  limit and the two caps are counts, and the cap on lines not zero (the constants
  of `read.py` and the field of `grep.py`).
* `FailuresHaveCause`: a client is given up only when its worker died or gave an
  answer that is for nobody or cannot be read (`ClientsTracked`), and a call has a client from its start
  on (`ViaTracked`).

Only model-checked:

* everything about liveness and ENABLED, out of the prover's reach;
* what the model computes with the folds and `SelectSeq` of the library, about
  which the prover knows nothing: `RequestsWhole` and `StoredWhole` (pairing and
  truncation of messages), `TextsKept`.

## 5. Not modelled, and the plan

`PROJECT.json` lists every component with its status.

* Subagents: a child run is a run nested in a tool call, with the event rules of
  `RunStream`; what is new is one counter and the forwarding of its events.
* Permission planning from shell commands and paths: it parses strings; the
  rule table could become a pure module.
* A second backend on one session: the code neither prevents it nor says
  anything of it.
* Slash commands, prompt editing and rendering of the client; prompt wording;
  argument parsing; tracing; token refresh, the keyring and MCP OAuth: input and
  output with no state shared between steps.
* Evaluations, experiments, scripts, the DSPy bridge: not part of the product.

Next: the message properties, with `SelectSeq` and the folds replaced by recursive
functions and followed by counting, as the walk over the lines of a session is;
the rule table of the permissions and child runs as modules.
