--------------------------------- MODULE Tui ---------------------------------
(***************************************************************************)
(* The terminal client's loop (internal/jaca/app/model.go, approval.go,    *)
(* onboarding.go) with one session of the backend.                         *)
(*                                                                         *)
(* runPrompt puts every event of its run.start into asyncCh; listenAsync   *)
(* takes one of them and Update handles it and listens again, except for   *)
(* the events that open an overlay: then nobody reads the channel until    *)
(* the reply to the submitted answer says so.  Keys become requests, each  *)
(* sent and answered in a goroutine of its own; replies come in any order, *)
(* and a request whose time is over fails for the client, whether or not   *)
(* the backend then handles it.                                            *)
(*                                                                         *)
(* The backend is external and does what RunControl, Approval and          *)
(* Onboarding say: it stops at a question until its answer, an interrupt   *)
(* or its death, and tells every change of the queue.                      *)
(***************************************************************************)
EXTENDS Naturals, Sequences, FiniteSets, SequencesExt

CONSTANTS
  Text,        \* what a user can type
  MaxTyped,    \* bound: texts typed
  MaxAsks,     \* bound: approvals and questions
  MaxKeys,     \* bound: Esc and answer keys
  MaxLate,     \* bound: requests given up by the client
  MaxRuns,     \* bound: runs that queued prompts make within one run.start
  Resumed      \* the session is known when the client starts

Typed == 1 .. MaxTyped
Ask == 1 .. MaxAsks
None == 0

VARIABLES
  streaming,   \* a run.start is going on, for the client
  session,     \* sessionID is known
  approval,    \* pendingApproval: the request shown by the approval overlay
  question,    \* the question shown by the onboarding overlay
  paused,      \* approvalPaused
  listeners,   \* listenAsync commands waiting on asyncCh
  taken,       \* events taken from asyncCh, not yet handled by Update
  draft,       \* what the prompt editor holds
  preview,     \* queuedPreview
  ch,          \* asyncCh and the way to it
  requests,    \* requests on their way to the backend; of a late one nobody gets the reply
  replies,     \* replies on their way to Update
  run,         \* the run.start of the backend
  asking,      \* what the backend waits for
  queue,       \* the prompt queue of the backend
  typed,       \* the texts the user has typed, in order
  asks, keys, runs,
  emitted,     \* history: events put into asyncCh
  handled,     \* history: the last event handled
  stated,      \* history: the queue the last handled queue event told
  orphaned,    \* history: asks whose run was interrupted, or died, meanwhile
  expired,     \* history: requests the client gave up
  given,       \* history: prompts the backend has got
  overwritten  \* history: prompts lost from the editor

ui == <<streaming, session, approval, question, paused, listeners, draft, preview>>
backend == <<run, asking, queue, asks, runs, orphaned, given>>
tvars == <<ui, taken, ch, requests, replies, backend, typed, keys, emitted, handled, stated,
           expired, overwritten>>

Empty == [next |-> <<>>, later |-> <<>>]
NoEvent == [n |-> 0, what |-> "none", ask |-> None, queue |-> Empty]
Request == [what : {"interrupt"}, ask : {None}, prompt : {None}, late : BOOLEAN]
           \cup [what : {"submit"}, ask : Ask, prompt : {None}, late : BOOLEAN]
           \cup [what : {"next", "later"}, ask : {None}, prompt : Typed, late : BOOLEAN]

TypeOK ==
  /\ streaming \in BOOLEAN /\ session \in BOOLEAN /\ paused \in BOOLEAN
  /\ approval \in Ask \cup {None} /\ question \in Ask \cup {None}
  /\ listeners \in 0..2 /\ draft \in Typed \cup {None}
  /\ run \in {"none", "creating", "running", "waiting", "cancelled"}
  /\ requests \subseteq Request /\ expired \subseteq Request
  /\ \A r \in replies : r.ok \in BOOLEAN

Init ==
  /\ streaming = FALSE /\ session = Resumed
  /\ approval = None /\ question = None /\ paused = FALSE
  /\ listeners = 0 /\ taken = {} /\ draft = None /\ preview = Empty
  /\ ch = <<>> /\ requests = {} /\ replies = {}
  /\ run = "none" /\ asking = None /\ queue = Empty
  /\ typed = <<>> /\ asks = 0 /\ keys = 0 /\ runs = 0
  /\ emitted = 0 /\ handled = 0 /\ stated = Empty
  /\ orphaned = {} /\ given = {} /\ expired = {} /\ overwritten = {}

Emit(events) ==
  /\ ch' = ch \o [i \in 1..Len(events) |-> [events[i] EXCEPT !.n = emitted + i]]
  /\ emitted' = emitted + Len(events)
Event(what) == [NoEvent EXCEPT !.what = what]
AskEvent(what, a) == [NoEvent EXCEPT !.what = what, !.ask = a]
QueueEvent(what, q) == [NoEvent EXCEPT !.what = what, !.queue = q]
Texts(q) == [i \in 1..Len(q) |-> typed[q[i]]]
Shown(q) == [next |-> Texts(q.next), later |-> Texts(q.later)]

-----------------------------------------------------------------------------
(* Keys.  An overlay gets every key.                                       *)

Overlay == approval # None \/ question # None

Type(text) ==
  /\ ~Overlay /\ draft = None /\ Len(typed) < MaxTyped
  /\ typed' = Append(typed, text) /\ draft' = Len(typed) + 1
  /\ UNCHANGED <<streaming, session, approval, question, paused, listeners, preview, taken, ch,
                 requests, replies, backend, keys, emitted, handled, stated, expired, overwritten>>

\* submitPromptWithMode and the start of runPrompt, with a new channel; the
\* backend shows the prompts an earlier run.start has left in its queue.
SubmitPrompt ==
  /\ ~Overlay /\ ~streaming /\ draft # None
  /\ streaming' = TRUE /\ draft' = None /\ listeners' = listeners + 1
  /\ run' = IF session THEN "running" ELSE "creating"
  /\ given' = given \cup {draft} /\ runs' = 1
  /\ IF queue = Empty THEN ch' = <<>> /\ UNCHANGED emitted
     ELSE /\ ch' = <<[QueueEvent("queue", Shown(queue)) EXCEPT !.n = emitted + 1]>>
          /\ emitted' = emitted + 1
  /\ UNCHANGED <<session, approval, question, paused, preview, taken, requests, replies, asking,
                 queue, asks, orphaned, typed, keys, handled, stated, expired, overwritten>>

Send(r) == requests' = requests \cup {r}

\* handleQueueSteer, handleQueueFollowUp.
QueuePrompt ==
  /\ ~Overlay /\ streaming /\ session /\ draft # None
  /\ \E mode \in {"next", "later"} : Send([what |-> mode, ask |-> None, prompt |-> draft, late |-> FALSE])
  /\ draft' = None
  /\ UNCHANGED <<streaming, session, approval, question, paused, listeners, preview, taken, ch,
                 replies, backend, typed, keys, emitted, handled, stated, expired, overwritten>>

\* handleEscape: an interrupt; nothing before the session is known.
Escape ==
  /\ ~Overlay /\ streaming /\ session /\ keys < MaxKeys
  /\ Send([what |-> "interrupt", ask |-> None, prompt |-> None, late |-> FALSE]) /\ keys' = keys + 1
  /\ UNCHANGED <<ui, taken, ch, replies, backend, typed, emitted, handled, stated, expired, overwritten>>

\* completeApprovalSelection, completeOnboardingSelection: the overlay stays
\* until the reply, so the key can be pressed again.
AnswerKey ==
  /\ keys < MaxKeys /\ keys' = keys + 1
  /\ IF question # None
     THEN Send([what |-> "submit", ask |-> question, prompt |-> None, late |-> FALSE])
     ELSE /\ approval # None
          /\ Send([what |-> "submit", ask |-> approval, prompt |-> None, late |-> FALSE])
  /\ UNCHANGED <<ui, taken, ch, replies, backend, typed, emitted, handled, stated, expired, overwritten>>

-----------------------------------------------------------------------------
(* The backend.                                                            *)

same == <<ui, taken, typed, keys, handled, stated, expired, overwritten>>

CreateSession ==
  /\ run = "creating"
  /\ \/ run' = "running" /\ Emit(<<Event("created")>>)
     \/ run' = "none" /\ Emit(<<Event("notCreated")>>)
  /\ UNCHANGED <<same, requests, replies, asking, queue, asks, runs, orphaned, given>>

\* approval_requested or onboarding_question_requested.
AskUser ==
  /\ run = "running" /\ asks < MaxAsks
  /\ asks' = asks + 1 /\ asking' = asks + 1 /\ run' = "waiting"
  /\ \E what \in {"approval", "question"} : Emit(<<AskEvent(what, asks + 1)>>)
  /\ UNCHANGED <<same, requests, replies, queue, runs, orphaned, given>>

\* A batch of the queue is submitted: the queue without it, then its prompts.
Batch(group) ==
  <<QueueEvent("queue", Shown([queue EXCEPT ![group] = <<>>])),
    QueueEvent("batch", [Empty EXCEPT !.next = Texts(queue[group])])>>

SubmitSteers ==
  /\ run = "running" /\ queue.next # <<>>
  /\ Emit(Batch("next")) /\ queue' = [queue EXCEPT !.next = <<>>]
  /\ UNCHANGED <<same, requests, replies, run, asking, asks, runs, orphaned, given>>

\* The run ends: the queue, steers first, makes the next one, or run.start is
\* answered.
RunEnds ==
  /\ run \in {"running", "cancelled"}
  /\ LET group == IF queue.next # <<>> THEN "next" ELSE "later" IN
     \/ /\ queue # Empty /\ runs < MaxRuns
        /\ Emit(<<Event("terminal")>> \o Batch(group))
        /\ queue' = [queue EXCEPT ![group] = <<>>] /\ run' = "running" /\ runs' = runs + 1
     \/ /\ queue = Empty /\ Emit(<<Event("terminal"), Event("done")>>)
        /\ run' = "none" /\ UNCHANGED <<queue, runs>>
  /\ asking' = None
  /\ UNCHANGED <<same, requests, replies, asks, orphaned, given>>

\* run.start ends with rpc_error; the client is shown an empty queue, the queue
\* itself stays.
RunFails ==
  /\ run = "running"
  /\ Emit(IF queue = Empty THEN <<Event("failed")>>
          ELSE <<QueueEvent("queue", Empty), Event("failed")>>)
  /\ run' = "none"
  /\ UNCHANGED <<same, requests, replies, asking, queue, asks, runs, orphaned, given>>

Reply(r, ok) ==
  /\ requests' = requests \ {r}
  /\ replies' = IF r.late THEN replies ELSE replies \cup {[request |-> r, ok |-> ok]}

\* The 30 seconds of a request are over (queueControlTimeout, and those of
\* submitApproval and submitOnboarding), or the process ends with the reply
\* unread: an error for the client, of which an interrupt takes no notice.
\* Bound: MaxLate times, and not twice for the same prompt or ask.
Expire(r) ==
  /\ ~r.late /\ r \notin expired /\ Cardinality(expired) < MaxLate /\ r.what # "interrupt"
  /\ requests' = (requests \ {r}) \cup {[r EXCEPT !.late = TRUE]}
  /\ replies' = replies \cup {[request |-> r, ok |-> FALSE]}
  /\ expired' = expired \cup {r}
  /\ UNCHANGED <<ui, taken, ch, backend, typed, keys, emitted, handled, stated, overwritten>>

HandleSubmit(r) ==
  /\ r.what = "submit"
  /\ IF run = "waiting" /\ asking = r.ask
     THEN /\ run' = "running" /\ asking' = None
          /\ Emit(<<AskEvent("resolved", r.ask)>>) /\ Reply(r, TRUE)
     ELSE Reply(r, FALSE) /\ UNCHANGED <<run, asking, ch, emitted>>
  /\ UNCHANGED <<same, queue, asks, runs, orphaned, given>>

HandleInterrupt(r) ==
  /\ r.what = "interrupt"
  /\ IF run \in {"running", "waiting"}
     THEN /\ run' = "cancelled" /\ asking' = None /\ Reply(r, TRUE)
          /\ orphaned' = orphaned \cup ({asking} \ {None})
     ELSE Reply(r, FALSE) /\ UNCHANGED <<run, asking, orphaned>>
  /\ UNCHANGED <<same, ch, emitted, queue, asks, runs, given>>

HandleEnqueue(r) ==
  /\ r.what \in {"next", "later"}
  /\ IF run \in {"running", "waiting", "cancelled"}
     THEN LET grown == [queue EXCEPT ![r.what] = Append(@, r.prompt)] IN
          /\ queue' = grown /\ given' = given \cup {r.prompt}
          /\ Emit(<<QueueEvent("queue", Shown(grown))>>) /\ Reply(r, TRUE)
     ELSE Reply(r, FALSE) /\ UNCHANGED <<queue, given, ch, emitted>>
  /\ UNCHANGED <<same, run, asking, asks, runs, orphaned>>

\* The process dies: run.start and every other request fail.
Die ==
  /\ run \in {"running", "waiting", "cancelled"}
  /\ run' = "none" /\ asking' = None /\ queue' = Empty
  /\ orphaned' = orphaned \cup ({asking} \ {None})
  /\ Emit(<<Event("failed")>>)
  /\ requests' = {}
  /\ replies' = replies \cup {[request |-> r, ok |-> FALSE] : r \in {q \in requests : ~q.late}}
  /\ UNCHANGED <<same, asks, runs, given>>

-----------------------------------------------------------------------------
(* Update.                                                                 *)

\* listenAsync: the command's goroutine receives, Update gets it later.
ListenAsync ==
  /\ listeners > 0 /\ ch # <<>>
  /\ listeners' = listeners - 1
  /\ taken' = taken \cup {Head(ch)} /\ ch' = Tail(ch)
  /\ UNCHANGED <<streaming, session, approval, question, paused, draft, preview, requests,
                 replies, backend, typed, keys, emitted, handled, stated, expired, overwritten>>

\* removeQueuedPrompts.
RemoveQueued(q, prompts) ==
  LET left[i \in 0..Len(prompts)] ==
        IF i = 0 THEN q
        ELSE IF Contains(left[i - 1], prompts[i]) THEN RemoveFirst(left[i - 1], prompts[i])
        ELSE left[i - 1]
  IN left[Len(prompts)]
Without(prompts) == [group \in {"next", "later"} |-> RemoveQueued(preview[group], prompts)]

Handled(e) == taken' = taken \ {e} /\ handled' = e.n
Listen == listeners' = listeners + 1
quiet == <<draft, ch, requests, replies, backend, typed, keys, emitted, expired, overwritten>>

EventText(e) ==
  /\ e.what \in {"created", "queue", "batch"} /\ Handled(e) /\ Listen
  /\ session' = (session \/ e.what = "created")
  /\ preview' = CASE e.what = "queue" -> e.queue
                  [] e.what = "batch" -> Without(e.queue.next)
                  [] OTHER -> preview
  /\ stated' = IF e.what = "queue" THEN e.queue ELSE stated
  /\ UNCHANGED <<quiet, streaming, approval, question, paused>>

\* Slip: the client goes on listening behind the overlay.
EventAskListening(e) ==
  /\ e.what \in {"approval", "question"} /\ Handled(e) /\ Listen
  /\ IF e.what = "approval"
     THEN approval' = e.ask /\ paused' = TRUE /\ UNCHANGED question
     ELSE question' = e.ask /\ UNCHANGED <<approval, paused>>
  /\ UNCHANGED <<quiet, streaming, session, preview, stated>>

\* The overlay opens and nobody listens.
EventAsk(e) ==
  /\ e.what \in {"approval", "question"} /\ Handled(e)
  /\ IF e.what = "approval"
     THEN approval' = e.ask /\ paused' = TRUE /\ UNCHANGED question
     ELSE question' = e.ask /\ UNCHANGED <<approval, paused>>
  /\ UNCHANGED <<quiet, streaming, session, listeners, preview, stated>>

EventResolved(e) ==
  /\ e.what \in {"resolved", "terminal"} /\ Handled(e) /\ Listen
  /\ approval' = IF e.what = "terminal" \/ approval = e.ask THEN None ELSE approval
  /\ paused' = FALSE
  /\ UNCHANGED <<quiet, streaming, session, question, preview, stated>>

\* The last message of a run: session.create failed, an error, or Done.
EventLast(e) ==
  /\ e.what \in {"notCreated", "failed", "done"} /\ Handled(e)
  /\ streaming' = FALSE
  /\ IF e.what = "notCreated" THEN UNCHANGED <<approval, paused>>
     ELSE approval' = None /\ paused' = FALSE
  /\ UNCHANGED <<quiet, session, question, listeners, preview, stated>>

answered == <<streaming, session, preview, taken, ch, requests, backend, typed, keys, emitted,
              handled, stated, expired>>

\* Slip: a refused answer closes the overlay as an accepted one does, without
\* listening again.
SubmittedClosing(r) ==
  /\ r.request.what = "submit" /\ replies' = replies \ {r}
  /\ approval' = IF approval = r.request.ask THEN None ELSE approval
  /\ question' = IF question = r.request.ask THEN None ELSE question
  /\ listeners' = IF r.ok /\ streaming /\ (paused \/ question = r.request.ask)
                  THEN listeners + 1 ELSE listeners
  /\ UNCHANGED <<answered, paused, draft, overwritten>>

\* approvalSubmittedMsg, onboardingSubmittedMsg.  A refused answer leaves the
\* overlay open and nobody listening.
Submitted(r) ==
  /\ r.request.what = "submit" /\ replies' = replies \ {r}
  /\ IF r.ok
     THEN /\ approval' = IF approval = r.request.ask THEN None ELSE approval
          /\ question' = IF question = r.request.ask THEN None ELSE question
          /\ listeners' = IF streaming /\ (paused \/ question = r.request.ask)
                          THEN listeners + 1 ELSE listeners
     ELSE UNCHANGED <<approval, question, listeners>>
  /\ UNCHANGED <<answered, paused, draft, overwritten>>

\* Slip: a prompt the backend refused is not given back.
EnqueuedSilently(r) ==
  /\ r.request.what \in {"next", "later"} /\ replies' = replies \ {r}
  /\ UNCHANGED <<answered, approval, question, listeners, paused, draft, overwritten>>

\* enqueueRunDoneMsg: a refused prompt is put into the editor, over what has
\* been typed since.
Enqueued(r) ==
  /\ r.request.what \in {"next", "later"} /\ replies' = replies \ {r}
  /\ IF r.ok THEN UNCHANGED <<draft, overwritten>>
     ELSE draft' = r.request.prompt /\ overwritten' = overwritten \cup ({draft} \ {None})
  /\ UNCHANGED <<answered, approval, question, listeners, paused>>

Interrupted(r) ==
  /\ r.request.what = "interrupt" /\ replies' = replies \ {r}
  /\ UNCHANGED <<answered, approval, question, listeners, paused, draft, overwritten>>

-----------------------------------------------------------------------------

RunEvent == \E e \in taken : EventText(e) \/ EventAsk(e) \/ EventResolved(e) \/ EventLast(e)

ReplyMsg == \E r \in replies : Submitted(r) \/ Enqueued(r) \/ Interrupted(r)

Serve ==
  \/ CreateSession
  \/ \E r \in requests : HandleSubmit(r) \/ HandleInterrupt(r) \/ HandleEnqueue(r)

Next ==
  \/ \E text \in Text : Type(text)
  \/ SubmitPrompt \/ QueuePrompt \/ Escape \/ AnswerKey
  \/ AskUser \/ SubmitSteers \/ RunEnds \/ RunFails \/ Die
  \/ \E r \in requests : Expire(r)
  \/ Serve \/ ListenAsync \/ RunEvent \/ ReplyMsg

\* The client's loop and goroutines run and the backend handles its requests.
\* Neither the user nor the model has to do anything.
Fairness == WF_tvars(ListenAsync) /\ WF_tvars(RunEvent) /\ WF_tvars(ReplyMsg) /\ WF_tvars(Serve)

Spec == Init /\ [][Next]_tvars /\ Fairness

-----------------------------------------------------------------------------
(* Properties.                                                             *)

\* One command reads the channel at a time, whichever replies and events come
\* in between: the client handles a run's events in the order of the backend.
EventsInOrder == [][handled' # handled => handled' = handled + 1]_tvars

\* An overlay the user sees is one the backend waits for, or has just been
\* told the answer of; all others had their run interrupted, or its backend
\* die, before the overlay was opened or answered, or their answer was one the
\* client gave up: the backend may have taken it, and the overlay stays.
OverlayIsLive ==
  \A a \in {approval, question} \ {None} :
    \/ asking = a \/ a \in orphaned
    \/ \E r \in replies : r.ok /\ r.request.ask = a
    \/ \E r \in expired : r.what = "submit" /\ r.ask = a

\* A run that has ended leaves the client streaming only behind an overlay: no
\* channel is left unread with nobody to resume it.
ClientReturns ==
  []<>(streaming /\ run = "none" => Overlay)

\* What the user has typed is in the editor, on its way, or with the backend,
\* unless a refused prompt came back over it.
TypedTextKept ==
  \A p \in 1..Len(typed) :
    \/ draft = p \/ p \in given \cup overwritten
    \/ \E r \in requests \cup {q.request : q \in replies} : r.prompt = p

\* The queue preview is what session_queue_state told, as long as no two queued
\* prompts are equal: typed twice, or sent again after the client gave one up.
PreviewFollowsQueue ==
  Cardinality(ToSet(typed)) = Len(typed) /\ (\A r \in expired : r.prompt = None)
    => preview = stated

\* What is on the screen is so: the overlay, the editor, the preview.
ScreenSound == OverlayIsLive /\ TypedTextKept /\ PreviewFollowsQueue

\* Clients render the queue preview from session_queue_state only.
PreviewIsQueueTruth == preview = stated

=============================================================================
