------------------------------ MODULE RpcClient ------------------------------
(***************************************************************************)
(* The terminal client's end of the RPC (internal/jaca/rpc/client.go).     *)
(* Manager starts a backend when a call needs one and drops it on Restart; *)
(* every call registers a waiter channel under its request id, writes its  *)
(* line and reads its channel; one goroutine per backend (dispatchLoop)    *)
(* looks the waiter of an envelope up under routeMu and sends to it after  *)
(* releasing the lock.                                                     *)
(*                                                                         *)
(* All request methods have one shape and are one call here: "unary" with  *)
(* a deadline in its context; "open", which has none (session.create,      *)
(* session.compact, session.name); or "stream" (run.start), which has none *)
(* either and puts its events into asyncCh until its answer.  The screen   *)
(* takes them from asyncCh one by one, and none behind an overlay.         *)
(* readLoop and the channel readResults are part of the pipe.              *)
(***************************************************************************)
EXTENDS Naturals, Sequences, FiniteSets

CONSTANTS
  MaxCalls,    \* bound: calls, numbered by their request ids
  MaxBackends, \* bound: backend processes started
  MaxEvents,   \* bound: events of a run.start
  Cap,         \* capacity of a waiter channel (32 in the code)
  Screen       \* events asyncCh holds, with the one its sender waits with (128 + 1)

Call == 1 .. MaxCalls
Backend == 1 .. MaxBackends
None == 0

VARIABLES
  manager,   \* Manager.client
  proc,      \* the process of each backend
  released,  \* backends a Restart has taken from the manager
  pipe,      \* envelopes the backend wrote and dispatchLoop has not taken
  waiters,   \* Client.waiters: ids in the table of each backend
  hand,      \* the envelope dispatchLoop is about to send, its waiter looked up
  terminal,  \* Client.terminalErr is set
  failing,   \* waiters failAllWaiters has still to end
  ending,    \* the one it is about to end
  call,      \* what each call is doing, and with which backend
  chan,      \* the waiter channel of each call
  work,      \* what the backend does for a request, with the events so far
  shown,     \* events of a stream in asyncCh, or on their way into it
  held,      \* streams whose screen is behind an overlay
  gaveUp,    \* calls that returned at their deadline
  panicked   \* a send on a closed channel has ended the client

routing == <<waiters, hand, terminal, failing, ending>>
screen == <<shown, held>>
cvars == <<manager, proc, released, pipe, routing, call, chan, work, screen, gaveUp, panicked>>

Kind == {"unary", "open", "stream"}
Answered == {"ok", "error"}
TypeOK ==
  /\ manager \in Backend \cup {None} /\ released \subseteq Backend
  /\ proc \in [Backend -> {"none", "up", "closing", "dead"}]
  /\ pipe \in [Backend -> Seq([id : Call, what : {"event", "answer"}])]
  /\ waiters \in [Backend -> SUBSET Call] /\ failing \in [Backend -> SUBSET Call]
  /\ hand \in [Backend -> [id : Call \cup {None}, what : {"none", "event", "answer"}]]
  /\ terminal \in [Backend -> BOOLEAN] /\ ending \in [Backend -> Call \cup {None}]
  /\ call \in [Call -> [at : {"new", "client", "registered", "awaiting"} \cup Answered,
                        kind : Kind, backend : Backend \cup {None}]]
  /\ chan \in [Call -> [open : BOOLEAN, items : Seq({"event", "answer", "failure"})]]
  /\ work \in [Call -> [at : {"none", "busy", "done"}, events : 0..MaxEvents]]
  /\ shown \in [Call -> 0..Screen] /\ held \subseteq Call
  /\ gaveUp \subseteq Call /\ panicked \in BOOLEAN

NoHand == [id |-> None, what |-> "none"]

Init ==
  /\ manager = None /\ released = {}
  /\ proc = [b \in Backend |-> "none"] /\ pipe = [b \in Backend |-> <<>>]
  /\ waiters = [b \in Backend |-> {}] /\ failing = waiters /\ ending = [b \in Backend |-> None]
  /\ hand = [b \in Backend |-> NoHand] /\ terminal = [b \in Backend |-> FALSE]
  /\ call = [i \in Call |-> [at |-> "new", kind |-> "unary", backend |-> None]]
  /\ chan = [i \in Call |-> [open |-> FALSE, items |-> <<>>]]
  /\ work = [i \in Call |-> [at |-> "none", events |-> 0]]
  /\ shown = [i \in Call |-> 0] /\ held = {}
  /\ gaveUp = {} /\ panicked = FALSE

-----------------------------------------------------------------------------
(* Manager.                                                                *)

\* m.streaming, and a session that is compacted or named: the program keeps the
\* calls without a deadline apart, and the screen leaves a run with its last event.
Streaming ==
  \E j \in Call : call[j].kind # "unary"
                 /\ (call[j].at \notin {"new"} \cup Answered \/ shown[j] > 0 \/ j \in held)

\* ensureStartedLocked: mu is held while the process starts, or fails to.
\* A backend that has died is kept until somebody restarts it.
Begin(i, kind) ==
  /\ ~panicked /\ call[i].at = "new" /\ \A j \in Call : j < i => call[j].at # "new"
  /\ kind # "unary" => ~Streaming
  /\ LET next == Cardinality({b \in Backend : proc[b] # "none"}) + 1 IN
     \/ /\ manager # None
        /\ call' = [call EXCEPT ![i] = [at |-> "client", kind |-> kind, backend |-> manager]]
        /\ UNCHANGED <<manager, proc>>
     \/ /\ manager = None /\ next \in Backend
        /\ \/ /\ manager' = next /\ proc' = [proc EXCEPT ![next] = "up"]
              /\ call' = [call EXCEPT ![i] = [at |-> "client", kind |-> kind, backend |-> next]]
           \/ /\ call' = [call EXCEPT ![i] = [at |-> "error", kind |-> kind, backend |-> None]]
              /\ UNCHANGED <<manager, proc>>
  /\ UNCHANGED <<released, pipe, routing, chan, work, screen, gaveUp, panicked>>

\* Restart, Shutdown and Interrupt: the lock is released before the process is
\* closed, so a call can start the next one meanwhile.
Restart ==
  /\ ~panicked /\ manager # None
  /\ manager' = None /\ released' = released \cup {manager}
  /\ UNCHANGED <<proc, pipe, routing, call, chan, work, screen, gaveUp, panicked>>

\* Client.Close and Client.Interrupt: end of input or a signal.
CloseBegins(b) ==
  /\ ~panicked /\ b \in released /\ proc[b] = "up"
  /\ proc' = [proc EXCEPT ![b] = "closing"]
  /\ UNCHANGED <<manager, released, pipe, routing, call, chan, work, screen, gaveUp, panicked>>

\* The process ends by itself or is killed; Wait closes the pipe with what is
\* unread in it.
CloseEnds(b) ==
  /\ proc[b] = "closing"
  /\ proc' = [proc EXCEPT ![b] = "dead"]
  /\ \E n \in 0..Len(pipe[b]) : pipe' = [pipe EXCEPT ![b] = SubSeq(@, 1, n)]
  /\ UNCHANGED <<manager, released, routing, call, chan, work, screen, gaveUp, panicked>>

-----------------------------------------------------------------------------
(* A call.                                                                 *)

Close(i) == [chan EXCEPT ![i].open = FALSE]

\* The deferred cleanup of registerWaiter: only a waiter still in the table is
\* closed; the others belong to failAllWaiters.
Return(i, answer) ==
  LET b == call[i].backend IN
  /\ call' = [call EXCEPT ![i].at = answer]
  /\ waiters' = [waiters EXCEPT ![b] = @ \ {i}]
  /\ chan' = IF i \in waiters[b] THEN Close(i) ELSE chan

Register(i) ==
  LET b == call[i].backend IN
  /\ ~panicked /\ call[i].at = "client"
  /\ IF terminal[b]
     THEN /\ call' = [call EXCEPT ![i].at = "error"]
          /\ UNCHANGED <<waiters, chan>>
     ELSE /\ call' = [call EXCEPT ![i].at = "registered"]
          /\ waiters' = [waiters EXCEPT ![b] = @ \cup {i}]
          /\ chan' = [chan EXCEPT ![i].open = TRUE]
  /\ UNCHANGED <<manager, proc, released, pipe, hand, terminal, failing, ending, work, screen, gaveUp, panicked>>

WriteRequest(i) ==
  /\ ~panicked /\ call[i].at = "registered"
  /\ IF proc[call[i].backend] = "up"
     THEN /\ call' = [call EXCEPT ![i].at = "awaiting"]
          /\ work' = [work EXCEPT ![i].at = "busy"]
          /\ UNCHANGED <<waiters, chan>>
     ELSE Return(i, "error") /\ UNCHANGED work
  /\ UNCHANGED <<manager, proc, released, pipe, hand, terminal, failing, ending, screen, gaveUp, panicked>>

\* Slip: a stream returns with the first event it is given.
ReceiveOnce(i) ==
  /\ ~panicked /\ call[i].at = "awaiting" /\ chan[i].items # <<>>
  /\ Return(i, IF Head(chan[i].items) = "failure" THEN "error" ELSE "ok")
  /\ UNCHANGED <<manager, proc, released, pipe, hand, terminal, failing, ending, work, screen, gaveUp, panicked>>

\* awaitEnvelope in the loop of StreamRun, or once.  The sink of StreamRun puts
\* an event into asyncCh, and nothing is received while it waits for room.
Receive(i) ==
  /\ ~panicked /\ call[i].at = "awaiting" /\ shown[i] < Screen
  /\ LET items == chan[i].items IN
     \/ /\ items # <<>> /\ Head(items) = "event"
        /\ chan' = [chan EXCEPT ![i].items = Tail(@)]
        /\ shown' = [shown EXCEPT ![i] = @ + 1] /\ UNCHANGED <<call, waiters>>
     \/ /\ items # <<>> /\ Head(items) = "answer" /\ Return(i, "ok") /\ UNCHANGED shown
     \/ /\ items # <<>> /\ Head(items) = "failure" /\ Return(i, "error") /\ UNCHANGED shown
     \/ /\ items = <<>> /\ ~chan[i].open /\ Return(i, "error") /\ UNCHANGED shown
  /\ UNCHANGED <<manager, proc, released, pipe, hand, terminal, failing, ending, work, held, gaveUp, panicked>>

calls == <<manager, proc, released, pipe, routing, call, chan, work, gaveUp, panicked>>

\* listenAsync takes an event; after one that opens an overlay nobody listens.
Listen(i) ==
  /\ ~panicked /\ i \notin held /\ shown[i] > 0
  /\ shown' = [shown EXCEPT ![i] = @ - 1]
  /\ held' \in {held, held \cup {i}}
  /\ UNCHANGED calls

\* The overlay is answered and the client listens again: see Tui.
AnswerOverlay(i) ==
  /\ ~panicked /\ i \in held /\ held' = held \ {i}
  /\ UNCHANGED <<calls, shown>>

\* The context's deadline.
GiveUp(i) ==
  /\ ~panicked /\ call[i].at = "awaiting" /\ call[i].kind = "unary"
  /\ Return(i, "error") /\ gaveUp' = gaveUp \cup {i}
  /\ UNCHANGED <<manager, proc, released, pipe, hand, terminal, failing, ending, work, screen, panicked>>

-----------------------------------------------------------------------------
(* The backend process.                                                    *)

Write(i, what) ==
  LET b == call[i].backend IN
  /\ work[i].at = "busy" /\ proc[b] \in {"up", "closing"} /\ ~terminal[b]
  /\ pipe' = [pipe EXCEPT ![b] = Append(@, [id |-> i, what |-> what])]
  /\ UNCHANGED <<manager, proc, released, routing, call, chan, screen, gaveUp, panicked>>

EmitEvent(i) ==
  /\ call[i].kind = "stream" /\ work[i].events < MaxEvents
  /\ Write(i, "event")
  /\ work' = [work EXCEPT ![i].events = @ + 1]

EmitAnswer(i) ==
  /\ Write(i, "answer")
  /\ work' = [work EXCEPT ![i].at = "done"]

Die(b) ==
  /\ proc[b] = "up"
  /\ proc' = [proc EXCEPT ![b] = "dead"]
  /\ UNCHANGED <<manager, released, pipe, routing, call, chan, work, screen, gaveUp, panicked>>

-----------------------------------------------------------------------------
(* dispatchLoop.                                                           *)

\* Without a waiter the envelope goes to pendingEnvelopes, where nobody looks
\* again: ids are not used twice.
Route(b) ==
  /\ ~panicked /\ ~terminal[b] /\ hand[b] = NoHand /\ pipe[b] # <<>>
  /\ pipe' = [pipe EXCEPT ![b] = Tail(@)]
  /\ hand' = [hand EXCEPT ![b] = IF Head(pipe[b]).id \in waiters[b] THEN Head(pipe[b]) ELSE NoHand]
  /\ UNCHANGED <<manager, proc, released, waiters, terminal, failing, ending, call, chan, work, screen, gaveUp, panicked>>

\* The send waits while the channel is full, and panics when it is closed.
Deliver(b) ==
  LET i == hand[b].id IN
  /\ ~panicked /\ hand[b] # NoHand
  /\ \/ /\ chan[i].open /\ Len(chan[i].items) < Cap
        /\ chan' = [chan EXCEPT ![i].items = Append(@, hand[b].what)]
        /\ hand' = [hand EXCEPT ![b] = NoHand] /\ UNCHANGED panicked
     \/ /\ ~chan[i].open
        /\ panicked' = TRUE /\ UNCHANGED <<chan, hand>>
  /\ UNCHANGED <<manager, proc, released, pipe, waiters, terminal, failing, ending, call, work, screen, gaveUp>>

\* Slip: a call that registers afterwards is not refused.
FailAllOnce(b) ==
  /\ ~panicked /\ proc[b] = "dead" /\ pipe[b] = <<>> /\ hand[b] = NoHand /\ ~terminal[b]
  /\ waiters[b] # {}
  /\ failing' = [failing EXCEPT ![b] = waiters[b]]
  /\ waiters' = [waiters EXCEPT ![b] = {}]
  /\ UNCHANGED <<manager, proc, released, pipe, hand, terminal, ending, call, chan, work, screen, gaveUp, panicked>>

\* failAllWaiters empties the table, and nothing is read any more; ...
End(b) ==
  /\ ~panicked /\ hand[b] = NoHand /\ ~terminal[b]
  /\ terminal' = [terminal EXCEPT ![b] = TRUE]
  /\ failing' = [failing EXCEPT ![b] = waiters[b]]
  /\ waiters' = [waiters EXCEPT ![b] = {}]
  /\ pipe' = [pipe EXCEPT ![b] = <<>>]
  /\ UNCHANGED <<manager, proc, released, hand, ending, call, chan, work, screen, gaveUp, panicked>>

\* The reader has reported the end of the output.
FailAll(b) == proc[b] = "dead" /\ pipe[b] = <<>> /\ End(b)

\* A line is too long, malformed or without an id, or cannot be read: the
\* process may well live on, with a client that takes no more calls.
Unreadable(b) == proc[b] # "none" /\ End(b)

\* ... then takes one waiter after the other, in any order, ...
FailNext(b, i) ==
  /\ ~panicked /\ ending[b] = None /\ i \in failing[b]
  /\ ending' = [ending EXCEPT ![b] = i]
  /\ UNCHANGED <<manager, proc, released, pipe, waiters, hand, terminal, failing, call, chan, work,
                 screen, gaveUp, panicked>>

\* ... and ends it as soon as there is room, whether its call still listens or not.
FailOne(b, i) ==
  /\ ~panicked /\ i \in failing[b] /\ ending[b] = i /\ Len(chan[i].items) < Cap
  /\ chan' = [chan EXCEPT ![i] = [open |-> FALSE, items |-> Append(@.items, "failure")]]
  /\ failing' = [failing EXCEPT ![b] = @ \ {i}] /\ ending' = [ending EXCEPT ![b] = None]
  /\ UNCHANGED <<manager, proc, released, pipe, waiters, hand, terminal, call, work, screen, gaveUp, panicked>>

-----------------------------------------------------------------------------

Next ==
  \/ Restart
  \/ \E i \in Call : \/ \E kind \in Kind : Begin(i, kind)
                     \/ Register(i) \/ WriteRequest(i) \/ Receive(i) \/ GiveUp(i)
                     \/ EmitEvent(i) \/ EmitAnswer(i) \/ Listen(i) \/ AnswerOverlay(i)
  \/ \E b \in Backend : \/ CloseBegins(b) \/ CloseEnds(b) \/ Die(b) \/ Route(b) \/ Deliver(b)
                        \/ FailAll(b) \/ Unreadable(b)
                        \/ \E i \in Call : FailNext(b, i) \/ FailOne(b, i)

\* The goroutines of calls and dispatchers run, deadlines pass, a closed process
\* is dead after its grace period, and the screen handles what it listens to.
\* The backend answers the requests without a deadline; of the others nothing is
\* assumed, nor of the user.  Each step below is taken finitely often within the
\* bounds, so that one condition serves all calls and backends.
Goroutines ==
  \/ \E i \in Call : Register(i) \/ WriteRequest(i) \/ Receive(i) \/ Listen(i)
  \/ \E b \in Backend : \/ Route(b) \/ Deliver(b) \/ FailAll(b)
                        \/ \E i \in Call : FailNext(b, i) \/ FailOne(b, i)
Clock == \/ \E i \in Call : GiveUp(i)
         \/ \E b \in Backend : CloseBegins(b) \/ CloseEnds(b)
Answer == \E i \in Call : call[i].kind # "unary" /\ EmitAnswer(i)

Fairness == WF_cvars(Goroutines) /\ WF_cvars(Clock) /\ WF_cvars(Answer)

Spec == Init /\ [][Next]_cvars /\ Fairness

-----------------------------------------------------------------------------
(* Properties.                                                             *)

\* dispatchLoop sends without the lock.  It can meet a channel its call has
\* closed only when that call ran into its deadline between look-up and send;
\* answers, restarts and deaths of backends never make the client panic.
SendsToOpenChannels == panicked => gaveUp # {}

\* Every call returns, whether its backend answers, dies, is restarted, becomes
\* unreadable, or has done so before the call began: again and again none is
\* under way.  Only a run.start waits for longer than the backend makes it, as
\* long as it is behind its own overlay; the calls whose answers it then keeps
\* from being routed end at their deadlines, and calls without one are never
\* among them.
CallsReturn ==
  []<>(panicked \/ \A i \in Call : \/ call[i].at \in {"new"} \cup Answered
                                   \/ call[i].kind = "stream" /\ i \in held)

=============================================================================
