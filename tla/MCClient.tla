------------------------------ MODULE MCClient -------------------------------
(***************************************************************************)
(* Three parts of the terminal client, each explored alone from its own    *)
(* initial states: a behaviour moves one part and leaves the other two as  *)
(* they began.                                                             *)
(***************************************************************************)
EXTENDS Naturals, Sequences, FiniteSets

CONSTANTS
  MaxCalls, MaxBackends, MaxEvents, Cap, Screen,
  Text, MaxTyped, MaxAsks, MaxKeys, MaxLate, MaxRuns, Resumed,
  MaxFlows, MaxTexts, MaxRestarts

VARIABLES
  part,
  manager, proc, released, pipe, waiters, hand, terminal, failing, ending, call,
  chan, work, shown, held, gaveUp, panicked,
  streaming, session, approval, question, paused, listeners, taken, draft, preview, ch,
  requests, replies, run, asking, queue, typed, asks, keys, runs, emitted, handled,
  stated, orphaned, expired, given, overwritten,
  login, editor, busy, selected, texts, calls, answers, flow, restarts

rpc == <<manager, proc, released, pipe, waiters, hand, terminal, failing, ending, call,
         chan, work, shown, held, gaveUp, panicked>>
tui == <<streaming, session, approval, question, paused, listeners, taken, draft, preview, ch,
         requests, replies, run, asking, queue, typed, asks, keys, runs, emitted, handled,
         stated, orphaned, expired, given, overwritten>>
log_in == <<login, editor, busy, selected, texts, calls, answers, flow, restarts>>
vars == <<part, rpc, tui, log_in>>

C == INSTANCE RpcClient
T == INSTANCE Tui
L == INSTANCE ClientLogin WITH draft <- editor, streaming <- busy, typed <- texts, MaxTyped <- MaxTexts

Init == /\ part \in {"rpc", "tui", "login"}
        /\ C!Init /\ T!Init /\ L!Init
        /\ part # "login" => selected = FALSE

(* Bounds on what is explored together.  One run.start has events; it opens an *)
(* overlay, or has more than one, and a process outlives its client, only      *)
(* while there is one backend.  A request is given up only in the first run,   *)
(* of two texts and questions.  What fairness makes happen keeps within them.  *)
FewEvents ==
  /\ \A i, j \in C!Call : i # j => 0 \in {work[i].events, work[j].events}
  /\ \/ /\ held = {} /\ \A i \in C!Call : work[i].events <= 1
        /\ \A b \in C!Backend : terminal[b] => proc[b] = "dead"
     \/ \A b \in C!Backend \ {1} : proc[b] = "none"
FewLate == expired = {} \/ (runs <= 1 /\ asks + Len(typed) <= 2)

Next ==
  \/ part = "rpc" /\ C!Next /\ FewEvents' /\ UNCHANGED <<part, tui, log_in>>
  \/ part = "tui" /\ T!Next /\ FewLate' /\ UNCHANGED <<part, rpc, log_in>>
  \/ part = "login" /\ L!Next /\ UNCHANGED <<part, rpc, tui>>

Spec == Init /\ [][Next]_vars /\ C!Fairness /\ T!Fairness

\* No result is sent on a closed channel without an expired deadline (rpc/client.go).
SendsToOpenChannels == C!SendsToOpenChannels
\* Every call returns (rpc/client.go).
CallsReturn == C!CallsReturn
\* Overlay, editor and preview follow the backend and the user (app/model.go).
ScreenSound == T!ScreenSound
\* A run's events are handled in order (app/model.go, listenAsync).
EventsInOrder == T!EventsInOrder
\* The screen leaves a run that has ended (app/model.go).
ClientReturns == T!ClientReturns
\* The restart after a login meets no run (app/model.go, finishLoginSuccess).
RestartSparesRuns == L!RestartSparesRuns
=============================================================================
