----------------------------- MODULE EventRules -----------------------------
(***************************************************************************)
(* The streamed-run contract: the events of one run, and the rules the     *)
(* session appender checks each of them by before it writes it             *)
(* (session/jsonl.py).  run_started, always the first event, is left out.  *)
(***************************************************************************)
EXTENDS Integers, FiniteSetsExt, SequencesExt

CONSTANT Call   \* tool calls; a model never uses a tool_call_id twice

Resolution == {"succeeded", "failed"}
Terminal   == {"run_succeeded", "run_failed"}

Event == [kind : {"started", "updated"} \cup Resolution, call : Call]
           \cup [kind : Terminal]

On(kind, call) == [kind |-> kind, call |-> call]
Over(kind)     == [kind |-> kind]

\* synthesize_tool_failed_events_for_pending
FailAll(calls) == LET order == SetToSeq(calls)
                  IN  [i \in DOMAIN order |-> On("failed", order[i])]

\* The stream has its terminal event.
Closed(events) == events # <<>> /\ Last(events).kind \in Terminal

\* _validate_run_event_incremental: whether the event may follow the log, when
\* the calls in "open" are started and not resolved ...
Accepts(open, log, e) ==
  /\ ~Closed(log)
  /\ CASE e.kind \in Terminal -> open = {}
       [] e.kind = "started"  -> e.call \notin open
       [] OTHER               -> e.call \in open

\* ... and which calls are open after the first n of some events.
Starts(e, c)   == e.kind = "started" /\ e.call = c
Resolves(e, c) == e.kind \in Resolution /\ e.call = c
OpenAfter(open, events, n) ==
  {c \in Call : \/ c \in open /\ \A i \in 1 .. n : ~Resolves(events[i], c)
               \/ \E i \in 1 .. n : /\ Starts(events[i], c)
                                   /\ \A j \in i .. n : ~Resolves(events[j], c)}

\* Events are appended one by one; the first one refused ends the appending.
Refused(open, log, events) ==
  {i \in DOMAIN events :
     ~Accepts(OpenAfter(open, events, i - 1), log \o SubSeq(events, 1, i - 1), events[i])}
Feed(open, log, events) ==
  LET refused == Refused(open, log, events)
      n == IF refused = {} THEN Len(events) ELSE Min(refused) - 1
  IN  [ok |-> refused = {}, open |-> OpenAfter(open, events, n), log |-> log \o SubSeq(events, 1, n)]

\* The contract itself, stated over a whole stream: an update or a resolution
\* belongs to a call that started before and has no resolution yet, a call
\* starts once, and the terminal event is the last one and leaves no call open.
Sound(events) ==
  LET at(i)         == events[i]
      before(i, kinds, call) ==
        {j \in 1 .. i - 1 : at(j).kind \in kinds /\ at(j).call = call}
  IN  \A i \in DOMAIN events :
        CASE at(i).kind \in Terminal ->
               /\ i = Len(events)
               /\ \A j \in 1 .. i - 1 : at(j).kind = "started"
                    => \E k \in j .. i - 1 : /\ at(k).kind \in Resolution
                                             /\ at(k).call = at(j).call
          [] at(i).kind = "started" -> before(i, {"started"}, at(i).call) = {}
          [] OTHER -> /\ before(i, {"started"}, at(i).call) # {}
                      /\ before(i, Resolution, at(i).call) = {}
=============================================================================
