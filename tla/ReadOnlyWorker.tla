--------------------------- MODULE ReadOnlyWorker ---------------------------
(***************************************************************************)
(* The read-only worker: one helper process that carries out the read, ls, *)
(* find and grep calls of a run, and the client in the backend that sends  *)
(* them over its pipes and routes each answer by its request id.           *)
(*                                                                         *)
(* The calls of a run share the client.  A call whose caller is cancelled  *)
(* leaves its future behind in the table of pending requests: the client   *)
(* takes the answer that comes for it as a protocol error, as it does one  *)
(* that it cannot read, and after that it answers nobody.  A process that  *)
(* dies while nothing is in flight sets no such error; the next request    *)
(* finds the pipe closed.                                                  *)
(***************************************************************************)
EXTENDS Naturals, Sequences, FiniteSets

CONSTANTS
  Call,        \* tool calls of the run, also the ids of their requests
  MaxClients,  \* workers the runtime starts
  MaxDeaths    \* workers that die by themselves

VARIABLES
  stage,    \* call -> "idle", "ensure", "start", "send", "sent", "answered", "raised", "cancelled"
  via,      \* call -> the client it uses, or None
  starter,  \* the call that holds the runtime's lock, or None
  current,  \* the client the runtime keeps (_client), or None
  client,   \* client -> [used, alive, fatal, ready, pending, in, working, out, reading]
  refused,  \* clients that got an answer they do not accept (history)
  deaths

vars == <<stage, via, starter, current, client, refused, deaths>>

Clients == 1..MaxClients
None == 0
NoCall == "none"

Unused == [used |-> FALSE, alive |-> FALSE, fatal |-> FALSE, ready |-> FALSE, pending |-> {},
           in |-> <<>>, working |-> {}, out |-> <<>>, reading |-> FALSE]
Fresh == [Unused EXCEPT !.used = TRUE, !.alive = TRUE, !.reading = TRUE]

Init ==
  /\ stage = [c \in Call |-> "idle"] /\ via = [c \in Call |-> None]
  /\ starter = NoCall /\ current = None
  /\ client = [w \in Clients |-> Unused]
  /\ refused = {} /\ deaths = 0

Finished == {"answered", "raised", "cancelled"}

\* The client fails every request that waits and is not usable any more.
FailPending(w) ==
  /\ client' = [client EXCEPT ![w].fatal = TRUE, ![w].pending = {}, ![w].reading = FALSE]
  /\ stage' = [c \in Call |->
       IF c \in client[w].pending /\ stage[c] = "sent" THEN "raised" ELSE stage[c]]

-----------------------------------------------------------------------------
\* The runtime: one call at a time looks for the client and starts one

Begin(c) ==
  /\ stage[c] = "idle" /\ stage' = [stage EXCEPT ![c] = "ensure"]
  /\ UNCHANGED <<via, starter, current, client, refused, deaths>>

EnsureClient(c) ==
  /\ stage[c] = "ensure" /\ starter = NoCall
  /\ \/ /\ current # None
        /\ via' = [via EXCEPT ![c] = current] /\ stage' = [stage EXCEPT ![c] = "send"]
        /\ UNCHANGED <<starter, client>>
     \/ /\ current = None
        /\ \E w \in Clients :
             /\ ~client[w].used /\ \A v \in 1..(w - 1) : client[v].used
             /\ client' = [client EXCEPT ![w] = Fresh]
             /\ via' = [via EXCEPT ![c] = w]
        /\ starter' = c /\ stage' = [stage EXCEPT ![c] = "start"]
     \/ /\ current = None  \* the binary is missing
        /\ stage' = [stage EXCEPT ![c] = "raised"] /\ UNCHANGED <<via, starter, client>>
  /\ UNCHANGED <<current, refused, deaths>>

\* The worker's hello arrives, or it dies first and the start is undone.
Hello(c) ==
  LET w == via[c] IN
  /\ stage[c] = "start"
  /\ IF client[w].alive
     THEN /\ client' = [client EXCEPT ![w].ready = TRUE]
          /\ current' = w /\ stage' = [stage EXCEPT ![c] = "send"]
     ELSE /\ client' = [client EXCEPT ![w].reading = FALSE]
          /\ stage' = [stage EXCEPT ![c] = "raised"] /\ UNCHANGED current
  /\ starter' = NoCall
  /\ UNCHANGED <<via, refused, deaths>>

\* The request is written, unless the client is past use or the pipe closed.
Send(c) ==
  LET w == via[c] IN
  /\ stage[c] = "send"
  /\ IF client[w].fatal
     THEN stage' = [stage EXCEPT ![c] = "raised"] /\ UNCHANGED client
     ELSE IF client[w].alive
     THEN /\ client' = [client EXCEPT ![w].pending = @ \cup {c}, ![w].in = Append(@, c)]
          /\ stage' = [stage EXCEPT ![c] = "sent"]
     ELSE /\ client' = [client EXCEPT ![w].pending = @ \cup {c}]
          /\ stage' = [stage EXCEPT ![c] = "raised"]
  /\ UNCHANGED <<via, starter, current, refused, deaths>>

\* The caller is cancelled, in any of its awaits; a worker that is being
\* started is left to itself.
Cancel(c) ==
  /\ stage[c] \in {"ensure", "start", "sent"}
  /\ stage' = [stage EXCEPT ![c] = "cancelled"]
  /\ starter' = IF starter = c THEN NoCall ELSE starter
  /\ UNCHANGED <<via, current, client, refused, deaths>>

-----------------------------------------------------------------------------
\* The client's reader

\* An answer goes to the request that waits for it.  One for a request that does
\* not, or any that is over 16 MiB or does not parse, ends the reading.
ReadAnswer(w) ==
  LET c == Head(client[w].out) IN
  /\ client[w].reading /\ client[w].out # <<>>
  /\ \/ /\ c \in client[w].pending /\ stage[c] = "sent"
        /\ client' = [client EXCEPT ![w].out = Tail(@), ![w].pending = @ \ {c}]
        /\ stage' = [stage EXCEPT ![c] = "answered"] /\ UNCHANGED refused
     \/ FailPending(w) /\ refused' = refused \cup {w}
  /\ UNCHANGED <<via, starter, current, deaths>>

\* Slip: the reader just ends, with requests in flight too.
ReadEndQuietly(w) ==
  /\ client[w].reading /\ client[w].ready
  /\ ~client[w].alive /\ client[w].out = <<>>
  /\ client' = [client EXCEPT ![w].reading = FALSE]
  /\ UNCHANGED <<stage, via, starter, current, refused, deaths>>

\* End of the worker's output: the requests in flight are failed; without
\* any the reader just ends.
ReadEnd(w) ==
  /\ client[w].reading /\ client[w].ready
  /\ ~client[w].alive /\ client[w].out = <<>>
  /\ IF client[w].pending = {}
     THEN client' = [client EXCEPT ![w].reading = FALSE] /\ UNCHANGED stage
     ELSE FailPending(w)
  /\ UNCHANGED <<via, starter, current, refused, deaths>>

-----------------------------------------------------------------------------
\* The worker process: requests are read in order, carried out side by side

Take(w) ==
  /\ client[w].alive /\ client[w].in # <<>>
  /\ client' = [client EXCEPT ![w].in = Tail(@), ![w].working = @ \cup {Head(client[w].in)}]
  /\ UNCHANGED <<stage, via, starter, current, refused, deaths>>

Answer(w, c) ==
  /\ client[w].alive /\ c \in client[w].working
  /\ client' = [client EXCEPT ![w].working = @ \ {c}, ![w].out = Append(@, c)]
  /\ UNCHANGED <<stage, via, starter, current, refused, deaths>>

Die(w) ==
  /\ client[w].alive /\ deaths < MaxDeaths
  /\ deaths' = deaths + 1
  /\ client' = [client EXCEPT ![w].alive = FALSE]
  /\ UNCHANGED <<stage, via, starter, current, refused>>

-----------------------------------------------------------------------------
Steps(c) == EnsureClient(c) \/ Hello(c) \/ Send(c)
Serves(w) == ReadAnswer(w) \/ ReadEnd(w) \/ Take(w) \/ \E c \in Call : Answer(w, c)

Next ==
  \/ \E c \in Call : Begin(c) \/ Steps(c) \/ Cancel(c)
  \/ \E w \in Clients : Serves(w) \/ Die(w)

\* The backend's tasks and the worker go on; every operation ends.
Fairness ==
  /\ \A c \in Call : SF_vars(EnsureClient(c)) /\ WF_vars(Hello(c)) /\ WF_vars(Send(c))
  /\ \A w \in Clients : WF_vars(ReadAnswer(w)) /\ WF_vars(ReadEnd(w)) /\ WF_vars(Take(w))
                          /\ \A c \in Call : WF_vars(Answer(w, c))

Spec == Init /\ [][Next]_vars /\ Fairness

-----------------------------------------------------------------------------
(* Every call that is not cancelled gets its answer or an error: the       *)
(* worker may die, in flight or idle, and answers may come in any order.   *)
CallsEnd == \A c \in Call : stage[c] \notin {"idle"} \cup Finished ~> stage[c] \in Finished

(* A call fails only for a reason of its worker's: it died, its binary is  *)
(* missing, or it gave an answer that is for nobody or cannot be read.     *)
RaisesHaveCause ==
  \A c \in Call : stage[c] = "raised" /\ via[c] # None =>
    ~client[via[c]].alive \/ via[c] \in refused

(* Calls end, and a failure is never of the client's own making.           *)
CallsEndForCause == CallsEnd /\ []RaisesHaveCause

(* docs/read-only-worker.md:151-153: an abandoned request is cancelled in  *)
(* the worker, and only a worker that will not end it is given up.         *)
(* Refuted: nothing cancels it, and its answer ends the client while the   *)
(* worker is well, so every later read of the run fails.                   *)
AbandonedSparesOthers ==
  \A c \in Call : stage[c] = "raised" /\ via[c] # None => ~client[via[c]].alive
=============================================================================
