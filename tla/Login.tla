------------------------------- MODULE Login -------------------------------
(***************************************************************************)
(* The OpenAI Codex login of the backend (rpc/handlers/auth.py,            *)
(* oauth_openai_codex.py, auth.py).  auth.login_openai_codex.start makes a *)
(* flow: its task listens on port 1455 for the browser's callback and ends *)
(* the flow's shared result.  ...wait blocks on that result; ...complete   *)
(* exchanges a pasted code itself.  Both exchange a code that the provider *)
(* accepts once, and both store credentials in oauth.json.                 *)
(*                                                                         *)
(* One backend.  Writing oauth.json may fail; its content is the flow      *)
(* whose credentials it holds.  Cancelling a task takes effect before      *)
(* another request is handled: it is delivered in the next turn of the     *)
(* event loop, and a new flow needs several turns before it listens.       *)
(***************************************************************************)
EXTENDS Naturals, FiniteSets

CONSTANTS
  MaxFlows,   \* bound: login flows
  Conn,       \* connections of browsers to the callback server
  MaxRequests \* bound: wait and complete requests

Flow == 1 .. MaxFlows        \* numbered in the order of their start
Request == 1 .. MaxRequests
NoFlow == 0

VARIABLES
  table,      \* openai_codex_login_flows
  old,        \* flows older than _LOGIN_FLOW_TTL_SECONDS
  task,       \* _drive_login_result with its callback server, per flow
  outcome,    \* what wait_for_openai_codex_callback will return or raise
  result,     \* the shared future of each flow
  conn,       \* connections: their flow and how far they are
  req,        \* requests: their flow and how far they are
  spent,      \* flows whose code the provider has accepted
  store,      \* whose credentials oauth.json holds
  saved       \* history: flows whose credentials were ever stored

flows == <<table, old, task, outcome, result>>
vars  == <<flows, conn, req, spent, store, saved>>

Exchange == {"sent", "granted", "refused"}

TypeOK ==
  /\ table \subseteq Flow /\ Cardinality(table) <= 1 /\ old \subseteq Flow
  /\ task \in [Flow -> {"none", "starting", "listening", "closing", "done"}]
  /\ outcome \in [Flow -> {"none", "credentials", "error", "cancelled"}]
  /\ result \in [Flow -> {"none", "pending", "ok", "failed"}]
  /\ conn \in [Conn -> [flow : Flow \cup {NoFlow}, at : {"none", "idle", "closed"} \cup Exchange]]
  /\ req \in [Request -> [flow : Flow \cup {NoFlow}, op : {"none", "wait", "complete"},
                          at : {"new", "waiting", "ok", "error"} \cup Exchange]]
  /\ spent \subseteq Flow /\ store \in Flow \cup {NoFlow} /\ saved \subseteq Flow

Init ==
  /\ table = {} /\ old = {} /\ spent = {} /\ saved = {} /\ store = NoFlow
  /\ task = [f \in Flow |-> "none"] /\ outcome = task /\ result = task
  /\ conn = [c \in Conn |-> [flow |-> NoFlow, at |-> "none"]]
  /\ req = [r \in Request |-> [flow |-> NoFlow, op |-> "none", at |-> "new"]]

-----------------------------------------------------------------------------
(* What requests share.                                                    *)

\* _cancel_login_flow_task: the callback server is closed, its outcome lost.
Running(f) == task[f] \in {"starting", "listening", "closing"}
Stopped(fs) ==
  [f \in Flow |-> IF f \notin fs \/ ~Running(f) THEN task[f]
                  ELSE IF task[f] = "listening" THEN "closing" ELSE "done"]
Lost(fs) == [f \in Flow |-> IF f \in fs /\ Running(f) THEN "cancelled" ELSE outcome[f]]

\* _fail_login_result.
Failed(fs) ==
  [f \in Flow |-> IF f \in fs /\ result[f] = "pending" THEN "failed" ELSE result[f]]

\* _prune_stale_login_flows, on every request line.
Stale == table \cap old
Prune == task' = Stopped(Stale) /\ outcome' = Lost(Stale) /\ result' = Failed(Stale)

Save(f) == store' = f /\ saved' = saved \cup {f}

New(r) == req[r].at = "new" /\ \A s \in Request : s < r => req[s].at # "new"
AnswerReq(r, answer) == req' = [req EXCEPT ![r].at = answer]

-----------------------------------------------------------------------------
(* auth.login_openai_codex.*                                               *)

\* Slip: the tasks of earlier flows go on.
StartBeside(f) ==
  /\ result[f] = "none" /\ \A g \in Flow : g < f => result[g] # "none"
  /\ table' = {f}
  /\ task' = [task EXCEPT ![f] = "starting"] /\ UNCHANGED outcome
  /\ result' = [Failed(table) EXCEPT ![f] = "pending"]
  /\ UNCHANGED <<old, conn, req, spent, store, saved>>

\* A new flow cancels and fails every earlier one, the stale ones with them.
Start(f) ==
  /\ result[f] = "none" /\ \A g \in Flow : g < f => result[g] # "none"
  /\ table' = {f}
  /\ task' = [Stopped(table) EXCEPT ![f] = "starting"] /\ outcome' = Lost(table)
  /\ result' = [Failed(table) EXCEPT ![f] = "pending"]
  /\ UNCHANGED <<old, conn, req, spent, store, saved>>

\* An unknown flow is answered by the status of the stored credentials.
Wait(r, f) ==
  /\ New(r) /\ result[f] # "none"
  /\ Prune /\ table' = table \ Stale
  /\ req' = [req EXCEPT ![r] = [flow |-> f, op |-> "wait",
               at |-> IF f \in table \ Stale THEN "waiting"
                      ELSE IF store # NoFlow THEN "ok" ELSE "error"]]
  /\ UNCHANGED <<old, conn, spent, store, saved>>

\* The shared result is there: the flow is removed, failed or not.
WaitEnds(r) ==
  /\ req[r].at = "waiting" /\ result[req[r].flow] \in {"ok", "failed"}
  /\ AnswerReq(r, IF result[req[r].flow] = "ok" THEN "ok" ELSE "error")
  /\ table' = table \ {req[r].flow}
  /\ UNCHANGED <<old, task, outcome, result, conn, spent, store, saved>>

\* A pasted code, or something finish_openai_codex_login refuses by itself.
Complete(r, f) ==
  /\ New(r) /\ result[f] # "none"
  /\ Prune /\ table' = table \ Stale
  /\ \E at \in {"sent", "error"} :
       /\ f \notin table \ Stale => at = "error"
       /\ req' = [req EXCEPT ![r] = [flow |-> f, op |-> "complete", at |-> at]]
  /\ UNCHANGED <<old, conn, spent, store, saved>>

\* The exchange is answered.  Credentials are stored before the flow is looked
\* up again: by then a wait, a newer flow or its age may have removed it.
CompleteEnds(r) ==
  LET f == req[r].flow IN
  /\ req[r].op = "complete" /\ req[r].at \in {"granted", "refused"}
  /\ \/ /\ req[r].at = "granted"
        /\ Save(f) /\ AnswerReq(r, "ok")
        /\ table' = table \ {f}
        /\ task' = Stopped({f} \cap table) /\ outcome' = Lost({f} \cap table)
        /\ result' = [result EXCEPT ![f] = IF f \in table /\ @ = "pending" THEN "ok" ELSE @]
     \/ /\ AnswerReq(r, "error")          \* refused, or oauth.json not written
        /\ UNCHANGED <<table, task, outcome, result, store, saved>>
  /\ UNCHANGED <<old, conn, spent>>

-----------------------------------------------------------------------------
(* The flow's task: wait_for_openai_codex_callback.                        *)

\* The port is another program's, or it is listened on.
Listen(f) ==
  /\ task[f] = "starting"
  /\ \/ task' = [task EXCEPT ![f] = "listening"] /\ UNCHANGED result
     \/ task' = [task EXCEPT ![f] = "done"] /\ result' = Failed({f})
  /\ UNCHANGED <<table, old, outcome, conn, req, spent, store, saved>>

\* 300 seconds without a callback.
Timeout(f) ==
  /\ task[f] = "listening"
  /\ task' = [task EXCEPT ![f] = "closing"] /\ outcome' = [outcome EXCEPT ![f] = "error"]
  /\ UNCHANGED <<table, old, result, conn, req, spent, store, saved>>

\* Slip: a failed write is not noticed.
ClosedUnsaved(f) ==
  /\ task[f] = "closing"
  /\ \A c \in Conn : conn[c].flow = f => conn[c].at = "closed"
  /\ task' = [task EXCEPT ![f] = "done"]
  /\ \/ /\ outcome[f] = "credentials"
        /\ Save(f) \/ UNCHANGED <<store, saved>>
        /\ result' = [result EXCEPT ![f] = IF @ = "pending" THEN "ok" ELSE @]
     \/ /\ outcome[f] = "error"
        /\ result' = Failed({f}) /\ UNCHANGED <<store, saved>>
     \/ /\ outcome[f] = "cancelled"
        /\ UNCHANGED <<result, store, saved>>
  /\ UNCHANGED <<table, old, outcome, conn, req, spent>>

\* wait_closed returns when no connection is left; then the credentials are
\* stored and the shared result is ended, unless it was ended before.
Closed(f) ==
  /\ task[f] = "closing"
  /\ \A c \in Conn : conn[c].flow = f => conn[c].at = "closed"
  /\ task' = [task EXCEPT ![f] = "done"]
  /\ \/ /\ outcome[f] = "credentials"
        /\ Save(f)
        /\ result' = [result EXCEPT ![f] = IF @ = "pending" THEN "ok" ELSE @]
     \/ /\ outcome[f] \in {"credentials", "error"}   \* an error, or not written
        /\ result' = Failed({f}) /\ UNCHANGED <<store, saved>>
     \/ /\ outcome[f] = "cancelled"
        /\ UNCHANGED <<result, store, saved>>
  /\ UNCHANGED <<table, old, outcome, conn, req, spent>>

\* Fifteen minutes: longer than the timeout of the callback.
GrowOld(f) ==
  /\ f \notin old /\ task[f] \in {"closing", "done"}
  /\ old' = old \cup {f}
  /\ UNCHANGED <<table, task, outcome, result, conn, req, spent, store, saved>>

-----------------------------------------------------------------------------
(* _handle_client, and the browser and provider it talks to.               *)

Connect(c, f) ==
  /\ conn[c].at = "none" /\ task[f] = "listening"
  /\ conn' = [conn EXCEPT ![c] = [flow |-> f, at |-> "idle"]]
  /\ UNCHANGED <<flows, req, spent, store, saved>>

\* The redirect with code and state.
Callback(c) ==
  /\ conn[c].at = "idle"
  /\ conn' = [conn EXCEPT ![c].at = "sent"]
  /\ UNCHANGED <<flows, req, spent, store, saved>>

\* Anything else is answered with an error page, or the browser hangs up; a
\* reset, a line that is too long or a page that cannot be written ends the
\* flow, when it still waits.
BrowserCloses(c) ==
  LET f == conn[c].flow IN
  /\ conn[c].at = "idle"
  /\ conn' = [conn EXCEPT ![c].at = "closed"]
  /\ \/ UNCHANGED <<task, outcome>>
     \/ /\ task[f] = "listening" /\ task' = [task EXCEPT ![f] = "closing"]
        /\ outcome' = [outcome EXCEPT ![f] = "error"]
  /\ UNCHANGED <<table, old, result, req, spent, store, saved>>

\* The first connection with an outcome ends the wait; later ones are ignored.
CallbackEnds(c) ==
  LET f == conn[c].flow IN
  /\ conn[c].at \in {"granted", "refused"}
  /\ conn' = [conn EXCEPT ![c].at = "closed"]
  /\ IF task[f] = "listening"
     THEN /\ task' = [task EXCEPT ![f] = "closing"]
          /\ outcome' = [outcome EXCEPT ![f] = IF conn[c].at = "granted"
                                               THEN "credentials" ELSE "error"]
     ELSE UNCHANGED <<task, outcome>>
  /\ UNCHANGED <<table, old, result, req, spent, store, saved>>

\* A code is good once; a refusal can also be a lost reply.
Verdicts(f) ==
  {v \in [at : {"granted", "refused"}, spent : {spent, spent \cup {f}}] :
     v.at = "granted" => f \notin spent /\ v.spent = spent \cup {f}}

ProviderAnswers ==
  /\ \/ \E c \in Conn : /\ conn[c].at = "sent" /\ UNCHANGED req
                        /\ \E v \in Verdicts(conn[c].flow) :
                             conn' = [conn EXCEPT ![c].at = v.at] /\ spent' = v.spent
     \/ \E r \in Request : /\ req[r].at = "sent" /\ UNCHANGED conn
                           /\ \E v \in Verdicts(req[r].flow) :
                                req' = [req EXCEPT ![r].at = v.at] /\ spent' = v.spent
  /\ UNCHANGED <<flows, store, saved>>

-----------------------------------------------------------------------------

Next ==
  \/ \E f \in Flow : Start(f) \/ Listen(f) \/ Timeout(f) \/ Closed(f) \/ GrowOld(f)
  \/ \E r \in Request : \/ WaitEnds(r) \/ CompleteEnds(r)
                        \/ \E f \in Flow : Wait(r, f) \/ Complete(r, f)
  \/ \E c \in Conn : \/ Callback(c) \/ BrowserCloses(c) \/ CallbackEnds(c)
                     \/ \E f \in Flow : Connect(c, f)
  \/ ProviderAnswers

\* Tasks run, timers fire, the provider answers or the 30 seconds of its HTTP
\* client pass; a browser does not keep an idle connection for ever.
Fairness ==
  /\ \A f \in Flow : WF_vars(Listen(f)) /\ WF_vars(Timeout(f)) /\ WF_vars(Closed(f))
  /\ \A r \in Request : WF_vars(WaitEnds(r)) /\ WF_vars(CompleteEnds(r))
  /\ \A c \in Conn : WF_vars(BrowserCloses(c)) /\ WF_vars(CallbackEnds(c))
  /\ WF_vars(ProviderAnswers)

Spec == Init /\ [][Next]_vars /\ Fairness

-----------------------------------------------------------------------------
(* Properties.                                                             *)

\* Who is told that the login succeeded finds credentials stored: the result of
\* a flow and the answer to complete only after that flow's own were written.
LoginIsStored ==
  /\ \A f \in Flow : result[f] = "ok" => f \in saved
  /\ \A r \in Request : req[r].at = "ok" =>
       IF req[r].op = "complete" THEN req[r].flow \in saved ELSE saved # {}

\* When a browser's callback is the first to store credentials of its flow, the
\* table still has the flow and nothing has ended its result; a manual completion
\* may store those of a flow that was replaced or has failed.
CallbackIsCurrent ==
  [][\A f \in Flow : f \in saved' \ saved /\ task[f] = "closing" /\ task'[f] = "done"
                       /\ outcome[f] = "credentials" /\ req' = req
       => f \in table /\ result[f] = "pending"]_vars

\* A wait is answered: by the callback, its timeout, a manual completion, or
\* the flow that replaces it.
WaitersAnswered ==
  \A r \in Request : req[r].at = "waiting" ~> req[r].at \in {"ok", "error"}

\* Each login ends once: the newest flow's callback, or a refusal, is what the
\* waiting client hears.
LoginsEnd == CallbackIsCurrent /\ WaitersAnswered

\* Manual completion and the browser callback resolve the same canonical login
\* result: a login that complete reports as done is not a failed one for wait.
SameLoginResult ==
  \A r \in Request :
    req[r].op = "complete" /\ req[r].at = "ok" => result[req[r].flow] = "ok"

=============================================================================
