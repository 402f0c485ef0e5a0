----------------------------- MODULE ClientLogin -----------------------------
(***************************************************************************)
(* The ChatGPT login as the terminal client sees it (internal/jaca/app:    *)
(* login.go, the login messages of Update, finishLoginSuccess, and the     *)
(* prompts and commands that start a login).  A prompt that needs a login  *)
(* is stashed in the login state; while there is a login state the prompt  *)
(* editor takes nothing but /login and the code of the browser.  A login   *)
(* that ends well selects its model and restarts the backend.              *)
(*                                                                         *)
(* Start, complete and wait are requests in goroutines of their own; their *)
(* replies reach Update in any order.  The backend is external: it does    *)
(* what Login says, with one current flow per process.                     *)
(***************************************************************************)
EXTENDS Naturals, FiniteSets

CONSTANTS
  MaxFlows,    \* bound: login flows the backend starts
  MaxTyped,    \* bound: texts typed
  MaxRestarts  \* bound: backend restarts

None == 0
Flow == 1 .. MaxFlows
Typed == 1 .. MaxTyped

VARIABLES
  login,      \* loginState; "started" stands for a Provider that is set
  draft,      \* the text in the prompt editor
  streaming,
  selected,   \* options.Model needs a ChatGPT login
  typed,
  calls,      \* requests the backend has
  answers,    \* replies on their way to Update
  flow,       \* the flows of the backend
  restarts

lvars == <<login, draft, streaming, selected, typed, calls, answers, flow, restarts>>

Idle == [started |-> FALSE, waiting |-> FALSE, flow |-> None, model |-> FALSE, prompt |-> None]
Call == [what : {"start"}, flow : {None}] \cup [what : {"complete", "wait"}, flow : Flow]

TypeOK ==
  /\ login \in [started : BOOLEAN, waiting : BOOLEAN, flow : Flow \cup {None},
                model : BOOLEAN, prompt : Typed \cup {None}]
  /\ draft \in Typed \cup {None} /\ typed \in 0..MaxTyped
  /\ streaming \in BOOLEAN /\ selected \in BOOLEAN
  /\ calls \subseteq Call
  /\ \A a \in answers : a.flow \in Flow \cup {None} /\ a.ok \in BOOLEAN
  /\ flow \in [Flow -> {"none", "pending", "stored", "failed"}]
  /\ restarts \in 0..MaxRestarts

Init ==
  /\ login = Idle /\ draft = None /\ streaming = FALSE /\ selected \in BOOLEAN
  /\ typed = 0 /\ calls = {} /\ answers = {}
  /\ flow = [f \in Flow |-> "none"] /\ restarts = 0

-----------------------------------------------------------------------------
(* The client's keys.                                                      *)

\* waitingOAuthLoginBlocksInput; the fourth of its conditions, Active, is
\* never made true.
Blocked == login.started \/ login.waiting \/ login.flow # None

LoggedIn == \E f \in Flow : flow[f] = "stored"

\* startOpenAICodexLoginFlow: whatever the login state held is replaced.
StartFlow(model, prompt) ==
  /\ login' = [Idle EXCEPT !.started = TRUE, !.model = model, !.prompt = prompt]
  /\ draft' = None
  /\ calls' = calls \cup {[what |-> "start", flow |-> None]}

Type ==
  /\ draft = None /\ typed < MaxTyped
  /\ typed' = typed + 1 /\ draft' = typed + 1
  /\ UNCHANGED <<login, streaming, selected, calls, answers, flow, restarts>>

\* Slip: input is blocked once the browser has been opened.
EnterEarly ==
  /\ draft # None /\ ~streaming
  /\ \/ /\ login.waiting /\ login.flow # None
        /\ calls' = calls \cup {[what |-> "complete", flow |-> login.flow]} /\ draft' = None
        /\ UNCHANGED <<login, streaming>>
     \/ /\ ~login.waiting /\ selected /\ ~LoggedIn
        /\ StartFlow(TRUE, draft) /\ UNCHANGED streaming
     \/ /\ ~login.waiting /\ (selected => LoggedIn)
        /\ streaming' = TRUE /\ draft' = None /\ UNCHANGED <<login, calls>>
  /\ UNCHANGED <<selected, typed, answers, flow, restarts>>

\* handleEnter and submitPromptWithMode.  While blocked, any text is taken for
\* the code of a login that waits, and nothing happens to it otherwise.
Enter ==
  /\ draft # None /\ ~streaming
  /\ \/ /\ login.started /\ login.waiting /\ login.flow # None
        /\ calls' = calls \cup {[what |-> "complete", flow |-> login.flow]} /\ draft' = None
        /\ UNCHANGED <<login, streaming>>
     \/ /\ ~Blocked /\ selected /\ ~LoggedIn
        /\ StartFlow(TRUE, draft) /\ UNCHANGED streaming
     \/ /\ ~Blocked /\ (selected => LoggedIn)
        /\ streaming' = TRUE /\ draft' = None /\ UNCHANGED <<login, calls>>
  /\ UNCHANGED <<selected, typed, answers, flow, restarts>>

\* /login openai-codex, at any time without a run.
LoginCommand ==
  /\ ~streaming /\ draft = None
  /\ StartFlow(FALSE, None)
  /\ UNCHANGED <<streaming, selected, typed, answers, flow, restarts>>

\* restartBackendWithCurrentEnv: the process and its flows are gone, and what
\* it had not answered fails; "rest" are the replies not handled yet.
RestartBackend(rest) ==
  /\ restarts < MaxRestarts /\ restarts' = restarts + 1
  /\ flow' = [f \in Flow |-> IF flow[f] = "pending" THEN "failed" ELSE flow[f]]
  /\ calls' = {}
  /\ answers' = rest \cup {[what |-> c.what, flow |-> c.flow, ok |-> FALSE] : c \in calls}

\* /model: the cached auth status decides, and may be out of date.
ModelCommand ==
  /\ ~streaming /\ draft = None /\ ~Blocked
  /\ \/ StartFlow(TRUE, None) /\ UNCHANGED <<selected, answers, flow, restarts>>
     \/ /\ selected' \in BOOLEAN /\ RestartBackend(answers) /\ UNCHANGED <<login, draft>>
  /\ UNCHANGED <<streaming, typed>>

\* handleEscape: it looks at Active, so a login state is not ended.
Escape ==
  /\ ~streaming /\ draft' = None
  /\ UNCHANGED <<login, streaming, selected, typed, calls, answers, flow, restarts>>

RunEnds ==
  /\ streaming /\ streaming' = FALSE
  /\ UNCHANGED <<login, draft, selected, typed, calls, answers, flow, restarts>>

-----------------------------------------------------------------------------
(* The backend.                                                            *)

Answer(c, f, ok) ==
  /\ calls' = calls \ {c}
  /\ answers' = answers \cup {[what |-> c.what, flow |-> f, ok |-> ok]}
  /\ UNCHANGED <<login, draft, streaming, selected, typed, restarts>>

\* A new flow closes the one before it.
ServeStart(c) ==
  /\ c.what = "start"
  /\ \/ Answer(c, None, FALSE) /\ UNCHANGED flow
     \/ \E f \in Flow :
          /\ flow[f] = "none" /\ \A g \in Flow : flow[g] = "none" => f <= g
          /\ flow' = [g \in Flow |-> IF g = f THEN "pending"
                                     ELSE IF flow[g] = "pending" THEN "failed" ELSE flow[g]]
          /\ Answer(c, f, TRUE)

\* The code is right, or not.
ServeComplete(c) ==
  /\ c.what = "complete"
  /\ \/ Answer(c, c.flow, FALSE) /\ UNCHANGED flow
     \/ /\ flow[c.flow] \in {"pending", "stored"}
        /\ flow' = [flow EXCEPT ![c.flow] = "stored"] /\ Answer(c, c.flow, TRUE)

ServeWait(c) ==
  /\ c.what = "wait" /\ flow[c.flow] # "pending"
  /\ Answer(c, c.flow, flow[c.flow] = "stored") /\ UNCHANGED flow

\* The browser comes back, or the flow runs into its time limit.
Callback(f) ==
  /\ flow[f] = "pending" /\ \E end \in {"stored", "failed"} : flow' = [flow EXCEPT ![f] = end]
  /\ UNCHANGED <<login, draft, streaming, selected, typed, calls, answers, restarts>>

-----------------------------------------------------------------------------
(* Update.                                                                 *)

\* finishLoginSuccess: the login state and the editor are emptied, the model of
\* the login or a default is selected, and the stashed prompt comes back.
Finish(rest) ==
  /\ login' = Idle /\ draft' = login.prompt
  /\ \/ \* no model to select, or its config is not saved
        answers' = rest /\ UNCHANGED <<selected, calls, flow, restarts>>
     \/ /\ login.model \/ login.started
        /\ selected' = TRUE /\ RestartBackend(rest)

\* A failed start ends the login; the stashed prompt is not put back.
StartMsg(a) ==
  /\ a.what = "start"
  /\ IF a.ok
     THEN /\ login' = [login EXCEPT !.flow = a.flow, !.waiting = TRUE]
          /\ calls' = calls \cup {[what |-> "wait", flow |-> a.flow]} /\ UNCHANGED draft
     ELSE login' = Idle /\ draft' = None /\ UNCHANGED calls
  /\ answers' = answers \ {a}
  /\ UNCHANGED <<streaming, selected, typed, flow, restarts>>

\* The outcome of any flow is taken for that of the login the client shows; a
\* failure is written and changes nothing.
Ended(a) ==
  /\ \/ a.what = "complete"
     \/ a.what = "wait" /\ login.waiting /\ login.flow # None
  /\ a.ok
CompleteOrWaitMsg(a) ==
  /\ a.what \in {"complete", "wait"}
  /\ IF Ended(a) THEN Finish(answers \ {a})
     ELSE answers' = answers \ {a} /\ UNCHANGED <<login, draft, selected, calls, flow, restarts>>
  /\ UNCHANGED <<streaming, typed>>

-----------------------------------------------------------------------------

Backend ==
  \/ \E c \in calls : ServeStart(c) \/ ServeComplete(c) \/ ServeWait(c)
  \/ \E f \in Flow : Callback(f)
Update == \E a \in answers : StartMsg(a) \/ CompleteOrWaitMsg(a)

Next ==
  \/ Type \/ Enter \/ LoginCommand \/ ModelCommand \/ Escape \/ RunEnds
  \/ Backend \/ Update

\* Requests and flows end, their replies are handled, and the user who wants
\* out of a login presses Esc.
Fairness == WF_lvars(Backend) /\ WF_lvars(Update) /\ WF_lvars(Escape)

Spec == Init /\ [][Next]_lvars /\ Fairness

-----------------------------------------------------------------------------
(* Properties.                                                             *)

\* The restart that follows a login never takes the backend from under a run:
\* no prompt gets through between the start of a login and the late outcome
\* of it or of another one.
RestartSparesRuns == [][restarts' # restarts => ~streaming]_lvars

\* "Login in progress; wait for completion or press Esc to cancel": a login
\* that has failed, or was given up with Esc, gives the prompt back.
InputComesBack == Blocked ~> ~Blocked

\* A prompt stashed for a login is in the editor when the login is over.
DetourRestores ==
  [][login.prompt # None /\ login'.prompt # login.prompt => draft' = login.prompt]_lvars

=============================================================================
