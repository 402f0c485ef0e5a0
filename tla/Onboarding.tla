----------------------------- MODULE Onboarding -----------------------------
(***************************************************************************)
(* Onboarding questions of one session: the attempts table of              *)
(* onboarding.py (sqlite), onboarding.start and onboarding.submit of       *)
(* rpc/stdio.py, and the tool ask_mcq_question, whose question goes        *)
(* through the queue of the run loop (runtime/run.py) to a future the      *)
(* server keeps until the answer is submitted.                             *)
(*                                                                         *)
(* onboarding.start holds the session lock, so it meets no run;            *)
(* onboarding.submit, run.interrupt and the death of the backend come at   *)
(* any time.  Each function of onboarding.py opens and commits one         *)
(* transaction and never suspends: it is one step of the event loop.       *)
(***************************************************************************)
EXTENDS Naturals, FiniteSets

CONSTANTS
  MaxAttempts,\* bound: questions
  Option,     \* answers
  MaxSubmits, \* bound: onboarding.submit requests
  MaxRuns,    \* bound: runs of the session
  MaxDeaths   \* bound: deaths of the backend

Attempt == 1 .. MaxAttempts    \* numbered in the order they are stored
Submit == 1 .. MaxSubmits
NoAttempt == 0

VARIABLES
  row,        \* onboarding_attempts: status, kind and answer of each attempt
  run,        \* run.start for the session is in progress
  tool,       \* the attempt ask_mcq_question waits for
  queued,     \* the question in the run's queue
  future,     \* the registered question and the state of its future
  cancelling, \* a cancellation of the run task is not delivered yet
  reply,      \* what each submit request was told
  runs, deaths,
  taken,      \* history: answers the tool returned to the model
  orphans     \* history: live questions whose run ended before it asked them

live == <<run, tool, queued, future, cancelling>>
vars == <<row, live, reply, runs, deaths, taken, orphans>>

NoRow == [status |-> "none", kind |-> "none", answer |-> "none"]
NoQuestion == [attempt |-> NoAttempt, state |-> "none", answer |-> "none"]

Answer == Option \cup {"none"}
TypeOK ==
  /\ row \in [Attempt -> [status : {"none", "pending", "completed", "abandoned"},
                          kind : {"none", "start", "live"}, answer : Answer]]
  /\ run \in BOOLEAN /\ cancelling \in BOOLEAN /\ runs \in 0..MaxRuns /\ deaths \in 0..MaxDeaths
  /\ tool \in Attempt \cup {NoAttempt} /\ queued \in Attempt \cup {NoAttempt}
  /\ future \in [attempt : Attempt \cup {NoAttempt}, answer : Answer,
                 state : {"none", "open", "scheduled", "set"}]
  /\ reply \in [Submit -> [attempt : Attempt \cup {NoAttempt},
                           at : {"new", "ok", "refused"}, answer : Answer]]
  /\ taken \in [Attempt -> Answer] /\ orphans \subseteq Attempt

Init ==
  /\ row = [a \in Attempt |-> NoRow]
  /\ run = FALSE /\ tool = NoAttempt /\ queued = NoAttempt /\ future = NoQuestion
  /\ cancelling = FALSE
  /\ reply = [r \in Submit |-> [attempt |-> NoAttempt, at |-> "new", answer |-> "none"]]
  /\ runs = 0 /\ deaths = 0
  /\ taken = [a \in Attempt |-> "none"] /\ orphans = {}

-----------------------------------------------------------------------------
(* The attempts table.                                                     *)

Fresh(a) == row[a].status = "none" /\ \A b \in Attempt : b < a => row[b].status # "none"
Pending == {a \in Attempt : row[a].status = "pending"}

Abandoned(as) ==
  [a \in Attempt |-> IF a \in as /\ row[a].status = "pending"
                     THEN [row[a] EXCEPT !.status = "abandoned"] ELSE row[a]]

Inserted(table, a, kind) ==
  [table EXCEPT ![a] = [status |-> "pending", kind |-> kind, answer |-> "none"]]

\* start_onboarding_mcq: a pending question made by onboarding.start is opened
\* again, one of the tool is refused; else a question is generated (which can
\* fail) and inserted.
OnboardingStart(a) ==
  /\ ~run /\ Fresh(a) /\ Pending = {}
  /\ row' = Inserted(row, a, "start")
  /\ UNCHANGED <<live, reply, runs, deaths, taken, orphans>>

\* ask_mcq_question and publish_onboarding_mcq: every pending question of the
\* session is abandoned, the new one is stored and put into the run's queue.
Publish(a) ==
  /\ run /\ tool = NoAttempt /\ Fresh(a)
  /\ row' = Inserted(Abandoned(Pending), a, "live")
  /\ tool' = a /\ queued' = a
  /\ UNCHANGED <<run, future, cancelling, reply, runs, deaths, taken, orphans>>

New(r) == reply[r].at = "new" /\ \A q \in Submit : q < r => reply[q].at # "new"

\* Slip: a question that was answered can be answered again.
SubmitRepeatedly(r, a, o) ==
  /\ New(r) /\ a # queued
  /\ LET found == row[a].status \in {"pending", "completed"} IN
     /\ reply' = [reply EXCEPT ![r] =
          [attempt |-> a, at |-> IF found THEN "ok" ELSE "refused", answer |-> o]]
     /\ row' = IF found THEN [row EXCEPT ![a].status = "completed", ![a].answer = o] ELSE row
     /\ future' = IF found /\ future.attempt = a /\ future.state = "open"
                  THEN [future EXCEPT !.state = "scheduled", !.answer = o] ELSE future
  /\ UNCHANGED <<run, tool, queued, cancelling, runs, deaths, taken, orphans>>

\* Slip: the answer is stored, the waiting tool is not told.
SubmitOnly(r, a, o) ==
  /\ New(r) /\ a # queued
  /\ LET found == row[a].status = "pending" IN
     /\ reply' = [reply EXCEPT ![r] =
          [attempt |-> a, at |-> IF found THEN "ok" ELSE "refused", answer |-> o]]
     /\ row' = IF found THEN [row EXCEPT ![a].status = "completed", ![a].answer = o] ELSE row
  /\ UNCHANGED <<live, runs, deaths, taken, orphans>>

\* _handle_onboarding_submit: the answer is stored; the future of the question,
\* if it is open, is to be set in the next turn of the event loop.
\* A client knows no attempt before its event, which comes with the future.
OnboardingSubmit(r, a, o) ==
  /\ New(r) /\ a # queued
  /\ LET found == row[a].status = "pending" IN
     /\ reply' = [reply EXCEPT ![r] =
          [attempt |-> a, at |-> IF found THEN "ok" ELSE "refused", answer |-> o]]
     /\ row' = IF found THEN [row EXCEPT ![a].status = "completed", ![a].answer = o] ELSE row
     /\ future' = IF found /\ future.attempt = a /\ future.state = "open"
                  THEN [future EXCEPT !.state = "scheduled", !.answer = o] ELSE future
  /\ UNCHANGED <<run, tool, queued, cancelling, runs, deaths, taken, orphans>>

-----------------------------------------------------------------------------
(* The run.                                                                *)

RunStart ==
  /\ ~run /\ runs < MaxRuns
  /\ run' = TRUE /\ runs' = runs + 1
  /\ UNCHANGED <<row, tool, queued, future, cancelling, reply, deaths, taken, orphans>>

RunEnds ==
  /\ run /\ tool = NoAttempt /\ ~cancelling
  /\ run' = FALSE
  /\ UNCHANGED <<row, tool, queued, future, cancelling, reply, runs, deaths, taken, orphans>>

\* The run loop takes the question: the client is told, and
\* resolve_onboarding_question registers a future for it.
Ask ==
  /\ queued # NoAttempt /\ ~cancelling
  /\ queued' = NoAttempt
  /\ future' = [attempt |-> queued, state |-> "open", answer |-> "none"]
  /\ UNCHANGED <<row, run, tool, cancelling, reply, runs, deaths, taken, orphans>>

\* The scheduled set_result.
SetResult ==
  /\ future.state = "scheduled"
  /\ future' = [future EXCEPT !.state = "set"]
  /\ UNCHANGED <<row, run, tool, queued, cancelling, reply, runs, deaths, taken, orphans>>

\* The resolver returns, the registration is dropped, the tool has its answer.
Resolve ==
  /\ future.state = "set" /\ ~cancelling
  /\ taken' = [taken EXCEPT ![future.attempt] = future.answer]
  /\ future' = NoQuestion /\ tool' = NoAttempt
  /\ UNCHANGED <<row, run, queued, cancelling, reply, runs, deaths, orphans>>

Interrupt ==
  /\ run /\ ~cancelling
  /\ cancelling' = TRUE
  /\ UNCHANGED <<row, run, tool, queued, future, reply, runs, deaths, taken, orphans>>

\* The cancellation is delivered.  A question being asked is abandoned unless it
\* was answered meanwhile; one still in the queue nobody knows of any more.
Cancelled ==
  /\ cancelling
  /\ row' = Abandoned({future.attempt} \cap Attempt)
  /\ orphans' = orphans \cup ({queued} \ {NoAttempt})
  /\ run' = FALSE /\ tool' = NoAttempt /\ queued' = NoAttempt /\ future' = NoQuestion
  /\ cancelling' = FALSE
  /\ UNCHANGED <<reply, runs, deaths, taken>>

\* The backend dies; its table stays.
Die ==
  /\ deaths < MaxDeaths
  /\ deaths' = deaths + 1
  /\ orphans' = orphans \cup ({tool} \ {NoAttempt})
  /\ run' = FALSE /\ tool' = NoAttempt /\ queued' = NoAttempt /\ future' = NoQuestion
  /\ cancelling' = FALSE
  /\ UNCHANGED <<row, reply, runs, taken>>

Next ==
  \/ \E a \in Attempt : OnboardingStart(a) \/ Publish(a)
  \/ \E r \in Submit, a \in Attempt, o \in Option : OnboardingSubmit(r, a, o)
  \/ RunStart \/ RunEnds \/ Ask \/ SetResult \/ Resolve \/ Interrupt \/ Cancelled \/ Die

\* Tasks and callbacks that are ready are run by the event loop.
Fairness ==
  WF_vars(Ask) /\ WF_vars(SetResult) /\ WF_vars(Resolve) /\ WF_vars(Cancelled)

Spec == Init /\ [][Next]_vars /\ Fairness

-----------------------------------------------------------------------------
(* Properties.                                                             *)

\* The unique index of the table, one pending question per session, never
\* refuses an insert: both writers clear or check what is pending before.
OnePending == Cardinality(Pending) <= 1

\* A question of the tool that is pending has its tool waiting for it, in every
\* state; otherwise onboarding.start refuses the session until a run asks again.
\* Two ways leave one behind: a death, and a cancellation that overtakes the
\* question in the run's queue.
QuestionOwned ==
  \A a \in Pending : row[a].kind = "live" => tool = a \/ a \in orphans

\* However submits, cancellations and deaths interleave, one answer of a
\* question counts: in the table, for every submitter, and for the model.
OneAnswer ==
  /\ \A r \in Submit : reply[r].at = "ok" =>
       /\ row[reply[r].attempt].status = "completed"
       /\ row[reply[r].attempt].answer = reply[r].answer
  /\ \A a \in Attempt : taken[a] # "none" => taken[a] = row[a].answer

\* At any time one question at most is open, its tool is there, and what was
\* answered is one answer for everybody.
OneQuestion == OnePending /\ QuestionOwned /\ OneAnswer

\* A tool whose question was answered, or whose run was interrupted, stops
\* waiting.
AnsweredToolReturns ==
  \A a \in Attempt : future.attempt = a /\ row[a].status = "completed" ~> tool # a

=============================================================================
