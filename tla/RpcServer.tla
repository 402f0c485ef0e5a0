----------------------------- MODULE RpcServer ------------------------------
(***************************************************************************)
(* serve_rpc_stdio of rpc/stdio.py: a reader turns every line into a task, *)
(* tasks of one session and of a serialized command take turns, answers go *)
(* into an unbounded queue, one writer task writes them in batches.  After *)
(* the end of the input the server waits for its tasks, then stops the     *)
(* writer.                                                                 *)
(*                                                                         *)
(* What a command does is left to the modules of its component; here a     *)
(* line is of a kind.  "answers": a command of a session, one envelope.    *)
(* "asks": a run.start that emits an event, waits for a "submits" line of  *)
(* the client, and answers.  "raises": the handler ends with an exception  *)
(* that is not in its error mapping, as auth.status does on an unreadable  *)
(* oauth.json: no envelope.                                                *)
(***************************************************************************)
EXTENDS Naturals, Sequences, FiniteSets, SequencesExt

CONSTANTS
  MaxLines,   \* bound: lines the client sends
  Session

Line == 1 .. MaxLines
NoSession == "none"
Kind == {"answers", "asks", "raises", "submits"}

VARIABLES
  sent,       \* lines the client has sent: their kind and session
  closed,     \* the client has closed its end
  read,       \* lines read so far
  task,       \* state of the task of each line
  queue,      \* output_queue
  writer,     \* the batch the writer task holds, or that it has ended
  written,    \* what reached the client
  broken,     \* the client no longer reads: writes fail
  server,     \* "serving", "gathering", "stopping", "ended"
  gathered,   \* tasks gather waits for
  emitted,    \* history: everything put into the queue
  entered     \* history: lines in the order they got the lock of their session

io   == <<sent, closed, read>>
out  == <<queue, writer, written, broken>>
vars == <<io, task, out, server, gathered, emitted, entered>>

Stop == [line |-> 0, what |-> "stop"]
Envelope == [line : Line, what : {"event", "answer"}]
Idle == [at |-> "idle", batch |-> <<>>]

Init ==
  /\ sent = <<>> /\ closed = FALSE /\ read = 0
  /\ task = [l \in Line |-> "none"]
  /\ queue = <<>> /\ writer = Idle /\ written = <<>> /\ broken = FALSE
  /\ server = "serving" /\ gathered = {} /\ emitted = <<>> /\ entered = <<>>

\* Tasks that are neither finished nor failed.
Unfinished == {l \in Line : task[l] \in {"created", "locked", "waiting", "resolved"}}

Emit(l, what) ==
  /\ queue' = Append(queue, [line |-> l, what |-> what])
  /\ emitted' = Append(emitted, [line |-> l, what |-> what])

-----------------------------------------------------------------------------
(* The client.                                                             *)

Send(kind, session) ==
  /\ ~closed /\ Len(sent) < MaxLines
  /\ kind \in {"submits", "raises"} <=> session = NoSession
  /\ sent' = Append(sent, [kind |-> kind, session |-> session])
  /\ UNCHANGED <<closed, read, task, out, server, gathered, emitted, entered>>

Close ==
  /\ ~closed
  /\ closed' = TRUE
  /\ UNCHANGED <<sent, read, task, out, server, gathered, emitted, entered>>

Break ==
  /\ ~broken
  /\ broken' = TRUE
  /\ UNCHANGED <<io, task, queue, writer, written, server, gathered, emitted, entered>>

-----------------------------------------------------------------------------
(* The reader.                                                             *)

ReadLine ==
  /\ server = "serving" /\ read < Len(sent)
  /\ read' = read + 1
  /\ task' = [task EXCEPT ![read + 1] = "created"]
  /\ UNCHANGED <<sent, closed, out, server, gathered, emitted, entered>>

\* An empty read is the end of the input; tasks that ended before are no longer
\* among the pending ones, failed or not.
ReadEnd ==
  /\ server = "serving" /\ closed /\ read = Len(sent)
  /\ server' = "gathering" /\ gathered' = Unfinished
  /\ UNCHANGED <<io, task, out, emitted, entered>>

\* Slip: a task that failed is waited for.
GatherEndsWhenDone ==
  /\ server = "gathering"
  /\ \A l \in gathered : task[l] = "done"
  /\ server' = "stopping" /\ queue' = Append(queue, Stop)
  /\ UNCHANGED <<io, task, writer, written, broken, gathered, emitted, entered>>

\* gather returns when all are done, or raises with the first that failed; both
\* ways the writer is told to stop behind what is queued.
GatherEnds ==
  /\ server = "gathering"
  /\ \/ \A l \in gathered : task[l] = "done"
     \/ \E l \in gathered : task[l] = "failed"
  /\ server' = "stopping" /\ queue' = Append(queue, Stop)
  /\ UNCHANGED <<io, task, writer, written, broken, gathered, emitted, entered>>

ServerEnds ==
  /\ server = "stopping" /\ writer.at = "ended"
  /\ server' = "ended"
  /\ UNCHANGED <<io, task, out, gathered, emitted, entered>>

-----------------------------------------------------------------------------
(* The task of a line: process_line.                                       *)

\* asyncio.Lock serves its waiters in the order in which they came, and tasks
\* take their first step in the order in which they were created.
SessionOf(l) == sent[l].session
Locks(l) == sent[l].session # NoSession
Holder(s) == {l \in Line : task[l] \in {"locked", "waiting", "resolved"} /\ SessionOf(l) = s}

Enter(l) ==
  /\ server # "ended" /\ task[l] = "created"
  /\ Locks(l) => /\ Holder(SessionOf(l)) = {}
                 /\ \A k \in Unfinished : SessionOf(k) = SessionOf(l) => l <= k
  /\ task' = [task EXCEPT ![l] = "locked"]
  /\ entered' = IF Locks(l) THEN Append(entered, l) ELSE entered
  /\ UNCHANGED <<io, out, server, gathered, emitted>>

Answer(l) ==
  /\ server # "ended" /\ task[l] = "locked" /\ sent[l].kind = "answers"
  /\ Emit(l, "answer")
  /\ task' = [task EXCEPT ![l] = "done"]
  /\ UNCHANGED <<io, writer, written, broken, server, gathered, entered>>

Raise(l) ==
  /\ server # "ended" /\ task[l] = "locked" /\ sent[l].kind = "raises"
  /\ task' = [task EXCEPT ![l] = "failed"]
  /\ UNCHANGED <<io, out, server, gathered, emitted, entered>>

\* approval_requested or onboarding_question_requested.
Ask(l) ==
  /\ server # "ended" /\ task[l] = "locked" /\ sent[l].kind = "asks"
  /\ Emit(l, "event")
  /\ task' = [task EXCEPT ![l] = "waiting"]
  /\ UNCHANGED <<io, writer, written, broken, server, gathered, entered>>

\* approval.submit or onboarding.submit, with no lock: it puts the answer into
\* the future of one wait if there is one, and is answered in any case.
Submit(l) ==
  /\ server # "ended" /\ task[l] = "locked" /\ sent[l].kind = "submits"
  /\ Emit(l, "answer")
  /\ LET asking == {k \in Line : task[k] = "waiting"} IN
     \/ asking = {} /\ task' = [task EXCEPT ![l] = "done"]
     \/ \E k \in asking : task' = [task EXCEPT ![l] = "done", ![k] = "resolved"]
  /\ UNCHANGED <<io, writer, written, broken, server, gathered, entered>>

\* In a later turn of the loop the one who asked goes on.
Resume(l) ==
  /\ server # "ended" /\ task[l] = "resolved"
  /\ Emit(l, "answer")
  /\ task' = [task EXCEPT ![l] = "done"]
  /\ UNCHANGED <<io, writer, written, broken, server, gathered, entered>>

-----------------------------------------------------------------------------
(* The writer: _output_writer.                                             *)

\* Slip: what is queued in front of the stop mark is dropped.
TakeBatchUpToStop ==
  /\ writer.at = "idle" /\ queue # <<>>
  /\ writer' = IF Stop \in ToSet(queue) THEN [at |-> "ended", batch |-> <<>>]
               ELSE [at |-> "writing", batch |-> queue]
  /\ queue' = <<>>
  /\ UNCHANGED <<io, task, written, broken, server, gathered, emitted, entered>>

\* Everything queued is one batch; a stop mark ends the batch and the writer.
TakeBatch ==
  /\ writer.at = "idle" /\ queue # <<>>
  /\ IF Stop \in ToSet(queue)
     THEN LET n == CHOOSE i \in 1..Len(queue) : queue[i] = Stop
          IN /\ writer' = [at |-> IF n = 1 THEN "ended" ELSE "last",
                           batch |-> SubSeq(queue, 1, n - 1)]
             /\ queue' = SubSeq(queue, n + 1, Len(queue))
     ELSE /\ writer' = [at |-> "writing", batch |-> queue]
          /\ queue' = <<>>
  /\ UNCHANGED <<io, task, written, broken, server, gathered, emitted, entered>>

\* A failed write loses its batch, not the writer.
Write ==
  /\ writer.at \in {"writing", "last"}
  /\ written' = IF broken THEN written ELSE written \o writer.batch
  /\ writer' = [at |-> IF writer.at = "last" THEN "ended" ELSE "idle", batch |-> <<>>]
  /\ UNCHANGED <<io, task, queue, broken, server, gathered, emitted, entered>>

-----------------------------------------------------------------------------

Next ==
  \/ \E kind \in Kind, s \in Session \cup {NoSession} : Send(kind, s)
  \/ Close \/ Break \/ ReadLine \/ ReadEnd \/ GatherEnds \/ ServerEnds
  \/ \E l \in Line : Enter(l) \/ Answer(l) \/ Raise(l) \/ Ask(l) \/ Submit(l) \/ Resume(l)
  \/ TakeBatch \/ Write

\* The event loop and the two threads run.
Fairness ==
  /\ WF_vars(ReadLine) /\ WF_vars(ReadEnd) /\ WF_vars(GatherEnds) /\ WF_vars(ServerEnds)
  /\ \A l \in Line : /\ WF_vars(Enter(l)) /\ WF_vars(Answer(l)) /\ WF_vars(Raise(l))
                     /\ WF_vars(Ask(l)) /\ WF_vars(Submit(l)) /\ WF_vars(Resume(l))
  /\ WF_vars(TakeBatch) /\ WF_vars(Write)

Spec == Init /\ [][Next]_vars /\ Fairness

-----------------------------------------------------------------------------
(* Properties.                                                             *)

TypeOK ==
  /\ sent \in Seq([kind : Kind, session : Session \cup {NoSession}]) /\ Len(sent) <= MaxLines
  /\ closed \in BOOLEAN /\ broken \in BOOLEAN /\ read \in 0..Len(sent)
  /\ task \in [Line -> {"none", "created", "locked", "waiting", "resolved", "done", "failed"}]
  /\ queue \in Seq(Envelope \cup {Stop}) /\ written \in Seq(Envelope) /\ emitted \in Seq(Envelope)
  /\ writer \in [at : {"idle", "writing", "last", "ended"}, batch : Seq(Envelope)]
  /\ server \in {"serving", "gathering", "stopping", "ended"}
  /\ gathered \subseteq Line /\ entered \in Seq(Line)

\* What the client reads is what was emitted, in that order and without gaps, as
\* long as it reads: batching, the writer's thread and the stop mark lose nothing
\* in the middle.
OutputInOrder == ~broken => IsPrefix(written, emitted)

\* A server whose tasks all ended well has written every answer when it ends.
EndWritesAll ==
  server = "ended" /\ ~broken /\ (\A l \in gathered : task[l] = "done") =>
    /\ written = emitted
    /\ \A l \in Line : task[l] = "done" =>
         \E i \in 1..Len(written) : written[i] = [line |-> l, what |-> "answer"]

\* Commands of one session that take its lock are carried out in the order the
\* client sent them.
SessionsInOrder ==
  \A i, j \in 1..Len(entered) :
    i < j /\ SessionOf(entered[i]) = SessionOf(entered[j]) => entered[i] < entered[j]

\* The output is whole: in the order of the work, without gaps, to the end.
OutputWhole == OutputInOrder /\ EndWritesAll /\ SessionsInOrder

\* After the end of the input the server ends, unless a run asked the client
\* something that nobody can answer any more.
ServerStops == closed ~> server = "ended" \/ \E l \in Line : task[l] = "waiting"

=============================================================================
