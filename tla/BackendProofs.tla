--------------------------- MODULE BackendProofs ----------------------------
(***************************************************************************)
(* Proofs about the parts of the backend that MCBackend explores, for any  *)
(* number of flows, requests, connections, lines, sessions and questions:  *)
(* what is answered as a login is stored, the server's output is whole,    *)
(* one question is open at a time and one answer counts.                   *)
(*                                                                         *)
(* The output is followed from the queue to the client: what was emitted   *)
(* is what was written, what the writer holds and what is queued, in this  *)
(* order, with the stop mark cut out.                                      *)
(***************************************************************************)
EXTENDS MCBackend, FiniteSetTheorems, SequenceTheorems, TLAPS

-----------------------------------------------------------------------------
(* Logins.                                                                 *)

\* What the answers of the login read.
LoginTyped ==
  /\ result \in [L!Flow -> {"none", "pending", "ok", "failed"}]
  /\ req \in [L!Request -> [flow : L!Flow \cup {L!NoFlow}, op : {"none", "wait", "complete"},
                          at : {"new", "waiting", "ok", "error"} \cup L!Exchange]]

\* oauth.json holds what was stored.
StoreSaved == store # L!NoFlow => store \in saved

\* Only a wait waits, and for a flow.
WaitsForFlow ==
  \A r \in L!Request : req[r].at = "waiting" => req[r].op = "wait" /\ req[r].flow \in L!Flow

LoginIInv == LoginTyped /\ StoreSaved /\ WaitsForFlow /\ L!LoginIsStored

\* No flow, no request at first.
LEMMA LoginInit == L!Init => LoginIInv
BY DEF L!Init, LoginIInv, LoginTyped, StoreSaved, WaitsForFlow, L!LoginIsStored, L!Exchange, L!NoFlow

\* Storing credentials adds to what was stored.
LEMMA SaveKeeps ==
  ASSUME NEW f, L!Save(f), StoreSaved
  PROVE  StoreSaved' /\ f \in saved' /\ saved \subseteq saved'
BY DEF L!Save, StoreSaved

\* Failing flows makes none of them succeed.
LEMMA FailedKeeps ==
  ASSUME NEW fs, LoginTyped
  PROVE  /\ L!Failed(fs) \in [L!Flow -> {"none", "pending", "ok", "failed"}]
         /\ \A f \in L!Flow : L!Failed(fs)[f] = "ok" => result[f] = "ok"
BY DEF L!Failed, LoginTyped

\* An answer leaves the flow and the kind of the request, and other requests.
LEMMA AnswerTouchesOne ==
  ASSUME LoginTyped, NEW r \in L!Request, NEW a \in {"ok", "error"}, L!AnswerReq(r, a)
  PROVE  /\ req' \in [L!Request -> [flow : L!Flow \cup {L!NoFlow}, op : {"none", "wait", "complete"},
                          at : {"new", "waiting", "ok", "error"} \cup L!Exchange]]
         /\ req'[r] = [flow |-> req[r].flow, op |-> req[r].op, at |-> a]
         /\ \A q \in L!Request \ {r} : req'[q] = req[q]
BY DEF LoginTyped, L!AnswerReq

\* Every step of the login keeps its invariant.
LEMMA LoginStep == LoginIInv /\ [L!Next]_L!vars => LoginIInv'
<1> SUFFICES ASSUME LoginIInv, [L!Next]_L!vars PROVE LoginIInv'
  OBVIOUS
<1> USE DEF LoginIInv
<1>0. CASE UNCHANGED L!vars
  BY <1>0 DEF L!vars, L!flows, LoginTyped, StoreSaved, WaitsForFlow, L!LoginIsStored
<1>1. ASSUME NEW f \in L!Flow, L!Start(f) PROVE LoginIInv'
  BY <1>1, FailedKeeps DEF L!Start, LoginTyped, StoreSaved, WaitsForFlow, L!LoginIsStored
<1>2. ASSUME NEW f \in L!Flow, L!Listen(f) PROVE LoginIInv'
  BY <1>2, FailedKeeps DEF L!Listen, LoginTyped, StoreSaved, WaitsForFlow, L!LoginIsStored
<1>3. ASSUME NEW f \in L!Flow, L!Timeout(f) \/ L!GrowOld(f) PROVE LoginIInv'
  BY <1>3 DEF L!Timeout, L!GrowOld, LoginTyped, StoreSaved, WaitsForFlow, L!LoginIsStored
<1>4. ASSUME NEW f \in L!Flow, L!Closed(f) PROVE LoginIInv'
  <2>1. CASE L!Save(f) /\ result' = [result EXCEPT ![f] = IF @ = "pending" THEN "ok" ELSE @]
    BY <1>4, <2>1, SaveKeeps DEF L!Closed, LoginTyped, WaitsForFlow, L!LoginIsStored
  <2>2. CASE result' = L!Failed({f}) /\ UNCHANGED <<store, saved>>
    BY <1>4, <2>2, FailedKeeps DEF L!Closed, LoginTyped, StoreSaved, WaitsForFlow, L!LoginIsStored
  <2>3. CASE UNCHANGED <<result, store, saved>>
    BY <1>4, <2>3 DEF L!Closed, LoginTyped, StoreSaved, WaitsForFlow, L!LoginIsStored
  <2> QED BY <1>4, <2>1, <2>2, <2>3 DEF L!Closed
<1>5. ASSUME NEW r \in L!Request, L!WaitEnds(r) PROVE LoginIInv'
  <2>1. PICK a \in {"ok", "error"} :
          /\ a = (IF result[req[r].flow] = "ok" THEN "ok" ELSE "error") /\ L!AnswerReq(r, a)
    BY <1>5 DEF L!WaitEnds
  <2>2. a = "ok" => saved # {} /\ (req[r].op = "complete" => req[r].flow \in saved)
    BY <2>1, <1>5 DEF L!WaitEnds, LoginTyped, WaitsForFlow, L!LoginIsStored
  <2>3. /\ req' \in [L!Request -> [flow : L!Flow \cup {L!NoFlow}, op : {"none", "wait", "complete"},
                          at : {"new", "waiting", "ok", "error"} \cup L!Exchange]]
        /\ req'[r] = [flow |-> req[r].flow, op |-> req[r].op, at |-> a]
        /\ \A q \in L!Request \ {r} : req'[q] = req[q]
    BY <2>1, AnswerTouchesOne
  <2>4. UNCHANGED <<result, store, saved>>
    BY <1>5 DEF L!WaitEnds
  <2>5. LoginTyped' /\ StoreSaved' /\ WaitsForFlow'
    BY <2>3, <2>4 DEF LoginTyped, StoreSaved, WaitsForFlow
  <2>6. L!LoginIsStored'
    BY <2>2, <2>3, <2>4 DEF L!LoginIsStored
  <2> QED BY <2>5, <2>6
<1>6. ASSUME NEW r \in L!Request, L!CompleteEnds(r) PROVE LoginIInv'
  BY <1>6, SaveKeeps DEF L!CompleteEnds, L!AnswerReq, LoginTyped, StoreSaved, WaitsForFlow, L!LoginIsStored
<1>7. ASSUME NEW r \in L!Request, NEW f \in L!Flow, L!Wait(r, f) PROVE LoginIInv'
  BY <1>7, FailedKeeps DEF L!Wait, L!Prune, L!New, LoginTyped, StoreSaved, WaitsForFlow, L!LoginIsStored
<1>8. ASSUME NEW r \in L!Request, NEW f \in L!Flow, L!Complete(r, f) PROVE LoginIInv'
  BY <1>8, FailedKeeps DEF L!Complete, L!Prune, L!New, LoginTyped, StoreSaved, WaitsForFlow, L!LoginIsStored, L!Exchange
<1>9. ASSUME NEW c \in Conn,
             L!Callback(c) \/ L!BrowserCloses(c) \/ L!CallbackEnds(c) \/ \E f \in L!Flow : L!Connect(c, f)
      PROVE LoginIInv'
  BY <1>9 DEF L!Callback, L!BrowserCloses, L!CallbackEnds, L!Connect, L!flows, LoginTyped, StoreSaved,
              WaitsForFlow, L!LoginIsStored
<1>10. ASSUME L!ProviderAnswers PROVE LoginIInv'
  BY <1>10 DEF L!ProviderAnswers, L!Verdicts, L!Exchange, L!flows, LoginTyped, StoreSaved, WaitsForFlow, L!LoginIsStored
<1> QED BY <1>0, <1>1, <1>2, <1>3, <1>4, <1>5, <1>6, <1>7, <1>8, <1>9, <1>10 DEF L!Next

-----------------------------------------------------------------------------
(* The server.                                                             *)

\* Where every line is on its way.
LinesRead == \A l \in R!Line : lineTask[l] # "none" <=> l <= read

\* Who has been let in had its turn: what waits for the same session came later.
Turns ==
  \A i \in 1..Len(entered) :
    /\ entered[i] <= read /\ lineTask[entered[i]] # "created"
    /\ \A l \in R!Line : lineTask[l] = "created" /\ R!SessionOf(l) = R!SessionOf(entered[i])
         => entered[i] < l

\* Who is done has answered.
Answers ==
  \A l \in R!Line : lineTask[l] = "done" =>
    \E i \in 1..Len(emitted) : emitted[i] = [line |-> l, what |-> "answer"]

\* After the end of the input only what is waited for can emit.
AllDone == \A l \in gathered : lineTask[l] = "done"
Gathered ==
  /\ server # "serving" => R!Unfinished \subseteq gathered
  /\ server \in {"stopping", "ended"} => AllDone \/ \E l \in gathered : lineTask[l] = "failed"

\* The output on its way: the stop mark cuts it, and behind the mark stands only
\* what was emitted because a task had failed.
Held == writer.batch
Emptied == writer.at \in {"idle", "ended"} => Held = <<>>
Accounted(rest) == ~broken => emitted = written \o (Held \o rest)
Open ==
  /\ server \in {"serving", "gathering"} /\ writer.at \in {"idle", "writing"}
  /\ queue \in Seq(R!Envelope) /\ Accounted(queue)
Marked ==
  /\ server = "stopping" /\ writer.at \in {"idle", "writing"}
  /\ \E before, behind \in Seq(R!Envelope) :
       /\ queue = (before \o <<R!Stop>>) \o behind /\ Accounted(before \o behind)
       /\ AllDone => behind = <<>>
Cut ==
  /\ server \in {"stopping", "ended"} /\ writer.at \in {"last", "ended"}
  /\ server = "ended" => writer.at = "ended"
  /\ queue \in Seq(R!Envelope) /\ Accounted(queue)
  /\ AllDone => queue = <<>>

ServerIInv ==
  /\ R!TypeOK /\ LinesRead /\ Turns /\ R!SessionsInOrder /\ Answers /\ Gathered
  /\ Emptied /\ (Open \/ Marked \/ Cut)

-----------------------------------------------------------------------------
\* The states of a line's task.
Stage == {"none", "created", "locked", "waiting", "resolved", "done", "failed"}

\* The stop mark is told from every envelope: no line has number 0.
LEMMA StopIsNoEnvelope == R!Stop \notin R!Envelope
BY LineBound DEF R!Stop, R!Envelope, R!Line

\* The steps of the tasks.
TaskStep(l) == R!Enter(l) \/ R!Answer(l) \/ R!Raise(l) \/ R!Ask(l) \/ R!Submit(l) \/ R!Resume(l)

\* The first state is typed.
LEMMA ServerTypeInit == R!Init => R!TypeOK
<1> SUFFICES ASSUME R!Init PROVE R!TypeOK
  OBVIOUS
<1>1. <<>> \in Seq(R!Envelope) /\ <<>> \in Seq(R!Envelope \cup {R!Stop}) /\ <<>> \in Seq(R!Line)
      /\ <<>> \in Seq([kind : R!Kind, session : Session \cup {R!NoSession}]) /\ Len(<<>>) = 0
  BY EmptySeq
<1>2. read \in 0..Len(sent) /\ Len(sent) <= MaxLines
  BY <1>1, LineBound DEF R!Init
<1>3. writer \in [at : {"idle", "writing", "last", "ended"}, batch : Seq(R!Envelope)]
  BY <1>1 DEF R!Init, R!Idle
<1> QED BY <1>1, <1>2, <1>3 DEF R!Init, R!TypeOK

\* What is put into the queue stays typed.
LEMMA EmitTyped ==
  ASSUME R!TypeOK, NEW l \in R!Line, NEW what \in {"event", "answer"}, R!Emit(l, what)
  PROVE  /\ [line |-> l, what |-> what] \in R!Envelope
         /\ queue' = queue \o <<[line |-> l, what |-> what]>>
         /\ emitted' = emitted \o <<[line |-> l, what |-> what]>>
         /\ queue' \in Seq(R!Envelope \cup {R!Stop}) /\ emitted' \in Seq(R!Envelope)
<1>1. [line |-> l, what |-> what] \in R!Envelope
  BY DEF R!Envelope
<1> DEFINE e == [line |-> l, what |-> what]
<1>2. queue' = Append(queue, e) /\ emitted' = Append(emitted, e)
  BY DEF R!Emit
<1>3. queue \in Seq(R!Envelope \cup {R!Stop}) /\ emitted \in Seq(R!Envelope)
  BY DEF R!TypeOK
<1>4. e \in R!Envelope /\ e \in R!Envelope \cup {R!Stop}
  BY <1>1
<1> HIDE DEF e
<1>5. Append(queue, e) = queue \o <<e>> /\ Append(queue, e) \in Seq(R!Envelope \cup {R!Stop})
  BY <1>3, <1>4, AppendProperties, AppendIsConcat
<1>6. Append(emitted, e) = emitted \o <<e>> /\ Append(emitted, e) \in Seq(R!Envelope)
  BY <1>3, <1>4, AppendProperties, AppendIsConcat
<1> QED BY <1>1, <1>2, <1>5, <1>6 DEF e

\* The stop mark is where it was put: a batch taken there ends in front of it.
LEMMA CutAtMark ==
  ASSUME NEW before \in Seq(R!Envelope), NEW behind \in Seq(R!Envelope),
         queue = (before \o <<R!Stop>>) \o behind
  PROVE  LET n == CHOOSE i \in 1..Len(queue) : queue[i] = R!Stop
         IN /\ R!Stop \in R!ToSet(queue) /\ n = Len(before) + 1
            /\ SubSeq(queue, 1, n - 1) = before
            /\ SubSeq(queue, n + 1, Len(queue)) = behind
<1> DEFINE m == Len(before) + 1
           S == R!Envelope \cup {R!Stop}
<1>1. before \in Seq(S) /\ behind \in Seq(S) /\ <<R!Stop>> \in Seq(S) /\ Len(<<R!Stop>>) = 1
  <2>1. before \in Seq(S) /\ behind \in Seq(S)
    BY SeqMonotonic
  <2> QED BY <2>1
<1>2. /\ before \o <<R!Stop>> \in Seq(S) /\ Len(before \o <<R!Stop>>) = m
      /\ \A i \in 1..m : (before \o <<R!Stop>>)[i] = IF i <= Len(before) THEN before[i] ELSE R!Stop
  BY <1>1, ConcatProperties, LenProperties
<1>3. /\ queue \in Seq(S) /\ Len(queue) = m + Len(behind)
      /\ \A i \in 1..Len(queue) : queue[i] = IF i <= m THEN (before \o <<R!Stop>>)[i] ELSE behind[i - m]
  BY <1>1, <1>2, ConcatProperties, LenProperties
<1>4. Len(before) \in Nat /\ Len(behind) \in Nat /\ m \in 1..Len(queue)
  BY <1>3, LenProperties
<1>5. \A i \in 1..Len(queue) : queue[i] = R!Stop <=> i = m
  <2> SUFFICES ASSUME NEW i \in 1..Len(queue) PROVE queue[i] = R!Stop <=> i = m
    OBVIOUS
  <2>1. CASE i < m
    <3>1. queue[i] = before[i] /\ before[i] \in R!Envelope
      BY <1>2, <1>3, <1>4, <2>1, ElementOfSeq
    <3> QED BY <2>1, <3>1, StopIsNoEnvelope
  <2>2. CASE i = m
    BY <1>2, <1>3, <1>4, <2>2
  <2>3. CASE i > m
    <3>1. queue[i] = behind[i - m] /\ behind[i - m] \in R!Envelope
      BY <1>2, <1>3, <1>4, <2>3, ElementOfSeq
    <3> QED BY <1>4, <2>3, <3>1, StopIsNoEnvelope
  <2> QED BY <1>4, <2>1, <2>2, <2>3
<1>6. (CHOOSE i \in 1..Len(queue) : queue[i] = R!Stop) = m
  BY <1>4, <1>5
<1>7. R!Stop \in R!ToSet(queue)
  BY <1>3, <1>4, <1>5 DEF R!ToSet
<1>8. SubSeq(queue, 1, m - 1) = before
  <2>1. /\ Len(SubSeq(queue, 1, m - 1)) = Len(before) /\ SubSeq(queue, 1, m - 1) \in Seq(S)
        /\ \A i \in 1..Len(before) : SubSeq(queue, 1, m - 1)[i] = queue[i]
    <3>1. \A i \in 1..(m - 1) : queue[i] \in S
      BY <1>3, <1>4, ElementOfSeq
    <3> QED BY <1>4, <3>1, SubSeqProperties
  <2>2. \A i \in 1..Len(before) : queue[i] = before[i]
    BY <1>2, <1>3, <1>4
  <2> QED BY <1>1, <2>1, <2>2, SeqEqual
<1>9. SubSeq(queue, m + 1, Len(queue)) = behind
  <2>1. /\ Len(SubSeq(queue, m + 1, Len(queue))) = Len(behind)
        /\ SubSeq(queue, m + 1, Len(queue)) \in Seq(S)
        /\ \A i \in 1..Len(behind) : SubSeq(queue, m + 1, Len(queue))[i] = queue[m + i]
    <3>1. \A i \in (m + 1)..Len(queue) : queue[i] \in S
      BY <1>3, <1>4, ElementOfSeq
    <3> QED BY <1>3, <1>4, <3>1, SubSeqProperties
  <2>2. \A i \in 1..Len(behind) : queue[m + i] = behind[i]
    BY <1>2, <1>3, <1>4
  <2> QED BY <1>1, <2>1, <2>2, SeqEqual
<1> QED BY <1>6, <1>7, <1>8, <1>9

\* The batch that ends at the stop mark is what stood in front of it.
LEMMA CutBatch ==
  ASSUME NEW before \in Seq(R!Envelope), NEW behind \in Seq(R!Envelope),
         queue = (before \o <<R!Stop>>) \o behind, R!TakeBatch
  PROVE  /\ queue' = behind
         /\ writer' = [at |-> IF before = <<>> THEN "ended" ELSE "last", batch |-> before]
<1> DEFINE n == CHOOSE i \in 1..Len(queue) : queue[i] = R!Stop
<1>1. /\ R!Stop \in R!ToSet(queue) /\ n = Len(before) + 1
      /\ SubSeq(queue, 1, n - 1) = before /\ SubSeq(queue, n + 1, Len(queue)) = behind
  BY CutAtMark
<1>2. /\ writer' = [at |-> IF n = 1 THEN "ended" ELSE "last", batch |-> SubSeq(queue, 1, n - 1)]
      /\ queue' = SubSeq(queue, n + 1, Len(queue))
  BY <1>1 DEF R!TakeBatch
<1> HIDE DEF n
<1>3. n = 1 <=> before = <<>>
  BY <1>1, EmptySeq, LenProperties
<1> QED BY <1>1, <1>2, <1>3

\* Every step keeps the types; a batch is free of the stop mark because there is one.
LEMMA ServerTypeStep == R!TypeOK /\ (Open \/ Marked \/ Cut) /\ [R!Next]_R!vars => R!TypeOK'
<1> SUFFICES ASSUME R!TypeOK, Open \/ Marked \/ Cut, [R!Next]_R!vars PROVE R!TypeOK'
  OBVIOUS
<1> USE DEF R!io, R!out
<1>0. CASE UNCHANGED R!vars
  BY <1>0 DEF R!TypeOK, R!vars
<1>1. ASSUME NEW kind \in R!Kind, NEW s \in Session \cup {R!NoSession}, R!Send(kind, s) PROVE R!TypeOK'
  <2>1. [kind |-> kind, session |-> s] \in [kind : R!Kind, session : Session \cup {R!NoSession}]
    OBVIOUS
  <2>2. sent' \in Seq([kind : R!Kind, session : Session \cup {R!NoSession}]) /\ Len(sent') = Len(sent) + 1
    BY <1>1, <2>1, AppendProperties DEF R!Send, R!TypeOK
  <2> QED BY <1>1, <2>2, LineBound DEF R!Send, R!TypeOK
<1>2. CASE R!Close \/ R!Break \/ R!ServerEnds
  BY <1>2 DEF R!Close, R!Break, R!ServerEnds, R!TypeOK
<1>3. CASE R!ReadLine
  <2>1. read' \in 0..Len(sent)
    BY <1>3 DEF R!ReadLine, R!TypeOK
  <2>2. lineTask' \in [R!Line -> Stage]
    BY <1>3 DEF R!ReadLine, R!TypeOK, Stage
  <2> QED BY <1>3, <2>1, <2>2 DEF R!ReadLine, R!TypeOK, Stage
<1>4. CASE R!ReadEnd
  BY <1>4 DEF R!ReadEnd, R!TypeOK, R!Unfinished
<1>5. CASE R!GatherEnds
  <2>1. queue' \in Seq(R!Envelope \cup {R!Stop})
    BY <1>5, AppendProperties DEF R!GatherEnds, R!TypeOK
  <2> QED BY <1>5, <2>1 DEF R!GatherEnds, R!TypeOK
<1>6. ASSUME NEW l \in R!Line, R!Enter(l) PROVE R!TypeOK'
  <2>1. entered' \in Seq(R!Line)
    BY <1>6, AppendProperties DEF R!Enter, R!TypeOK
  <2> QED BY <1>6, <2>1 DEF R!Enter, R!TypeOK
<1>7. ASSUME NEW l \in R!Line, R!Answer(l) \/ R!Ask(l) PROVE R!TypeOK'
  BY <1>7, EmitTyped DEF R!Answer, R!Ask, R!TypeOK
<1>8. ASSUME NEW l \in R!Line, R!Raise(l) PROVE R!TypeOK'
  BY <1>8 DEF R!Raise, R!TypeOK
<1>9. ASSUME NEW l \in R!Line, R!Submit(l) \/ R!Resume(l) PROVE R!TypeOK'
  <2>1. lineTask' \in [R!Line -> Stage]
    BY <1>9 DEF R!Submit, R!Resume, R!TypeOK, Stage
  <2>2. queue' \in Seq(R!Envelope \cup {R!Stop}) /\ emitted' \in Seq(R!Envelope)
    BY <1>9, EmitTyped DEF R!Submit, R!Resume
  <2> QED BY <1>9, <2>1, <2>2 DEF R!Submit, R!Resume, R!TypeOK, Stage
<1>10. CASE R!TakeBatch /\ R!Stop \notin R!ToSet(queue)
  <2>1. queue \in Seq(R!Envelope)
    BY <1>10 DEF R!ToSet, R!TypeOK
  <2> QED BY <1>10, <2>1, EmptySeq DEF R!TakeBatch, R!TypeOK
<1>11. CASE R!TakeBatch /\ R!Stop \in R!ToSet(queue)
  <2>1. PICK before \in Seq(R!Envelope), behind \in Seq(R!Envelope) :
          queue = (before \o <<R!Stop>>) \o behind
    <3>1. ~(queue \in Seq(R!Envelope))
      BY <1>11, StopIsNoEnvelope DEF R!ToSet
    <3> QED BY <3>1 DEF Open, Marked, Cut
  <2>2. PICK at \in {"ended", "last"} : writer' = [at |-> at, batch |-> before] /\ queue' = behind
    BY <1>11, <2>1, CutBatch
  <2>3. behind \in Seq(R!Envelope \cup {R!Stop})
    BY SeqMonotonic
  <2> QED BY <1>11, <2>2, <2>3 DEF R!TakeBatch, R!TypeOK
<1>12. CASE R!Write
  <2>1. written \o writer.batch \in Seq(R!Envelope)
    BY ConcatProperties DEF R!TypeOK
  <2> QED BY <1>12, <2>1, EmptySeq DEF R!Write, R!TypeOK
<1> QED BY <1>0, <1>1, <1>2, <1>3, <1>4, <1>5, <1>6, <1>7, <1>8, <1>9, <1>10, <1>11, <1>12 DEF R!Next

-----------------------------------------------------------------------------
\* Every step keeps the turns: a task enters when all that came before it in its
\* session have finished.
LEMMA OrderStep ==
  ASSUME R!TypeOK, LinesRead, Turns, R!SessionsInOrder, [R!Next]_R!vars
  PROVE  LinesRead' /\ Turns' /\ R!SessionsInOrder'
<1> USE DEF R!io, R!out
<1>a. ASSUME UNCHANGED <<entered, read>>, 
             \A l \in R!Line : l <= read => sent'[l] = sent[l],
             \A l \in R!Line : lineTask'[l] = "none" <=> lineTask[l] = "none",
             \A l \in R!Line : lineTask'[l] = "created" => lineTask[l] = "created"
      PROVE  LinesRead' /\ Turns' /\ R!SessionsInOrder'
  <2>1. \A i \in 1..Len(entered) : entered[i] \in R!Line
    BY ElementOfSeq DEF R!TypeOK
  <2>2. \A l \in R!Line : l <= read => R!SessionOf(l)' = R!SessionOf(l)
    BY <1>a DEF R!SessionOf
  <2>3. LinesRead'
    BY <1>a DEF LinesRead
  <2>4. Turns'
    BY <1>a, <2>1, <2>2 DEF Turns, LinesRead, R!SessionOf
  <2>5. R!SessionsInOrder'
    BY <1>a, <2>1 DEF R!SessionsInOrder, R!SessionOf, Turns
  <2> QED BY <2>3, <2>4, <2>5
<1>0. CASE UNCHANGED R!vars
  BY <1>0, <1>a DEF R!vars
<1>1. ASSUME NEW kind \in R!Kind, NEW s \in Session \cup {R!NoSession}, R!Send(kind, s)
      PROVE  LinesRead' /\ Turns' /\ R!SessionsInOrder'
  <2>1. \A l \in R!Line : l <= read => sent'[l] = sent[l]
    BY <1>1, AppendProperties DEF R!Send, R!TypeOK, R!Line
  <2> QED BY <1>1, <2>1, <1>a DEF R!Send
<1>2. CASE R!Close \/ R!Break \/ R!ServerEnds \/ R!ReadEnd \/ R!GatherEnds \/ R!TakeBatch \/ R!Write
  BY <1>2, <1>a DEF R!Close, R!Break, R!ServerEnds, R!ReadEnd, R!GatherEnds, R!TakeBatch, R!Write
<1>3. ASSUME NEW l \in R!Line, R!Answer(l) \/ R!Raise(l) \/ R!Ask(l) \/ R!Submit(l) \/ R!Resume(l)
      PROVE  LinesRead' /\ Turns' /\ R!SessionsInOrder'
  <2>1. UNCHANGED <<entered, read, sent>>
    BY <1>3 DEF R!Answer, R!Raise, R!Ask, R!Submit, R!Resume
  <2>2. \A k \in R!Line : \/ lineTask'[k] = lineTask[k]
                            \/ /\ lineTask[k] \in {"locked", "waiting", "resolved"}
                               /\ lineTask'[k] \in {"waiting", "resolved", "done", "failed"}
    BY <1>3 DEF R!Answer, R!Raise, R!Ask, R!Submit, R!Resume, R!TypeOK
  <2> QED BY <2>1, <2>2, <1>a
<1>4. CASE R!ReadLine
  <2>1. read' = read + 1 /\ read + 1 \in R!Line /\ UNCHANGED <<entered, sent>>
    <3>1. read < Len(sent) /\ read \in 0..Len(sent) /\ Len(sent) \in Nat /\ Len(sent) <= MaxLines
      BY <1>4, LenProperties DEF R!ReadLine, R!TypeOK
    <3> QED BY <1>4, <3>1, LineBound DEF R!ReadLine, R!Line
  <2>2. \A l \in R!Line : lineTask'[l] = IF l = read + 1 THEN "created" ELSE lineTask[l]
    BY <1>4, <2>1 DEF R!ReadLine, R!TypeOK
  <2>3. LinesRead'
    BY <2>1, <2>2 DEF LinesRead, R!TypeOK, R!Line
  <2>4. \A i \in 1..Len(entered) : entered[i] \in R!Line /\ entered[i] # read + 1 /\ entered[i] <= read
    <3>1. \A i \in 1..Len(entered) : entered[i] \in R!Line
      BY ElementOfSeq DEF R!TypeOK
    <3>2. read \in Nat
      BY LenProperties DEF R!TypeOK
    <3> QED BY <3>1, <3>2 DEF Turns, R!Line
  <2>5. Turns'
    BY <2>1, <2>2, <2>4 DEF Turns, R!SessionOf, R!TypeOK, R!Line
  <2>6. R!SessionsInOrder'
    BY <2>1 DEF R!SessionsInOrder, R!SessionOf
  <2> QED BY <2>3, <2>5, <2>6
<1>5. ASSUME NEW l \in R!Line, R!Enter(l), ~R!Locks(l)
      PROVE  LinesRead' /\ Turns' /\ R!SessionsInOrder'
  <2>1. UNCHANGED <<entered, read, sent>>
    BY <1>5 DEF R!Enter
  <2>2. \A k \in R!Line : lineTask'[k] = IF k = l THEN "locked" ELSE lineTask[k]
    BY <1>5 DEF R!Enter, R!TypeOK
  <2> QED BY <1>5, <2>1, <2>2, <1>a DEF R!Enter
<1>6. ASSUME NEW l \in R!Line, R!Enter(l), R!Locks(l)
      PROVE  LinesRead' /\ Turns' /\ R!SessionsInOrder'
  <2>1. entered' = Append(entered, l) /\ UNCHANGED <<read, sent>> /\ lineTask[l] = "created"
    BY <1>6 DEF R!Enter
  <2>2. \A k \in R!Line : lineTask'[k] = IF k = l THEN "locked" ELSE lineTask[k]
    BY <1>6 DEF R!Enter, R!TypeOK
  <2>3. \A k \in R!Line : lineTask[k] = "created" /\ R!SessionOf(k) = R!SessionOf(l) => l <= k
    BY <1>6 DEF R!Enter, R!Unfinished
  <2>4. /\ Len(entered) \in Nat /\ Len(entered') = Len(entered) + 1 /\ entered'[Len(entered) + 1] = l
        /\ \A i \in 1..Len(entered) : entered'[i] = entered[i] /\ entered[i] \in R!Line
    BY <2>1, AppendProperties, LenProperties, ElementOfSeq DEF R!TypeOK
  <2>5. l <= read
    BY <2>1 DEF LinesRead
  <2>6. \A i \in 1..Len(entered) : R!SessionOf(entered[i]) = R!SessionOf(l) => entered[i] < l
    BY <2>1 DEF Turns
  <2>7. LinesRead'
    BY <2>1, <2>2 DEF LinesRead
  <2>8. Turns'
    <3> SUFFICES ASSUME NEW i \in 1..(Len(entered) + 1)
                 PROVE  /\ entered'[i] <= read /\ lineTask'[entered'[i]] # "created"
                        /\ \A k \in R!Line : lineTask'[k] = "created" /\ R!SessionOf(k) = R!SessionOf(entered'[i])
                             => entered'[i] < k
      BY <2>1, <2>4 DEF Turns, R!SessionOf
    <3>1. CASE i \in 1..Len(entered)
      BY <2>2, <2>4, <3>1 DEF Turns
    <3>2. CASE i = Len(entered) + 1
      BY <2>2, <2>3, <2>4, <2>5, <3>2 DEF R!Line
    <3> QED BY <2>4, <3>1, <3>2
  <2>9. R!SessionsInOrder'
    <3> SUFFICES ASSUME NEW i \in 1..(Len(entered) + 1), NEW j \in 1..(Len(entered) + 1), i < j,
                        R!SessionOf(entered'[i]) = R!SessionOf(entered'[j])
                 PROVE  entered'[i] < entered'[j]
      BY <2>1, <2>4 DEF R!SessionsInOrder, R!SessionOf
    <3>1. CASE j \in 1..Len(entered)
      BY <2>4, <3>1 DEF R!SessionsInOrder
    <3>2. CASE j = Len(entered) + 1
      BY <2>4, <2>6, <3>2
    <3> QED BY <2>4, <3>1, <3>2
  <2> QED BY <2>7, <2>8, <2>9
<1> QED BY <1>0, <1>1, <1>2, <1>3, <1>4, <1>5, <1>6 DEF R!Next

-----------------------------------------------------------------------------
\* What a step of a task does: one or two unfinished tasks move on, and what they
\* say goes to the end of the queue.
Moves(l, es) ==
  /\ queue' = queue \o es /\ emitted' = emitted \o es
  /\ l \in R!Unfinished
  /\ \A k \in R!Line : k \notin R!Unfinished => lineTask'[k] = lineTask[k]
  /\ \A k \in R!Line : lineTask'[k] = "done" /\ lineTask[k] # "done" =>
       \E i \in 1..Len(es) : es[i] = [line |-> k, what |-> "answer"]
  /\ UNCHANGED <<written, writer, broken, server, gathered>> /\ server # "ended"

\* Every step of a task moves it so.
LEMMA TaskStepEffect ==
  ASSUME R!TypeOK, NEW l \in R!Line, TaskStep(l)
  PROVE  \E es \in Seq(R!Envelope) : Moves(l, es)
<1> USE DEF R!io, R!out, Moves
<1>1. CASE R!Enter(l) \/ R!Raise(l)
  <2>1. queue' = queue \o <<>> /\ emitted' = emitted \o <<>> /\ <<>> \in Seq(R!Envelope)
    BY <1>1, ConcatEmptySeq, EmptySeq DEF R!Enter, R!Raise, R!TypeOK
  <2>2. Moves(l, <<>>)
    BY <1>1, <2>1 DEF R!Enter, R!Raise, R!TypeOK, R!Unfinished
  <2> HIDE DEF Moves
  <2> QED BY <2>1, <2>2
<1>2. ASSUME NEW what \in {"event", "answer"}, R!Emit(l, what), l \in R!Unfinished,
             NEW on \in [R!Line -> Stage], \A k \in R!Line : k # l => on[k] \in {lineTask[k], "resolved"},
             \A k \in R!Line : k \notin R!Unfinished => on[k] = lineTask[k],
             lineTask' = [on EXCEPT ![l] = IF what = "event" THEN "waiting" ELSE "done"],
             UNCHANGED <<written, writer, broken, server, gathered>>, server # "ended"
      PROVE  \E es \in Seq(R!Envelope) : Moves(l, es)
  <2> DEFINE es == <<[line |-> l, what |-> what]>>
  <2>1. queue' = queue \o es /\ emitted' = emitted \o es /\ es \in Seq(R!Envelope)
    <3>1. [line |-> l, what |-> what] \in R!Envelope
      BY DEF R!Envelope
    <3>2. es \in Seq(R!Envelope)
      BY <3>1
    <3> QED BY <1>2, <3>1, <3>2, EmitTyped
  <2>2. Len(es) = 1 /\ es[1] = [line |-> l, what |-> what]
    OBVIOUS
  <2>3. \A k \in R!Line : lineTask'[k] = IF k = l THEN IF what = "event" THEN "waiting" ELSE "done" ELSE on[k]
    BY <1>2
  <2>4. \A k \in R!Line : lineTask'[k] = "done" /\ lineTask[k] # "done" =>
          \E i \in 1..Len(es) : es[i] = [line |-> k, what |-> "answer"]
    BY <1>2, <2>2, <2>3
  <2> HIDE DEF es
  <2>5. Moves(l, es)
    BY <1>2, <2>1, <2>3, <2>4
  <2> HIDE DEF Moves
  <2> QED BY <2>1, <2>5
<1>3. CASE R!Answer(l) \/ R!Ask(l) \/ R!Resume(l)
  <2>1. lineTask \in [R!Line -> Stage]
    BY DEF R!TypeOK, Stage
  <2> QED BY <1>2, <1>3, <2>1 DEF R!Answer, R!Ask, R!Resume, R!Unfinished
<1>4. CASE R!Submit(l)
  <2>1. PICK on \in [R!Line -> Stage] :
          /\ lineTask' = [on EXCEPT ![l] = "done"]
          /\ \A k \in R!Line : on[k] = lineTask[k] \/ (lineTask[k] = "waiting" /\ on[k] = "resolved")
    <3>1. lineTask \in [R!Line -> Stage]
      BY DEF R!TypeOK, Stage
    <3>2. CASE lineTask' = [lineTask EXCEPT ![l] = "done"]
      BY <3>1, <3>2
    <3>3. ASSUME NEW k \in R!Line, lineTask[k] = "waiting",
                 lineTask' = [lineTask EXCEPT ![l] = "done", ![k] = "resolved"]
          PROVE  \E on \in [R!Line -> Stage] :
                   /\ lineTask' = [on EXCEPT ![l] = "done"]
                   /\ \A m \in R!Line : on[m] = lineTask[m] \/ (lineTask[m] = "waiting" /\ on[m] = "resolved")
      <4> DEFINE on == [lineTask EXCEPT ![k] = "resolved"]
      <4>1. on \in [R!Line -> Stage] /\ k # l
        BY <1>4, <3>1, <3>3 DEF R!Submit, Stage
      <4>2. lineTask' = [on EXCEPT ![l] = "done"]
        BY <3>1, <3>3, <4>1
      <4>3. \A m \in R!Line : on[m] = lineTask[m] \/ (lineTask[m] = "waiting" /\ on[m] = "resolved")
        BY <3>1, <3>3
      <4> QED BY <4>1, <4>2, <4>3
    <3> QED BY <1>4, <3>2, <3>3 DEF R!Submit
  <2>2. \A k \in R!Line : k \notin R!Unfinished => on[k] = lineTask[k]
    BY <2>1 DEF R!Unfinished
  <2>3. R!Emit(l, "answer") /\ l \in R!Unfinished /\ server # "ended"
        /\ UNCHANGED <<written, writer, broken, server, gathered>>
    BY <1>4 DEF R!Submit, R!Unfinished
  <2> QED BY <1>2, <2>1, <2>2, <2>3
<1> QED BY <1>1, <1>3, <1>4 DEF TaskStep

\* Steps that leave the tasks and the history alone.
Elsewhere ==
  \/ UNCHANGED R!vars
  \/ \E kind \in R!Kind, s \in Session \cup {R!NoSession} : R!Send(kind, s)
  \/ R!Close \/ R!Break \/ R!ReadEnd \/ R!GatherEnds \/ R!ServerEnds \/ R!TakeBatch \/ R!Write

\* The steps, by what they do to the tasks.
LEMMA StepsSplit ==
  [R!Next]_R!vars => Elsewhere \/ R!ReadLine \/ \E l \in R!Line : TaskStep(l)
BY DEF R!Next, Elsewhere, TaskStep

\* Every step keeps the answers of the finished tasks.
LEMMA AnswersStep ==
  ASSUME R!TypeOK, LinesRead, Answers, [R!Next]_R!vars
  PROVE  Answers'
<1> USE DEF R!io, R!out
<1>1. CASE Elsewhere
  <2>1. UNCHANGED <<lineTask, emitted>>
    BY <1>1 DEF Elsewhere, R!vars, R!Send, R!Close, R!Break, R!ReadEnd, R!GatherEnds, R!ServerEnds,
                R!TakeBatch, R!Write
  <2> QED BY <2>1 DEF Answers
<1>2. CASE R!ReadLine
  <2>1. \A l \in R!Line : lineTask'[l] = "done" => lineTask[l] = "done"
    BY <1>2 DEF R!ReadLine, R!TypeOK
  <2> QED BY <1>2, <2>1 DEF R!ReadLine, Answers
<1>3. ASSUME NEW l \in R!Line, TaskStep(l) PROVE Answers'
  <2>1. PICK es \in Seq(R!Envelope) :
          /\ emitted' = emitted \o es
          /\ \A k \in R!Line : lineTask'[k] = "done" /\ lineTask[k] # "done" =>
                \E i \in 1..Len(es) : es[i] = [line |-> k, what |-> "answer"]
    BY <1>3, TaskStepEffect DEF Moves
  <2>2. /\ Len(emitted) \in Nat /\ Len(es) \in Nat /\ Len(emitted') = Len(emitted) + Len(es)
        /\ \A i \in 1..Len(emitted) : emitted'[i] = emitted[i]
        /\ \A i \in 1..Len(es) : emitted'[Len(emitted) + i] = es[i]
    <3>1. emitted \in Seq(R!Envelope)
      BY DEF R!TypeOK
    <3>2. Len(emitted) \in Nat /\ Len(es) \in Nat
      BY <3>1, LenProperties
    <3>3. /\ Len(emitted \o es) = Len(emitted) + Len(es)
          /\ \A i \in 1..(Len(emitted) + Len(es)) :
               (emitted \o es)[i] = IF i <= Len(emitted) THEN emitted[i] ELSE es[i - Len(emitted)]
      BY <3>1, ConcatProperties
    <3> QED BY <2>1, <3>2, <3>3
  <2> SUFFICES ASSUME NEW k \in R!Line, lineTask'[k] = "done"
               PROVE  \E i \in 1..Len(emitted') : emitted'[i] = [line |-> k, what |-> "answer"]
    BY DEF Answers
  <2>3. CASE lineTask[k] = "done"
    BY <2>2, <2>3 DEF Answers
  <2>4. CASE lineTask[k] # "done"
    <3>1. PICK i \in 1..Len(es) : es[i] = [line |-> k, what |-> "answer"]
      BY <2>1, <2>4
    <3>2. Len(emitted) + i \in 1..Len(emitted') /\ emitted'[Len(emitted) + i] = es[i]
      BY <2>2
    <3> QED BY <3>1, <3>2
  <2> QED BY <2>3, <2>4
<1> QED BY <1>1, <1>2, <1>3, StepsSplit

\* Every step keeps what gather waits for: no task is made after the end of input,
\* and a failed one stays failed.
LEMMA GatheredStep ==
  ASSUME R!TypeOK, Gathered, [R!Next]_R!vars
  PROVE  Gathered'
<1> USE DEF R!io, R!out
<1>1. CASE Elsewhere
  <2>1. CASE R!ReadEnd
    BY <2>1 DEF R!ReadEnd, Gathered, R!Unfinished
  <2>2. CASE R!GatherEnds
    BY <2>2 DEF R!GatherEnds, Gathered, R!Unfinished, AllDone
  <2>3. CASE ~R!ReadEnd /\ ~R!GatherEnds
    <3>1. UNCHANGED <<lineTask, gathered>> /\ (server' = server \/ (server = "stopping" /\ server' = "ended"))
      BY <1>1, <2>3 DEF Elsewhere, R!vars, R!Send, R!Close, R!Break, R!ServerEnds, R!TakeBatch, R!Write
    <3> QED BY <3>1 DEF Gathered, R!Unfinished, AllDone
  <2> QED BY <2>1, <2>2, <2>3
<1>2. CASE R!ReadLine
  BY <1>2 DEF R!ReadLine, Gathered
<1>3. ASSUME NEW l \in R!Line, TaskStep(l) PROVE Gathered'
  <2>1. /\ l \in R!Unfinished /\ UNCHANGED <<server, gathered>>
        /\ \A k \in R!Line : k \notin R!Unfinished => lineTask'[k] = lineTask[k]
    BY <1>3, TaskStepEffect DEF Moves
  <2>2. R!Unfinished' \subseteq R!Unfinished
    BY <2>1 DEF R!Unfinished
  <2>3. server \in {"stopping", "ended"} => \E k \in gathered : lineTask[k] = "failed" /\ lineTask'[k] = "failed"
    BY <2>1 DEF Gathered, AllDone, R!Unfinished, R!TypeOK
  <2> QED BY <2>1, <2>2, <2>3 DEF Gathered
<1> QED BY <1>1, <1>2, <1>3, StepsSplit

-----------------------------------------------------------------------------
Out == Open \/ Marked \/ Cut

\* The same of the next state, for a sequence of this one.
AccountedNext(rest) == ~broken' => emitted' = written' \o (Held' \o rest)

\* Concatenation is associative, for envelopes.
LEMMA Associative ==
  ASSUME NEW a \in Seq(R!Envelope), NEW b \in Seq(R!Envelope), NEW c \in Seq(R!Envelope)
  PROVE  (a \o b) \o c = a \o (b \o c)
<1> DEFINE E == R!Envelope
<1>1. a \in Seq(E) /\ b \in Seq(E) /\ c \in Seq(E)
  OBVIOUS
<1> HIDE DEF E
<1> QED BY <1>1, ConcatAssociative

\* What is emitted goes behind everything that is on its way, and a written batch
\* stays in front of what is left.
LEMMA OnTheWay ==
  ASSUME R!TypeOK, NEW rest \in Seq(R!Envelope), NEW es \in Seq(R!Envelope)
  PROVE  /\ (written \o (Held \o rest)) \o es = written \o (Held \o (rest \o es))
         /\ (written \o Held) \o (<<>> \o rest) = written \o (Held \o rest)
         /\ Held \in Seq(R!Envelope) /\ rest \o es \in Seq(R!Envelope)
<1>1. written \in Seq(R!Envelope) /\ Held \in Seq(R!Envelope)
  BY DEF R!TypeOK, Held
<1>2. ASSUME NEW w \in Seq(R!Envelope), NEW h \in Seq(R!Envelope)
      PROVE  /\ (w \o (h \o rest)) \o es = w \o (h \o (rest \o es))
             /\ (w \o h) \o (<<>> \o rest) = w \o (h \o rest)
             /\ rest \o es \in Seq(R!Envelope)
  <2>1. h \o rest \in Seq(R!Envelope) /\ rest \o es \in Seq(R!Envelope)
    BY ConcatProperties
  <2>2. (w \o (h \o rest)) \o es = w \o ((h \o rest) \o es)
    BY <2>1, Associative
  <2>3. (h \o rest) \o es = h \o (rest \o es)
    BY Associative
  <2>4. (w \o h) \o rest = w \o (h \o rest)
    BY Associative
  <2>5. <<>> \o rest = rest
    BY ConcatEmptySeq
  <2> QED BY <2>1, <2>2, <2>3, <2>4, <2>5
<1> QED BY <1>1, <1>2

\* What a task says is accounted for behind what was queued.
LEMMA EmitAccounted ==
  ASSUME R!TypeOK, NEW rest \in Seq(R!Envelope), Accounted(rest), NEW es \in Seq(R!Envelope),
         emitted' = emitted \o es, UNCHANGED <<written, writer, broken>>
  PROVE  AccountedNext(rest \o es) /\ rest \o es \in Seq(R!Envelope)
<1>1. Held' = Held
  BY DEF Held
<1>2. (written \o (Held \o rest)) \o es = written \o (Held \o (rest \o es)) /\ rest \o es \in Seq(R!Envelope)
  BY OnTheWay
<1>3. ~broken => emitted = written \o (Held \o rest)
  BY DEF Accounted
<1>4. ~broken => emitted' = written \o (Held \o (rest \o es))
  BY <1>2, <1>3
<1> QED BY <1>1, <1>2, <1>4 DEF AccountedNext

\* A task's step keeps the account of the output.
LEMMA OutTaskStep ==
  ASSUME R!TypeOK, Gathered, Emptied, Out, NEW l \in R!Line, TaskStep(l)
  PROVE  Emptied' /\ Out'
<1>1. PICK es \in Seq(R!Envelope) : Moves(l, es)
  BY TaskStepEffect
<1>2. Emptied'
  BY <1>1 DEF Moves, Emptied, Held
<1>3. server = "stopping" => ~AllDone /\ ~AllDone'
  BY <1>1 DEF Moves, Gathered, AllDone, R!Unfinished, R!TypeOK
<1>4. CASE Open
  <2>1. AccountedNext(queue \o es) /\ queue \o es \in Seq(R!Envelope)
    BY <1>1, <1>4, EmitAccounted DEF Open, Moves
  <2> QED BY <1>1, <1>2, <1>4, <2>1 DEF Open, Out, Moves, Accounted, AccountedNext
<1>5. CASE Marked
  <2>1. PICK before \in Seq(R!Envelope), behind \in Seq(R!Envelope) :
          queue = (before \o <<R!Stop>>) \o behind /\ Accounted(before \o behind)
    BY <1>5 DEF Marked
  <2>2. before \o behind \in Seq(R!Envelope) /\ behind \o es \in Seq(R!Envelope)
        /\ (before \o behind) \o es = before \o (behind \o es)
    BY ConcatProperties, ConcatAssociative
  <2>3. AccountedNext(before \o (behind \o es))
    <3>1. AccountedNext((before \o behind) \o es)
      BY <1>1, <2>1, <2>2, EmitAccounted DEF Moves
    <3> QED BY <2>2, <3>1
  <2>4. queue' = (before \o <<R!Stop>>) \o (behind \o es)
    <3> DEFINE S == R!Envelope \cup {R!Stop}
    <3>1. before \in Seq(S) /\ behind \in Seq(S) /\ es \in Seq(S)
      BY SeqMonotonic
    <3>2. <<R!Stop>> \in Seq(S)
      OBVIOUS
    <3> HIDE DEF S
    <3>3. before \o <<R!Stop>> \in Seq(S)
      BY <3>1, <3>2, ConcatProperties
    <3>4. ((before \o <<R!Stop>>) \o behind) \o es = (before \o <<R!Stop>>) \o (behind \o es)
      BY <3>1, <3>3, ConcatAssociative
    <3> QED BY <1>1, <2>1, <3>4 DEF Moves
  <2>5. server' = "stopping" /\ writer'.at \in {"idle", "writing"}
    BY <1>1, <1>5 DEF Moves, Marked
  <2> QED BY <1>2, <1>3, <1>5, <2>2, <2>3, <2>4, <2>5 DEF Out, Marked, Accounted, AccountedNext
<1>6. CASE Cut
  <2>1. AccountedNext(queue \o es) /\ queue \o es \in Seq(R!Envelope)
    BY <1>1, <1>6, EmitAccounted DEF Cut, Moves
  <2> QED BY <1>1, <1>2, <1>3, <1>6, <2>1 DEF Cut, Out, Moves, Accounted, AccountedNext
<1> QED BY <1>2, <1>4, <1>5, <1>6 DEF Out

\* A write moves the batch to the client, and loses it only when the pipe is broken.
LEMMA OutWriteStep ==
  ASSUME R!TypeOK, Emptied, Out, R!Write
  PROVE  Emptied' /\ Out'
<1> USE DEF R!io, R!out
<1>1. written' = IF broken THEN written ELSE written \o Held
  BY DEF R!Write, Held
<1>2. /\ Held' = <<>> /\ writer'.at = IF writer.at = "last" THEN "ended" ELSE "idle"
      /\ UNCHANGED <<queue, broken, emitted, server, gathered, lineTask>>
  BY DEF R!Write, Held
<1>3. ASSUME NEW rest \in Seq(R!Envelope), Accounted(rest) PROVE AccountedNext(rest)
  <2>1. (written \o Held) \o (<<>> \o rest) = written \o (Held \o rest)
    BY OnTheWay
  <2> QED BY <1>1, <1>2, <1>3, <2>1 DEF Accounted, AccountedNext
<1>4. Emptied'
  BY <1>2 DEF Emptied
<1>5. CASE Open
  <2>1. AccountedNext(queue)
    BY <1>3, <1>5 DEF Open
  <2> QED BY <1>2, <1>4, <1>5, <2>1 DEF Open, Out, R!Write, Accounted, AccountedNext
<1>6. CASE Marked
  <2>1. PICK before \in Seq(R!Envelope), behind \in Seq(R!Envelope) :
          /\ queue = (before \o <<R!Stop>>) \o behind /\ Accounted(before \o behind)
          /\ AllDone => behind = <<>>
    BY <1>6 DEF Marked
  <2>2. AccountedNext(before \o behind)
    BY <1>3, <2>1, ConcatProperties
  <2> QED BY <1>2, <1>4, <1>6, <2>1, <2>2 DEF Marked, Out, R!Write, AllDone, Accounted, AccountedNext
<1>7. CASE Cut
  <2>1. AccountedNext(queue)
    BY <1>3, <1>7 DEF Cut
  <2> QED BY <1>2, <1>4, <1>7, <2>1 DEF Cut, Out, R!Write, AllDone, Accounted, AccountedNext
<1> QED BY <1>4, <1>5, <1>6, <1>7 DEF Out

\* Taking a batch moves it from the queue to the writer.
LEMMA OutTakeStep ==
  ASSUME R!TypeOK, Emptied, Out, R!TakeBatch
  PROVE  Emptied' /\ Out'
<1> USE DEF R!io, R!out
<1>1. writer.at = "idle" /\ Held = <<>> /\ written \in Seq(R!Envelope)
      /\ UNCHANGED <<written, broken, emitted, server, gathered, lineTask>>
  BY DEF R!TakeBatch, Emptied, R!TypeOK, Held
<1>2. CASE Open
  <2>1. R!Stop \notin R!ToSet(queue)
    BY <1>2, StopIsNoEnvelope, ElementOfSeq DEF Open, R!ToSet
  <2>2. writer'.at = "writing" /\ Held' = queue /\ queue' = <<>>
    BY <2>1 DEF R!TakeBatch, Held
  <2>3. queue \in Seq(R!Envelope) /\ <<>> \o queue = queue \o <<>> /\ <<>> \in Seq(R!Envelope)
    BY <1>2, ConcatEmptySeq, EmptySeq DEF Open
  <2>4. Accounted(queue)
    BY <1>2 DEF Open
  <2>5. AccountedNext(<<>>)
    BY <1>1, <2>2, <2>3, <2>4 DEF Accounted, AccountedNext
  <2> QED BY <1>1, <1>2, <2>2, <2>3, <2>5 DEF Open, Out, Emptied, Accounted, AccountedNext
<1>3. CASE Marked
  <2>1. PICK before \in Seq(R!Envelope), behind \in Seq(R!Envelope) :
          /\ queue = (before \o <<R!Stop>>) \o behind /\ Accounted(before \o behind)
          /\ AllDone => behind = <<>>
    BY <1>3 DEF Marked
  <2>2. queue' = behind /\ Held' = before /\ writer'.at = IF before = <<>> THEN "ended" ELSE "last"
    <3>1. queue' = behind /\ writer' = [at |-> IF before = <<>> THEN "ended" ELSE "last", batch |-> before]
      BY <2>1, CutBatch
    <3> QED BY <3>1 DEF Held
  <2>3. <<>> \o (before \o behind) = before \o behind
    BY ConcatEmptySeq, ConcatProperties
  <2>4. AccountedNext(behind)
    BY <1>1, <2>1, <2>2, <2>3 DEF Accounted, AccountedNext
  <2> QED BY <1>1, <1>3, <2>1, <2>2, <2>4 DEF Marked, Cut, Out, Emptied, AllDone, Accounted, AccountedNext
<1>4. CASE Cut
  BY <1>1, <1>4 DEF Cut
<1> QED BY <1>2, <1>3, <1>4 DEF Out

\* The stop mark goes behind what is queued.
LEMMA OutGatherStep ==
  ASSUME R!TypeOK, Emptied, Out, R!GatherEnds
  PROVE  Emptied' /\ Out'
<1> USE DEF R!io, R!out
<1>1. Open /\ UNCHANGED <<written, writer, Held, broken, emitted>> /\ server' = "stopping"
  BY DEF R!GatherEnds, Out, Open, Marked, Cut, Held
<1>2. queue \in Seq(R!Envelope) /\ queue \in Seq(R!Envelope \cup {R!Stop}) /\ <<>> \in Seq(R!Envelope)
  BY <1>1, EmptySeq DEF Open, R!TypeOK
<1>3. queue' = (queue \o <<R!Stop>>) \o <<>>
  <2>1. queue' = queue \o <<R!Stop>> /\ queue' \in Seq(R!Envelope \cup {R!Stop})
    BY <1>2, AppendIsConcat, AppendProperties DEF R!GatherEnds
  <2> QED BY <2>1, ConcatEmptySeq
<1>4. AccountedNext(queue \o <<>>)
  BY <1>1, <1>2, ConcatEmptySeq DEF Open, Accounted, AccountedNext
<1>5. Marked'
  <2>1. writer'.at \in {"idle", "writing"}
    BY <1>1 DEF Open
  <2> QED BY <1>1, <1>2, <1>3, <1>4, <2>1 DEF Marked, Accounted, AccountedNext
<1> QED BY <1>1, <1>5 DEF Out, Emptied

\* Every step keeps the account of the output.
LEMMA OutStep ==
  ASSUME R!TypeOK, Gathered, Emptied, Out, [R!Next]_R!vars
  PROVE  Emptied' /\ Out'
<1> USE DEF R!io, R!out
<1>1. CASE UNCHANGED R!vars \/ R!Close \/ \E kind \in R!Kind, s \in Session \cup {R!NoSession} : R!Send(kind, s)
  <2>1. UNCHANGED <<queue, written, writer, broken, emitted, server, gathered, lineTask>>
    BY <1>1 DEF R!vars, R!Close, R!Send
  <2> QED BY <2>1 DEF Out, Open, Marked, Cut, Accounted, AllDone, Emptied, Held
<1>2. CASE R!Break
  BY <1>2 DEF R!Break, Out, Open, Marked, Cut, Accounted, AllDone, Emptied, Held
<1>3. CASE R!ReadEnd \/ R!ReadLine
  BY <1>3 DEF R!ReadEnd, R!ReadLine, Out, Open, Marked, Cut, Accounted, Emptied, Held
<1>4. CASE R!ServerEnds
  BY <1>4 DEF R!ServerEnds, Out, Open, Marked, Cut, Accounted, AllDone, Emptied, Held
<1> QED BY <1>1, <1>2, <1>3, <1>4, StepsSplit, OutTaskStep, OutWriteStep, OutTakeStep, OutGatherStep
    DEF Elsewhere

\* The server's invariant holds at first.
LEMMA ServerInit == R!Init => ServerIInv
<1> SUFFICES ASSUME R!Init PROVE ServerIInv
  OBVIOUS
<1>1. R!TypeOK
  BY ServerTypeInit
<1>2. LinesRead
  BY LineBound DEF R!Init, LinesRead, R!Line
<1>3. Turns /\ R!SessionsInOrder
  BY EmptySeq DEF R!Init, Turns, R!SessionsInOrder
<1>4. Answers /\ Gathered /\ Emptied
  BY DEF R!Init, R!Idle, Answers, Gathered, R!Unfinished, Emptied, Held
<1>5. Open
  <2>1. <<>> \in Seq(R!Envelope) /\ <<>> = <<>> \o (<<>> \o <<>>)
    BY EmptySeq, ConcatEmptySeq
  <2> QED BY <2>1 DEF R!Init, R!Idle, Open, Accounted, Held
<1> QED BY <1>1, <1>2, <1>3, <1>4, <1>5 DEF ServerIInv

\* Every step of the server keeps its invariant.
LEMMA ServerStep == ServerIInv /\ [R!Next]_R!vars => ServerIInv'
BY ServerTypeStep, OrderStep, AnswersStep, GatheredStep, OutStep DEF ServerIInv, Out

\* The invariant gives the property.
LEMMA ServerInvGives == ServerIInv => R!OutputWhole
<1> SUFFICES ASSUME ServerIInv PROVE R!OutputWhole
  OBVIOUS
<1>1. R!OutputInOrder
  <2> SUFFICES ASSUME ~broken PROVE R!IsPrefix(written, emitted)
    BY DEF R!OutputInOrder
  <2>1. written \in Seq(R!Envelope) /\ Held \in Seq(R!Envelope)
    BY DEF ServerIInv, R!TypeOK, Held
  <2>2. PICK rest \in Seq(R!Envelope) : emitted = written \o rest
    BY <2>1, ConcatProperties DEF ServerIInv, Open, Marked, Cut, Accounted
  <2> QED BY <2>1, <2>2, ConcatProperties DEF R!IsPrefix
<1>2. R!EndWritesAll
  <2> SUFFICES ASSUME server = "ended", ~broken, AllDone
               PROVE  written = emitted
    BY DEF R!EndWritesAll, ServerIInv, Answers, AllDone
  <2>1. Cut /\ Held = <<>> /\ queue = <<>> /\ written \in Seq(R!Envelope)
    BY DEF ServerIInv, Open, Marked, Cut, Emptied, R!TypeOK
  <2>2. written \o (<<>> \o <<>>) = written
    BY <2>1, ConcatEmptySeq
  <2> QED BY <2>1, <2>2 DEF Cut, Accounted
<1> QED BY <1>1, <1>2 DEF ServerIInv, R!OutputWhole

-----------------------------------------------------------------------------
(* Onboarding questions, for any number of questions, submits, runs and     *)
(* deaths and any set of options.                                          *)

\* The unique index, without counting.
AtMostOne == \A a, b \in Pending : a = b

\* The question the tool waits for is either on its way to the run loop or
\* registered; the future follows the table.
ToolServed ==
  /\ tool # NoAttempt => run /\ row[tool].kind = "live"
  /\ queued # NoAttempt =>
       tool = queued /\ future.attempt = NoAttempt /\ row[queued].status = "pending"
  /\ tool # NoAttempt => queued = tool \/ future.attempt = tool
  /\ future.attempt # NoAttempt => tool = future.attempt /\ future.state # "none"
  /\ future.state # "none" => future.attempt # NoAttempt
  /\ future.state = "open" => row[future.attempt].status = "pending"
  /\ future.state \in {"scheduled", "set"} =>
       row[future.attempt].status = "completed" /\ row[future.attempt].answer = future.answer

\* What was answered is complete.
AnswersStored ==
  /\ \A r \in Submit : reply[r].at = "ok" =>
       /\ reply[r].attempt \in Attempt
       /\ row[reply[r].attempt].status = "completed"
       /\ row[reply[r].attempt].answer = reply[r].answer
  /\ \A a \in Attempt : taken[a] # "none" =>
       row[a].status = "completed" /\ taken[a] = row[a].answer

IInv == TypeOK /\ AtMostOne /\ ToolServed /\ QuestionOwned /\ AnswersStored

\* Counting: a set in which all elements are equal has at most one.
LEMMA AtMostOneCounts == AtMostOne => OnePending
<1> SUFFICES ASSUME AtMostOne PROVE Cardinality(Pending) <= 1
  BY DEF OnePending
<1>1. CASE Pending = {}
  BY <1>1, FS_EmptySet
<1>2. CASE Pending # {}
  <2>1. PICK a \in Pending : TRUE
    BY <1>2
  <2>2. Pending = {a}
    BY <2>1 DEF AtMostOne
  <2>3. Cardinality({a}) = 1
    BY FS_Singleton
  <2> QED BY <2>2, <2>3
<1> QED BY <1>1, <1>2

\* The invariant gives the property.
LEMMA InvGivesOneQuestion == IInv => OneQuestion
BY AtMostOneCounts DEF IInv, AnswersStored, OneQuestion, OneAnswer

\* No question, no run, no answer at first.
LEMMA InitIInv == MaxAttempts \in Nat /\ MaxRuns \in Nat /\ MaxDeaths \in Nat /\ Init => IInv
<1> SUFFICES ASSUME MaxAttempts \in Nat, MaxRuns \in Nat, MaxDeaths \in Nat, Init PROVE IInv
  OBVIOUS
<1>1. TypeOK
  <2>1. row \in [Attempt -> [status : {"none", "pending", "completed", "abandoned"},
                             kind : {"none", "start", "live"}, answer : Answer]]
    BY DEF Init, NoRow, Answer
  <2>2. future \in [attempt : Attempt \cup {NoAttempt}, answer : Answer,
                    state : {"none", "open", "scheduled", "set"}]
    BY DEF Init, NoQuestion, Answer
  <2>3. reply \in [Submit -> [attempt : Attempt \cup {NoAttempt},
                              at : {"new", "ok", "refused"}, answer : Answer]]
    BY DEF Init, Answer
  <2>4. taken \in [Attempt -> Answer] /\ orphans \subseteq Attempt
    BY DEF Init, Answer
  <2>5. runs \in 0..MaxRuns /\ deaths \in 0..MaxDeaths
    BY DEF Init
  <2> QED BY <2>1, <2>2, <2>3, <2>4, <2>5 DEF Init, TypeOK
<1>2. AtMostOne /\ QuestionOwned
  BY DEF Init, AtMostOne, QuestionOwned, Pending, NoRow
<1>3. ToolServed /\ AnswersStored
  BY DEF Init, ToolServed, AnswersStored, NoQuestion
<1> QED BY <1>1, <1>2, <1>3 DEF IInv

\* Abandoning touches pending questions only, and keeps what they are.
LEMMA AbandonedKeeps ==
  ASSUME TypeOK, NEW as
  PROVE  /\ Abandoned(as) \in [Attempt -> [status : {"none", "pending", "completed", "abandoned"},
                                          kind : {"none", "start", "live"}, answer : Answer]]
         /\ \A a \in Attempt :
              /\ Abandoned(as)[a].kind = row[a].kind /\ Abandoned(as)[a].answer = row[a].answer
              /\ Abandoned(as)[a].status =
                   IF a \in as /\ row[a].status = "pending" THEN "abandoned" ELSE row[a].status
BY DEF TypeOK, Abandoned

\* A start is refused while a question is open, and no run is in progress.
LEMMA StartIInv == ASSUME IInv, MaxAttempts \in Nat, NEW a \in Attempt, OnboardingStart(a) PROVE IInv'
<1>1. /\ ~run /\ row[a].status = "none" /\ Pending = {}
      /\ UNCHANGED <<live, reply, runs, deaths, taken, orphans>>
      /\ row' = [row EXCEPT ![a] = [status |-> "pending", kind |-> "start", answer |-> "none"]]
  BY DEF OnboardingStart, Fresh, Inserted
<1>2. TypeOK'
  BY <1>1 DEF IInv, TypeOK, live, Answer
<1>3. /\ row'[a] = [status |-> "pending", kind |-> "start", answer |-> "none"]
      /\ \A b \in Attempt \ {a} : row'[b] = row[b]
  BY <1>1 DEF IInv, TypeOK
<1>4. AtMostOne' /\ QuestionOwned'
  BY <1>1, <1>3 DEF AtMostOne, QuestionOwned, Pending, live
<1>5. tool = NoAttempt /\ queued = NoAttempt /\ future.attempt = NoAttempt /\ future.state = "none"
  BY <1>1 DEF IInv, ToolServed
<1>6. ToolServed'
  BY <1>1, <1>5 DEF ToolServed, live
<1>7. AnswersStored'
  BY <1>1, <1>3 DEF IInv, AnswersStored
<1> QED BY <1>2, <1>4, <1>6, <1>7 DEF IInv

\* The tool's question replaces what was pending.
LEMMA PublishIInv == ASSUME IInv, MaxAttempts \in Nat, NEW a \in Attempt, Publish(a) PROVE IInv'
<1> DEFINE before == Abandoned(Pending)
<1>1. /\ run /\ tool = NoAttempt /\ row[a].status = "none" /\ tool' = a /\ queued' = a
      /\ UNCHANGED <<run, future, cancelling, reply, runs, deaths, taken, orphans>>
      /\ row' = [before EXCEPT ![a] = [status |-> "pending", kind |-> "live", answer |-> "none"]]
  BY DEF Publish, Fresh, Inserted
<1>2. /\ before \in [Attempt -> [status : {"none", "pending", "completed", "abandoned"},
                             kind : {"none", "start", "live"}, answer : Answer]]
      /\ \A b \in Attempt : /\ before[b].kind = row[b].kind /\ before[b].answer = row[b].answer
                            /\ before[b].status # "pending"
                            /\ row[b].status # "pending" => before[b].status = row[b].status
  BY AbandonedKeeps DEF IInv, Pending
<1> HIDE DEF before
<1>3. TypeOK'
  BY <1>1, <1>2 DEF IInv, TypeOK, Answer
<1>4. /\ row'[a] = [status |-> "pending", kind |-> "live", answer |-> "none"]
      /\ \A b \in Attempt \ {a} : row'[b] = before[b]
  BY <1>1, <1>2
<1>5. AtMostOne' /\ QuestionOwned'
  BY <1>1, <1>2, <1>4 DEF AtMostOne, QuestionOwned, Pending
<1>6. future.attempt = NoAttempt /\ future.state = "none"
  BY <1>1 DEF IInv, ToolServed
<1>7. ToolServed'
  BY <1>1, <1>4, <1>6 DEF ToolServed
<1>8. AnswersStored'
  BY <1>1, <1>2, <1>4 DEF IInv, AnswersStored
<1> QED BY <1>3, <1>5, <1>7, <1>8 DEF IInv
\* The first submit of a pending question completes it, later ones are refused.
LEMMA SubmitIInv ==
  ASSUME IInv, NEW r \in Submit, NEW a \in Attempt, NEW o \in Option, OnboardingSubmit(r, a, o)
  PROVE  IInv'
<1> DEFINE found == row[a].status = "pending"
<1>1. /\ reply[r].at = "new" /\ a # queued
      /\ reply' = [reply EXCEPT ![r] =
            [attempt |-> a, at |-> IF found THEN "ok" ELSE "refused", answer |-> o]]
      /\ row' = IF found THEN [row EXCEPT ![a].status = "completed", ![a].answer = o] ELSE row
      /\ future' = IF found /\ future.attempt = a /\ future.state = "open"
                   THEN [future EXCEPT !.state = "scheduled", !.answer = o] ELSE future
      /\ UNCHANGED <<run, tool, queued, cancelling, runs, deaths, taken, orphans>>
  BY DEF OnboardingSubmit, New
<1>2. /\ reply'[r] = [attempt |-> a, at |-> IF found THEN "ok" ELSE "refused", answer |-> o]
      /\ \A q \in Submit \ {r} : reply'[q] = reply[q]
  BY <1>1 DEF IInv, TypeOK
<1>3. CASE ~found
  <2>1. UNCHANGED <<row, future, run, tool, queued, cancelling, runs, deaths, taken, orphans>>
    BY <1>1, <1>3
  <2>2. TypeOK'
    BY <1>1, <1>3, <2>1 DEF IInv, TypeOK, Answer
  <2>3. AtMostOne' /\ ToolServed' /\ QuestionOwned'
    BY <2>1 DEF IInv, AtMostOne, ToolServed, QuestionOwned, Pending
  <2>4. AnswersStored'
    BY <1>2, <1>3, <2>1 DEF IInv, AnswersStored
  <2> QED BY <2>2, <2>3, <2>4 DEF IInv
<1>4. CASE found
  <2>1. row' = [row EXCEPT ![a].status = "completed", ![a].answer = o]
    BY <1>1, <1>4
  <2>2. /\ row'[a].status = "completed" /\ row'[a].answer = o /\ row'[a].kind = row[a].kind
        /\ \A b \in Attempt \ {a} : row'[b] = row[b]
    BY <2>1 DEF IInv, TypeOK
  <2>3. TypeOK'
    <3>1. row' \in [Attempt -> [status : {"none", "pending", "completed", "abandoned"},
                                kind : {"none", "start", "live"}, answer : Answer]]
      <4>1. row[a] \in [status : {"none", "pending", "completed", "abandoned"},
                       kind : {"none", "start", "live"}, answer : Answer]
        BY DEF IInv, TypeOK
      <4>2. o \in Answer
        BY DEF Answer
      <4>3. [row[a] EXCEPT !.status = "completed", !.answer = o]
              \in [status : {"none", "pending", "completed", "abandoned"},
                   kind : {"none", "start", "live"}, answer : Answer]
        BY <4>1, <4>2
      <4>4. row' = [row EXCEPT ![a] = [row[a] EXCEPT !.status = "completed", !.answer = o]]
        BY <2>1 DEF IInv, TypeOK
      <4> QED BY <4>3, <4>4 DEF IInv, TypeOK
    <3>2. future' \in [attempt : Attempt \cup {NoAttempt}, answer : Answer,
                       state : {"none", "open", "scheduled", "set"}]
      BY <1>1 DEF IInv, TypeOK, Answer
    <3>3. reply' \in [Submit -> [attempt : Attempt \cup {NoAttempt},
                                 at : {"new", "ok", "refused"}, answer : Answer]]
      BY <1>1 DEF IInv, TypeOK, Answer
    <3> QED BY <1>1, <3>1, <3>2, <3>3 DEF IInv, TypeOK
  <2>4. AtMostOne' /\ QuestionOwned'
    <3>1. UNCHANGED <<tool, orphans>> /\ \A b \in Pending' : b \in Pending /\ row'[b] = row[b]
      BY <1>1, <2>2 DEF Pending
    <3> QED BY <3>1 DEF IInv, AtMostOne, QuestionOwned
  <2>5. ToolServed'
    <3>1. CASE future.attempt = a /\ future.state = "open"
      <4>1. /\ future'.attempt = a /\ future'.state = "scheduled" /\ future'.answer = o
        BY <1>1, <1>4, <3>1 DEF IInv, TypeOK
      <4> QED BY <1>1, <2>2, <3>1, <4>1 DEF IInv, ToolServed, TypeOK
    <3>2. CASE ~(future.attempt = a /\ future.state = "open")
      <4>1. future' = future
        BY <1>1, <3>2
      <4>2. future.attempt = a => future.state \in {"scheduled", "set"}
        BY <3>2 DEF IInv, ToolServed, TypeOK, Attempt, NoAttempt
      <4>3. future.attempt # a
        BY <1>4, <4>2 DEF IInv, ToolServed
      <4> QED BY <1>1, <2>2, <4>1, <4>3 DEF IInv, ToolServed, TypeOK
    <3> QED BY <3>1, <3>2
  <2>6. AnswersStored'
    <3>1. ASSUME NEW q \in Submit, reply'[q].at = "ok"
          PROVE  /\ reply'[q].attempt \in Attempt
                 /\ row'[reply'[q].attempt].status = "completed"
                 /\ row'[reply'[q].attempt].answer = reply'[q].answer
      <4>1. CASE q = r
        BY <1>2, <2>2, <4>1
      <4>2. CASE q # r
        BY <1>2, <1>4, <2>2, <3>1, <4>2 DEF IInv, AnswersStored
      <4> QED BY <4>1, <4>2
    <3>2. ASSUME NEW b \in Attempt, taken'[b] # "none"
          PROVE  row'[b].status = "completed" /\ taken'[b] = row'[b].answer
      BY <1>1, <1>4, <2>2, <3>2 DEF IInv, AnswersStored
    <3> QED BY <3>1, <3>2 DEF AnswersStored
  <2> QED BY <2>3, <2>4, <2>5, <2>6 DEF IInv
<1> QED BY <1>3, <1>4

\* A run begins and ends without a question of its tool.
LEMMA RunIInv == IInv /\ MaxRuns \in Nat /\ (RunStart \/ RunEnds \/ Interrupt) => IInv'
<1> SUFFICES ASSUME IInv, MaxRuns \in Nat, RunStart \/ RunEnds \/ Interrupt PROVE IInv'
  OBVIOUS
<1>1. /\ UNCHANGED <<row, tool, queued, future, reply, deaths, taken, orphans>>
      /\ run' \/ tool = NoAttempt
  BY DEF RunStart, RunEnds, Interrupt, IInv, ToolServed
<1>2. run' \in BOOLEAN /\ cancelling' \in BOOLEAN /\ runs' \in 0..MaxRuns
  <2>1. CASE RunStart
    BY <2>1 DEF IInv, TypeOK, RunStart
  <2>2. CASE RunEnds \/ Interrupt
    BY <2>2 DEF IInv, TypeOK, RunEnds, Interrupt
  <2> QED BY <2>1, <2>2
<1>3. TypeOK'
  BY <1>1, <1>2 DEF IInv, TypeOK
<1>4. AtMostOne' /\ ToolServed' /\ QuestionOwned' /\ AnswersStored'
  BY <1>1 DEF IInv, AtMostOne, ToolServed, QuestionOwned, AnswersStored, Pending
<1> QED BY <1>3, <1>4 DEF IInv

\* The question moves from the queue to a future; the future is set; both leave
\* the table alone.
LEMMA AskIInv == IInv /\ (Ask \/ SetResult) => IInv'
<1> SUFFICES ASSUME IInv, Ask \/ SetResult PROVE IInv'
  OBVIOUS
<1>1. UNCHANGED <<row, run, tool, cancelling, reply, runs, deaths, taken, orphans>>
  BY DEF Ask, SetResult
<1>2. TypeOK'
  BY <1>1 DEF IInv, TypeOK, Ask, SetResult, Answer
<1>3. AtMostOne' /\ QuestionOwned' /\ AnswersStored'
  BY <1>1 DEF IInv, AtMostOne, QuestionOwned, AnswersStored, Pending
<1>4. ToolServed'
  <2>1. CASE Ask
    BY <1>1, <2>1 DEF IInv, ToolServed, Ask
  <2>2. CASE SetResult
    <3>1. /\ future'.attempt = future.attempt /\ future'.answer = future.answer
          /\ future'.state = "set" /\ future.state = "scheduled" /\ queued' = queued
      BY <2>2 DEF IInv, TypeOK, SetResult
    <3> QED BY <1>1, <3>1 DEF IInv, ToolServed
  <2> QED BY <2>1, <2>2
<1> QED BY <1>2, <1>3, <1>4 DEF IInv

\* The tool takes the answer the table has.
LEMMA ResolveIInv == IInv /\ Resolve => IInv'
<1> SUFFICES ASSUME IInv, Resolve PROVE IInv'
  OBVIOUS
<1>1. /\ future.state = "set" /\ future' = NoQuestion /\ tool' = NoAttempt
      /\ taken' = [taken EXCEPT ![future.attempt] = future.answer]
      /\ UNCHANGED <<row, run, queued, cancelling, reply, runs, deaths, orphans>>
  BY DEF Resolve
<1>2. /\ future.attempt # NoAttempt /\ tool = future.attempt /\ tool \in Attempt
      /\ row[tool].status = "completed" /\ row[tool].answer = future.answer
  BY <1>1 DEF IInv, ToolServed, TypeOK
<1>3. queued = NoAttempt
  BY <1>2 DEF IInv, ToolServed
<1>4. TypeOK'
  BY <1>1 DEF IInv, TypeOK, NoQuestion, Answer
<1>5. AtMostOne' /\ ToolServed'
  BY <1>1, <1>3 DEF IInv, AtMostOne, ToolServed, Pending, NoQuestion
<1>6. QuestionOwned'
  BY <1>1, <1>2 DEF IInv, QuestionOwned, Pending
<1>7. AnswersStored'
  BY <1>1, <1>2 DEF IInv, AnswersStored, TypeOK
<1> QED BY <1>4, <1>5, <1>6, <1>7 DEF IInv

\* A cancelled run abandons the question it asks and orphans one it has not.
LEMMA CancelledIInv == IInv /\ Cancelled => IInv'
<1> SUFFICES ASSUME IInv, Cancelled PROVE IInv'
  OBVIOUS
<1> DEFINE gone == {future.attempt} \cap Attempt
<1>1. /\ row' = Abandoned(gone) /\ orphans' = orphans \cup ({queued} \ {NoAttempt})
      /\ run' = FALSE /\ tool' = NoAttempt /\ queued' = NoAttempt /\ future' = NoQuestion
      /\ cancelling' = FALSE /\ UNCHANGED <<reply, runs, deaths, taken>>
  BY DEF Cancelled
<1>2. /\ row' \in [Attempt -> [status : {"none", "pending", "completed", "abandoned"},
                               kind : {"none", "start", "live"}, answer : Answer]]
      /\ \A b \in Attempt :
           /\ row'[b].kind = row[b].kind /\ row'[b].answer = row[b].answer
           /\ row'[b].status =
                IF b \in gone /\ row[b].status = "pending" THEN "abandoned" ELSE row[b].status
  BY <1>1, AbandonedKeeps DEF IInv
<1>3. TypeOK'
  BY <1>1, <1>2 DEF IInv, TypeOK, NoQuestion, Answer
<1>4. AtMostOne'
  BY <1>2 DEF IInv, AtMostOne, Pending
<1>5. ToolServed'
  BY <1>1 DEF ToolServed, NoQuestion
<1>6. QuestionOwned'
  <2> SUFFICES ASSUME NEW a \in Attempt, row'[a].status = "pending", row'[a].kind = "live"
               PROVE  a \in orphans'
    BY DEF QuestionOwned, Pending
  <2>1. row[a].status = "pending" /\ row[a].kind = "live" /\ a \notin gone
    BY <1>2
  <2>2. a \in orphans \/ tool = a
    BY <2>1 DEF IInv, QuestionOwned, Pending
  <2>3. tool = a => queued = a
    BY <2>1 DEF IInv, ToolServed, Attempt, NoAttempt
  <2>4. a # NoAttempt
    BY DEF Attempt, NoAttempt
  <2> QED BY <1>1, <2>2, <2>3, <2>4
<1>7. AnswersStored'
  <2>1. ASSUME NEW a \in Attempt, row[a].status = "completed"
        PROVE  row'[a].status = "completed" /\ row'[a].answer = row[a].answer
    BY <1>2, <2>1
  <2> QED BY <1>1, <2>1 DEF IInv, AnswersStored
<1> QED BY <1>3, <1>4, <1>5, <1>6, <1>7 DEF IInv

\* A death orphans the question the tool waits for.
LEMMA DieIInv == IInv /\ MaxDeaths \in Nat /\ Die => IInv'
<1> SUFFICES ASSUME IInv, MaxDeaths \in Nat, Die PROVE IInv'
  OBVIOUS
<1>1. TypeOK'
  <2>1. deaths' \in 0..MaxDeaths /\ orphans' \subseteq Attempt
    BY DEF IInv, TypeOK, Die
  <2>2. future' \in [attempt : Attempt \cup {NoAttempt}, answer : Answer,
                     state : {"none", "open", "scheduled", "set"}]
    BY DEF Die, NoQuestion, Answer
  <2> QED BY <2>1, <2>2 DEF IInv, TypeOK, Die
<1>2. AtMostOne' /\ QuestionOwned' /\ AnswersStored'
  BY DEF IInv, AtMostOne, QuestionOwned, AnswersStored, Pending, Die
<1>3. ToolServed'
  BY DEF ToolServed, Die, NoQuestion
<1> QED BY <1>1, <1>2, <1>3 DEF IInv

\* Steps that change nothing keep it.
LEMMA StutterIInv == IInv /\ UNCHANGED vars => IInv'
BY DEF vars, live, IInv, TypeOK, AtMostOne, ToolServed, QuestionOwned, AnswersStored, Pending

\* Every step keeps it.
LEMMA StepIInv ==
  ASSUME MaxAttempts \in Nat, MaxRuns \in Nat, MaxDeaths \in Nat
  PROVE  IInv /\ [Next]_vars => IInv'
<1> SUFFICES ASSUME IInv, [Next]_vars PROVE IInv'
  OBVIOUS
<1>1. ASSUME NEW a \in Attempt, OnboardingStart(a) PROVE IInv'
  BY <1>1, StartIInv
<1>2. ASSUME NEW a \in Attempt, Publish(a) PROVE IInv'
  BY <1>2, PublishIInv
<1>3. ASSUME NEW r \in Submit, NEW a \in Attempt, NEW o \in Option, OnboardingSubmit(r, a, o)
      PROVE  IInv'
  BY <1>3, SubmitIInv
<1>4. CASE RunStart \/ RunEnds \/ Interrupt
  BY <1>4, RunIInv
<1>5. CASE Ask \/ SetResult
  BY <1>5, AskIInv
<1>6. CASE Resolve
  BY <1>6, ResolveIInv
<1>7. CASE Cancelled
  BY <1>7, CancelledIInv
<1>8. CASE Die
  BY <1>8, DieIInv
<1>9. CASE UNCHANGED vars
  BY <1>9, StutterIInv
<1> QED BY <1>1, <1>2, <1>3, <1>4, <1>5, <1>6, <1>7, <1>8, <1>9 DEF Next

\* However submits, interrupts, deaths and starts interleave, one question at
\* most is open, its tool waits for it unless a run left it behind, and one
\* answer counts (onboarding.py, rpc/stdio.py).
THEOREM OneQuestionAlways ==
  ASSUME MaxAttempts \in Nat, MaxRuns \in Nat, MaxDeaths \in Nat
  PROVE  Spec => []OneQuestion
<1>1. IInv /\ [Next]_vars => IInv'
  BY StepIInv
<1>2. Init => IInv
  BY InitIInv
<1> QED BY <1>1, <1>2, InvGivesOneQuestion, PTL DEF Spec

-----------------------------------------------------------------------------
(* The parts together: a step of one leaves the others.                    *)

\* A step is one of each part, or leaves it.
LEMMA PartsStep == [MCNext]_allVars => [L!Next]_L!vars /\ [R!Next]_R!vars
BY DEF MCNext, allVars, login, server_, L!vars, L!flows, R!vars, R!io, R!out

\* Who is told that the login succeeded finds credentials stored: the result of a
\* flow and the answer to complete come only after that flow's own were written
\* (rpc/handlers/auth.py).
THEOREM LoginsStored == MCSpec => []LoginIsStored
<1>1. MCInit => LoginIInv
  BY LoginInit DEF MCInit
<1>2. LoginIInv /\ [MCNext]_allVars => LoginIInv'
  BY PartsStep, LoginStep
<1>3. LoginIInv => LoginIsStored
  BY DEF LoginIInv, LoginIsStored
<1> QED BY <1>1, <1>2, <1>3, PTL DEF MCSpec

\* What the client reads is what was emitted, in order and without gaps, to the
\* end when no task failed; sessions take their turns (rpc/stdio.py).
THEOREM OutputIsWhole == MCSpec => []OutputWhole
<1>1. MCInit => ServerIInv
  BY ServerInit DEF MCInit
<1>2. ServerIInv /\ [MCNext]_allVars => ServerIInv'
  BY PartsStep, ServerStep
<1>3. ServerIInv => OutputWhole
  BY ServerInvGives DEF OutputWhole
<1> QED BY <1>1, <1>2, <1>3, PTL DEF MCSpec
=============================================================================
