---------------------------- MODULE ClientProofs -----------------------------
(***************************************************************************)
(* The terminal client, for every number of calls, backends, texts,        *)
(* questions and logins: no result is sent on a closed channel, the events *)
(* of a run are handled in order, overlay, editor and queue preview follow *)
(* the backend and the user, and a login's restart spares the run.  Each   *)
(* part has an invariant of its own; the specification moves one part at a *)
(* time, so that each is kept by the steps of its part and by stutters.    *)
(***************************************************************************)
EXTENDS MCClient, SequenceTheorems, FiniteSetTheorems, WellFoundedInduction, TLAPS

-----------------------------------------------------------------------------
(* The channels of the rpc client.                                         *)

\* Where a call may be, and what the backend writes.
Place == {"new", "client", "registered", "awaiting"} \cup C!Answered
Envelope == [id : C!Call, what : {"event", "answer"}]

\* The types of the client's tables.
RpcTyped ==
  /\ manager \in C!Backend \cup {C!None} /\ gaveUp \subseteq C!Call
  /\ pipe \in [C!Backend -> Seq(Envelope)]
  /\ waiters \in [C!Backend -> SUBSET C!Call] /\ failing \in [C!Backend -> SUBSET C!Call]
  /\ hand \in [C!Backend -> Envelope \cup {C!NoHand}]
  /\ terminal \in [C!Backend -> BOOLEAN]
  /\ call \in [C!Call -> [at : Place, kind : C!Kind, backend : C!Backend \cup {C!None}]]
  /\ chan \in [C!Call -> [open : BOOLEAN, items : Seq({"event", "answer", "failure"})]]
  /\ work \in [C!Call -> [at : {"none", "busy", "done"}, events : Int]]

\* What lies in the channel of a call, and whose envelopes are in a pipe.
Items == [i \in C!Call |-> {chan[i].items[k] : k \in DOMAIN chan[i].items}]
Piped == [b \in C!Backend |-> {pipe[b][k].id : k \in DOMAIN pipe[b]}]

\* The tables name calls of their own backend, and waiters have open channels.
TablesTracked ==
  \A b \in C!Backend :
    /\ \A i \in waiters[b] : call[i].backend = b /\ call[i].at \in {"registered", "awaiting"} /\ chan[i].open
    /\ \A i \in failing[b] : call[i].backend = b /\ call[i].at \notin {"new", "client"} /\ terminal[b]
    /\ terminal[b] => waiters[b] = {} /\ hand[b] = C!NoHand

\* Work begins once a call awaits its answer.
WorkTracked ==
  \A i \in C!Call :
    /\ work[i].at # "none" => call[i].at \notin {"new", "client", "registered"}
    /\ call[i].at \in {"client", "registered", "awaiting"} => call[i].backend \in C!Backend

\* What is in a pipe was written for a call of that backend, its answer last.
PipeTracked ==
  \A b \in C!Backend : \A k \in DOMAIN pipe[b] :
    /\ call[pipe[b][k].id].backend = b /\ work[pipe[b][k].id].at # "none"
    /\ pipe[b][k].what = "answer" =>
         /\ work[pipe[b][k].id].at = "done"
         /\ \A j \in DOMAIN pipe[b] : j > k => pipe[b][j].id # pipe[b][k].id

\* What is in hand goes to an open channel, or to a call that gave up.
HandTracked ==
  \A b \in C!Backend : hand[b] # C!NoHand =>
    /\ call[hand[b].id].backend = b /\ work[hand[b].id].at # "none"
    /\ chan[hand[b].id].open \/ hand[b].id \in gaveUp
    /\ hand[b].what = "answer" => work[hand[b].id].at = "done" /\ hand[b].id \notin Piped[b]

\* Behind an answer nothing is on its way; a failure is the end of the backend.
ItemsTracked ==
  \A i \in C!Call :
    /\ "answer" \in Items[i] => /\ work[i].at = "done"
                                /\ \A b \in C!Backend : i \notin Piped[b] /\ hand[b].id # i
    /\ "failure" \in Items[i] =>
         call[i].at # "new" /\ call[i].backend \in C!Backend /\ terminal[call[i].backend]

\* The invariant of the rpc client.
RpcIInv ==
  /\ RpcTyped /\ TablesTracked /\ WorkTracked /\ PipeTracked /\ HandTracked /\ ItemsTracked
  /\ C!SendsToOpenChannels

-----------------------------------------------------------------------------
\* No call has the number zero.
LEMMA NoneIsNoCall == C!None \notin C!Call /\ C!None \notin C!Backend /\ C!NoHand \notin Envelope
BY DEF C!None, C!Call, C!Backend, C!NoHand, Envelope

\* What the head and the tail of a sequence are.
LEMMA TailIs ==
  ASSUME NEW A, NEW s \in Seq(A), s # <<>>
  PROVE  /\ Head(s) \in A /\ Tail(s) \in Seq(A)
         /\ 1 \in DOMAIN s /\ Head(s) = s[1]
         /\ \A k \in DOMAIN Tail(s) : k \in Nat /\ k + 1 \in DOMAIN s /\ Tail(s)[k] = s[k + 1]
         /\ \A k \in DOMAIN s : k = 1 \/ (k - 1 \in DOMAIN Tail(s) /\ k - 1 \in Nat)
<1>1. Len(s) \in Nat /\ Len(s) # 0 /\ DOMAIN s = 1..Len(s)
  BY EmptySeq, LenProperties
<1>2. /\ Head(s) \in A /\ Tail(s) \in Seq(A) /\ Head(s) = s[1]
      /\ Len(Tail(s)) = Len(s) - 1 /\ \A i \in 1..Len(Tail(s)) : Tail(s)[i] = s[i + 1]
  BY HeadTailProperties
<1>3. DOMAIN Tail(s) = 1..(Len(s) - 1)
  BY <1>2, LenProperties
<1> QED BY <1>1, <1>2, <1>3

\* What a sequence with one more element is.
LEMMA AppendIs ==
  ASSUME NEW A, NEW s \in Seq(A), NEW e \in A
  PROVE  /\ Append(s, e) \in Seq(A) /\ Len(s) + 1 \in DOMAIN Append(s, e)
         /\ Append(s, e)[Len(s) + 1] = e
         /\ \A k \in DOMAIN s : k \in DOMAIN Append(s, e) /\ Append(s, e)[k] = s[k]
                                /\ k \in Nat /\ k < Len(s) + 1
         /\ \A k \in DOMAIN Append(s, e) : k \in DOMAIN s \/ k = Len(s) + 1
BY AppendProperties, LenProperties

\* What the first elements of a sequence are.
LEMMA PrefixIs ==
  ASSUME NEW A, NEW s \in Seq(A), NEW n \in 0..Len(s)
  PROVE  /\ SubSeq(s, 1, n) \in Seq(A)
         /\ \A k \in DOMAIN SubSeq(s, 1, n) : k \in DOMAIN s /\ SubSeq(s, 1, n)[k] = s[k]
<1>1. Len(s) \in Nat /\ DOMAIN s = 1..Len(s)
  BY LenProperties
<1>2. /\ SubSeq(s, 1, n) \in Seq(A) /\ Len(SubSeq(s, 1, n)) = n
      /\ \A k \in 1..n : SubSeq(s, 1, n)[k] = s[k]
  BY <1>1, SubSeqProperties
<1>3. DOMAIN SubSeq(s, 1, n) = 1..n
  BY <1>2, LenProperties
<1> QED BY <1>1, <1>2, <1>3

\* The elements of a set of what a sequence holds.
LEMMA ItemsAre ==
  /\ RpcTyped => \A i \in C!Call : Items[i] \subseteq {"event", "answer", "failure"}
  /\ \A i \in C!Call : \A k \in DOMAIN chan[i].items : chan[i].items[k] \in Items[i]
  /\ \A b \in C!Backend : \A k \in DOMAIN pipe[b] : pipe[b][k].id \in Piped[b]
  /\ RpcTyped => \A b \in C!Backend : \A k \in DOMAIN pipe[b] : pipe[b][k] \in Envelope
  /\ RpcTyped => \A b \in C!Backend : hand[b] # C!NoHand => hand[b] \in Envelope /\ hand[b].id \in C!Call
<1>1. ASSUME RpcTyped, NEW i \in C!Call PROVE Items[i] \subseteq {"event", "answer", "failure"}
  <2>1. chan[i].items \in Seq({"event", "answer", "failure"})
    BY <1>1 DEF RpcTyped
  <2>2. \A k \in DOMAIN chan[i].items : chan[i].items[k] \in {"event", "answer", "failure"}
    BY <2>1, ElementOfSeq, LenProperties
  <2> QED BY <2>2 DEF Items
<1>2. ASSUME RpcTyped, NEW b \in C!Backend, NEW k \in DOMAIN pipe[b] PROVE pipe[b][k] \in Envelope
  <2>1. pipe[b] \in Seq(Envelope)
    BY <1>2 DEF RpcTyped
  <2> QED BY <1>2, <2>1, ElementOfSeq, LenProperties
<1>3. ASSUME RpcTyped, NEW b \in C!Backend, hand[b] # C!NoHand
      PROVE  hand[b] \in Envelope /\ hand[b].id \in C!Call
  BY <1>3 DEF RpcTyped, Envelope
<1> QED BY <1>1, <1>2, <1>3 DEF Items, Piped

\* The shapes of a call, of a channel and of a work.
CallShape == [at : Place, kind : C!Kind, backend : C!Backend \cup {C!None}]
ChanShape == [open : BOOLEAN, items : Seq({"event", "answer", "failure"})]
WorkShape == [at : {"none", "busy", "done"}, events : Int]

\* A shape stays when a field is given a value.
LEMMA FieldsSet ==
  ASSUME RpcTyped, NEW i \in C!Call
  PROVE  /\ \A place \in Place : [call EXCEPT ![i].at = place] \in [C!Call -> CallShape]
         /\ \A flag \in BOOLEAN : [chan EXCEPT ![i].open = flag] \in [C!Call -> ChanShape]
         /\ \A at \in {"none", "busy", "done"} : [work EXCEPT ![i].at = at] \in [C!Call -> WorkShape]
<1>1. call \in [C!Call -> CallShape] /\ chan \in [C!Call -> ChanShape] /\ work \in [C!Call -> WorkShape]
  BY DEF RpcTyped, CallShape, ChanShape, WorkShape
<1>2. ASSUME NEW place \in Place PROVE [call EXCEPT ![i].at = place] \in [C!Call -> CallShape]
  <2>1. [call[i] EXCEPT !.at = place] \in CallShape
    BY <1>1 DEF CallShape
  <2> QED BY <1>1, <2>1
<1>3. ASSUME NEW flag \in BOOLEAN PROVE [chan EXCEPT ![i].open = flag] \in [C!Call -> ChanShape]
  <2>1. [chan[i] EXCEPT !.open = flag] \in ChanShape
    BY <1>1 DEF ChanShape
  <2> QED BY <1>1, <2>1
<1>4. ASSUME NEW at \in {"none", "busy", "done"} PROVE [work EXCEPT ![i].at = at] \in [C!Call -> WorkShape]
  <2>1. [work[i] EXCEPT !.at = at] \in WorkShape
    BY <1>1 DEF WorkShape
  <2> QED BY <1>1, <2>1
<1> QED BY <1>2, <1>3, <1>4

\* Nothing is in a table, a pipe or a hand at first.
LEMMA RpcInit == C!Init => RpcIInv
<1> SUFFICES ASSUME C!Init PROVE RpcIInv
  OBVIOUS
<1>1. <<>> \in Seq(Envelope) /\ <<>> \in Seq({"event", "answer", "failure"})
      /\ DOMAIN <<>> = {}
  BY EmptySeq
<1>2. \A b \in C!Backend : pipe[b] = <<>>
  BY DEF C!Init
<1>3. \A i \in C!Call : chan[i].items = <<>> /\ Items[i] = {}
  BY <1>1 DEF C!Init, Items
<1>4. RpcTyped
  BY <1>1 DEF C!Init, C!Kind, RpcTyped, Place
<1>5. TablesTracked /\ WorkTracked /\ HandTracked /\ C!SendsToOpenChannels
  BY DEF C!Init, TablesTracked, WorkTracked, HandTracked, C!SendsToOpenChannels
<1>6. PipeTracked
  BY <1>1, <1>2 DEF PipeTracked
<1>7. ItemsTracked
  BY <1>3 DEF ItemsTracked
<1> QED BY <1>4, <1>5, <1>6, <1>7 DEF RpcIInv

\* The manager starts a call or lets its backend go, a process dies.
LEMMA ManagerStep ==
  ASSUME RpcIInv,
         \/ C!Restart
         \/ \E i \in C!Call : \E kind \in C!Kind : C!Begin(i, kind)
         \/ \E b \in C!Backend : C!CloseBegins(b) \/ C!Die(b)
  PROVE  RpcIInv'
<1>1. UNCHANGED <<pipe, waiters, hand, terminal, failing, chan, work, gaveUp, panicked, Items, Piped>>
  <2>1. UNCHANGED <<pipe, waiters, hand, terminal, failing, chan, work, gaveUp, panicked>>
    BY DEF C!Restart, C!Begin, C!CloseBegins, C!Die, C!routing
  <2> QED BY <2>1 DEF Items, Piped
<1>2. CASE call' = call /\ manager' \in C!Backend \cup {C!None}
  BY <1>1, <1>2 DEF RpcIInv, RpcTyped, TablesTracked, WorkTracked, PipeTracked, HandTracked, ItemsTracked,
     C!SendsToOpenChannels
<1>3. ASSUME NEW i \in C!Call, NEW kind \in C!Kind, C!Begin(i, kind) PROVE RpcIInv'
  <2>1. PICK r \in [at : {"client", "error"}, kind : C!Kind, backend : C!Backend \cup {C!None}] :
          /\ call' = [call EXCEPT ![i] = r] /\ call[i].at = "new"
          /\ r.at = "client" => r.backend \in C!Backend
          /\ manager' \in C!Backend \cup {C!None}
    BY <1>3, NoneIsNoCall DEF RpcIInv, RpcTyped, C!Begin
  <2>2. RpcTyped'
    BY <1>1, <2>1 DEF RpcIInv, RpcTyped, Place, C!Answered
  <2>3. \A j \in C!Call : j # i => call'[j] = call[j]
    BY <2>1 DEF RpcIInv, RpcTyped
  <2>4. call'[i] = r
    BY <2>1 DEF RpcIInv, RpcTyped
  <2>5. work[i].at = "none"
    BY <2>1 DEF RpcIInv, WorkTracked
  <2>6. WorkTracked'
    BY <1>1, <2>1, <2>3, <2>4, <2>5 DEF RpcIInv, WorkTracked
  <2>7. TablesTracked'
    BY <1>1, <2>1, <2>3 DEF RpcIInv, TablesTracked, RpcTyped
  <2>8. PipeTracked'
    BY <1>1, <2>3, <2>5, ItemsAre DEF RpcIInv, PipeTracked, Envelope
  <2>9. HandTracked'
    BY <1>1, <2>3, <2>5, ItemsAre DEF RpcIInv, HandTracked
  <2>10. ItemsTracked' /\ C!SendsToOpenChannels'
    BY <1>1, <2>1, <2>3, <2>5 DEF RpcIInv, ItemsTracked, C!SendsToOpenChannels
  <2> QED BY <2>2, <2>6, <2>7, <2>8, <2>9, <2>10 DEF RpcIInv
<1> QED BY <1>1, <1>2, <1>3 DEF C!Restart, C!CloseBegins, C!Die, RpcIInv, RpcTyped

\* A process that was closed leaves the first part of what it wrote.
LEMMA CloseEndsStep ==
  ASSUME RpcIInv, NEW b \in C!Backend, C!CloseEnds(b)
  PROVE  RpcIInv'
<1>1. UNCHANGED <<manager, waiters, hand, terminal, failing, call, chan, work, gaveUp, panicked, Items>>
  <2>1. UNCHANGED <<manager, waiters, hand, terminal, failing, call, chan, work, gaveUp, panicked>>
    BY DEF C!CloseEnds, C!routing
  <2> QED BY <2>1 DEF Items
<1>2. PICK n \in 0..Len(pipe[b]) : pipe' = [pipe EXCEPT ![b] = SubSeq(@, 1, n)]
  BY DEF C!CloseEnds
<1>3. pipe[b] \in Seq(Envelope)
  BY DEF RpcIInv, RpcTyped
<1>4. /\ pipe'[b] \in Seq(Envelope)
      /\ \A k \in DOMAIN pipe'[b] : k \in DOMAIN pipe[b] /\ pipe'[b][k] = pipe[b][k]
  <2>1. pipe'[b] = SubSeq(pipe[b], 1, n)
    BY <1>2 DEF RpcIInv, RpcTyped
  <2> QED BY <1>3, <2>1, PrefixIs
<1>5. \A a \in C!Backend : a # b => pipe'[a] = pipe[a]
  BY <1>2 DEF RpcIInv, RpcTyped
<1>6. \A a \in C!Backend : Piped'[a] \subseteq Piped[a]
  BY <1>4, <1>5 DEF Piped
<1>7. RpcTyped'
  BY <1>1, <1>2, <1>4 DEF RpcIInv, RpcTyped
<1>8. PipeTracked'
  <2>1. \A a \in C!Backend : \A k \in DOMAIN pipe'[a] : k \in DOMAIN pipe[a] /\ pipe'[a][k] = pipe[a][k]
    BY <1>4, <1>5
  <2> QED BY <1>1, <2>1 DEF RpcIInv, PipeTracked
<1> QED BY <1>1, <1>6, <1>7, <1>8
        DEF RpcIInv, TablesTracked, WorkTracked, HandTracked, ItemsTracked, C!SendsToOpenChannels

\* The backend writes an envelope for a call that is at work.
LEMMA WriteStep ==
  ASSUME RpcIInv, NEW i \in C!Call, C!EmitEvent(i) \/ C!EmitAnswer(i)
  PROVE  RpcIInv'
<1> DEFINE b == call[i].backend
<1>1. UNCHANGED <<manager, waiters, hand, terminal, failing, call, chan, gaveUp, panicked, Items>>
  <2>1. UNCHANGED <<manager, waiters, hand, terminal, failing, call, chan, gaveUp, panicked>>
    BY DEF C!EmitEvent, C!EmitAnswer, C!Write, C!routing
  <2> QED BY <2>1 DEF Items
<1>2. PICK what \in {"event", "answer"} :
        /\ work[i].at = "busy" /\ pipe' = [pipe EXCEPT ![b] = Append(@, [id |-> i, what |-> what])]
        /\ work' \in [C!Call -> [at : {"none", "busy", "done"}, events : Int]]
        /\ \A j \in C!Call : j # i => work'[j] = work[j]
        /\ work'[i].at = IF what = "answer" THEN "done" ELSE "busy"
  <2>1. CASE C!EmitEvent(i)
    BY <2>1 DEF C!EmitEvent, C!Write, RpcIInv, RpcTyped
  <2>2. CASE C!EmitAnswer(i)
    BY <2>2 DEF C!EmitAnswer, C!Write, RpcIInv, RpcTyped
  <2> QED BY <2>1, <2>2
<1> DEFINE e == [id |-> i, what |-> what]
<1>3. b \in C!Backend \cup {C!None} /\ e \in Envelope
  BY DEF RpcIInv, RpcTyped, Envelope
<1>4. \A a \in C!Backend : a # b => pipe'[a] = pipe[a]
  BY <1>2 DEF RpcIInv, RpcTyped
<1>5. b \in C!Backend =>
        /\ pipe'[b] \in Seq(Envelope) /\ Len(pipe[b]) + 1 \in DOMAIN pipe'[b]
        /\ pipe'[b][Len(pipe[b]) + 1] = e
        /\ \A k \in DOMAIN pipe[b] : k \in DOMAIN pipe'[b] /\ pipe'[b][k] = pipe[b][k]
                                     /\ k \in Nat /\ k < Len(pipe[b]) + 1
        /\ \A k \in DOMAIN pipe'[b] : k \in DOMAIN pipe[b] \/ k = Len(pipe[b]) + 1
  <2> SUFFICES ASSUME b \in C!Backend
               PROVE  /\ pipe'[b] \in Seq(Envelope) /\ Len(pipe[b]) + 1 \in DOMAIN pipe'[b]
                      /\ pipe'[b][Len(pipe[b]) + 1] = e
                      /\ \A k \in DOMAIN pipe[b] : k \in DOMAIN pipe'[b] /\ pipe'[b][k] = pipe[b][k]
                                                   /\ k \in Nat /\ k < Len(pipe[b]) + 1
                      /\ \A k \in DOMAIN pipe'[b] : k \in DOMAIN pipe[b] \/ k = Len(pipe[b]) + 1
    OBVIOUS
  <2>1. pipe'[b] = Append(pipe[b], e)
    BY <1>2 DEF RpcIInv, RpcTyped
  <2>2. pipe[b] \in Seq(Envelope)
    BY DEF RpcIInv, RpcTyped
  <2> HIDE DEF e, b
  <2> QED BY <1>3, <2>1, <2>2, AppendIs
<1>6. \A a \in C!Backend : Piped'[a] \subseteq IF a = b THEN Piped[a] \cup {i} ELSE Piped[a]
  BY <1>4, <1>5 DEF Piped
<1>7. RpcTyped'
  BY <1>1, <1>2, <1>4, <1>5 DEF RpcIInv, RpcTyped
<1>8. "answer" \notin Items[i] /\ \A a \in C!Backend : hand[a].id = i => hand[a].what # "answer"
  BY <1>2, NoneIsNoCall DEF RpcIInv, ItemsTracked, HandTracked, C!NoHand
<1>9. \A a \in C!Backend : \A k \in DOMAIN pipe[a] : pipe[a][k].id = i => pipe[a][k].what # "answer"
  BY <1>2 DEF RpcIInv, PipeTracked
<1>10. PipeTracked'
  <2> SUFFICES ASSUME NEW a \in C!Backend, NEW k \in DOMAIN pipe'[a]
               PROVE  /\ call[pipe'[a][k].id].backend = a /\ work'[pipe'[a][k].id].at # "none"
                      /\ pipe'[a][k].what = "answer" =>
                           /\ work'[pipe'[a][k].id].at = "done"
                           /\ \A j \in DOMAIN pipe'[a] : j > k => pipe'[a][j].id # pipe'[a][k].id
    BY <1>1 DEF PipeTracked
  <2>1. CASE a # b
    BY <1>2, <1>4, <1>9, <2>1, ItemsAre DEF RpcIInv, PipeTracked, Envelope
  <2>2. CASE a = b /\ k = Len(pipe[b]) + 1
    <3>1. pipe'[a][k] = e /\ \A j \in DOMAIN pipe'[a] : ~(j > k)
      BY <1>5, <2>2
    <3>2. pipe'[a][k].id = i /\ pipe'[a][k].what = what
      BY <3>1
    <3>3. work'[i].at # "none" /\ (what = "answer" => work'[i].at = "done")
      BY <1>2
    <3> HIDE DEF e
    <3> QED BY <2>2, <3>1, <3>2, <3>3
  <2>3. CASE a = b /\ k \in DOMAIN pipe[b]
    <3>1. pipe'[a][k] = pipe[a][k] /\ pipe[a][k] \in Envelope
      BY <1>5, <2>3, ItemsAre DEF RpcIInv
    <3>2. /\ call[pipe[a][k].id].backend = a /\ work[pipe[a][k].id].at # "none"
          /\ pipe[a][k].what = "answer" =>
               /\ work[pipe[a][k].id].at = "done"
               /\ \A j \in DOMAIN pipe[a] : j > k => pipe[a][j].id # pipe[a][k].id
      BY <2>3 DEF RpcIInv, PipeTracked
    <3>3. work'[pipe[a][k].id].at # "none"
      BY <1>2, <3>1, <3>2 DEF Envelope
    <3>4. ASSUME pipe[a][k].what = "answer"
          PROVE  /\ work'[pipe[a][k].id].at = "done"
                 /\ \A j \in DOMAIN pipe'[a] : j > k => pipe'[a][j].id # pipe[a][k].id
      <4>1. pipe[a][k].id # i
        BY <1>9, <2>3, <3>4
      <4>2. work'[pipe[a][k].id] = work[pipe[a][k].id]
        BY <1>2, <3>1, <4>1 DEF Envelope
      <4>3. ASSUME NEW j \in DOMAIN pipe'[a], j > k PROVE pipe'[a][j].id # pipe[a][k].id
        <5>1. CASE j \in DOMAIN pipe[a]
          <6>1. pipe'[a][j] = pipe[a][j]
            BY <1>5, <2>3, <5>1
          <6> QED BY <3>2, <3>4, <4>3, <5>1, <6>1
        <5>2. CASE j = Len(pipe[b]) + 1
          <6>1. pipe'[a][j] = e
            BY <1>5, <2>3, <5>2
          <6> QED BY <4>1, <6>1
        <5> QED BY <1>5, <2>3, <5>1, <5>2
      <4> QED BY <3>2, <3>4, <4>2, <4>3
    <3> QED BY <3>1, <3>2, <3>3, <3>4
  <2> QED BY <1>5, <2>1, <2>2, <2>3
<1>11. HandTracked'
  BY <1>1, <1>2, <1>6, <1>8, ItemsAre DEF RpcIInv, HandTracked
<1>12. ItemsTracked'
  <2>1. \A j \in C!Call : "answer" \in Items[j] => j # i /\ work'[j].at = "done"
    BY <1>2, <1>8 DEF RpcIInv, ItemsTracked
  <2>2. \A j \in C!Call : "answer" \in Items[j] => \A a \in C!Backend : j \notin Piped'[a] /\ hand[a].id # j
    BY <1>6, <2>1 DEF RpcIInv, ItemsTracked
  <2> QED BY <1>1, <2>1, <2>2 DEF RpcIInv, ItemsTracked
<1>13. TablesTracked' /\ C!SendsToOpenChannels'
  BY <1>1 DEF RpcIInv, TablesTracked, C!SendsToOpenChannels
<1>14. WorkTracked'
  BY <1>1, <1>2 DEF RpcIInv, WorkTracked
<1> QED BY <1>7, <1>10, <1>11, <1>12, <1>13, <1>14 DEF RpcIInv

\* A call registers its channel, or finds its backend at its end.
LEMMA RegisterStep ==
  ASSUME RpcIInv, NEW i \in C!Call, C!Register(i)
  PROVE  RpcIInv'
<1> DEFINE b == call[i].backend
<1>1. UNCHANGED <<manager, pipe, hand, terminal, failing, work, gaveUp, panicked, Piped>>
  <2>1. UNCHANGED <<manager, pipe, hand, terminal, failing, work, gaveUp, panicked>>
    BY DEF C!Register
  <2> QED BY <2>1 DEF Piped
<1>2. b \in C!Backend /\ call[i].at = "client" /\ work[i].at = "none"
  BY DEF C!Register, RpcIInv, WorkTracked
<1>3. /\ \A j \in C!Call : j # i => call'[j] = call[j] /\ chan'[j] = chan[j]
      /\ call'[i].backend = b /\ chan'[i].items = chan[i].items
      /\ Items' = Items
  <2>1. \A j \in C!Call : j # i => call'[j] = call[j] /\ chan'[j] = chan[j]
    BY DEF C!Register, RpcIInv, RpcTyped
  <2>2. call'[i].backend = b /\ chan'[i].items = chan[i].items
    BY DEF C!Register, RpcIInv, RpcTyped
  <2>3. \A j \in C!Call : chan'[j].items = chan[j].items
    BY <2>1, <2>2
  <2> QED BY <2>1, <2>2, <2>3 DEF Items
<1>4. RpcTyped'
  <2>1. call' \in [C!Call -> CallShape]
    <3>1. PICK place \in {"error", "registered"} : call' = [call EXCEPT ![i].at = place]
      BY DEF C!Register
    <3>2. place \in Place
      BY DEF Place, C!Answered
    <3> QED BY <3>1, <3>2, FieldsSet DEF RpcIInv
  <2>2. waiters' \in [C!Backend -> SUBSET C!Call]
    <3>1. waiters' = waiters \/ waiters' = [waiters EXCEPT ![b] = @ \cup {i}]
      BY DEF C!Register
    <3>2. waiters \in [C!Backend -> SUBSET C!Call]
      BY DEF RpcIInv, RpcTyped
    <3> HIDE DEF b
    <3>3. waiters[b] \cup {i} \in SUBSET C!Call
      BY <1>2, <3>2
    <3> QED BY <3>1, <3>2, <3>3
  <2>3. chan' \in [C!Call -> ChanShape]
    <3>1. chan \in [C!Call -> ChanShape]
      BY DEF RpcIInv, RpcTyped, ChanShape
    <3>2. chan' = chan \/ chan' = [chan EXCEPT ![i].open = TRUE]
      BY DEF C!Register
    <3>3. [chan EXCEPT ![i].open = TRUE] \in [C!Call -> ChanShape]
      BY FieldsSet DEF RpcIInv
    <3> QED BY <3>1, <3>2, <3>3
  <2> QED BY <1>1, <2>1, <2>2, <2>3 DEF RpcIInv, RpcTyped, CallShape, ChanShape
<1>5. /\ call'[i].at \in {"registered", "error"}
      /\ \A a \in C!Backend : waiters'[a] \subseteq waiters[a] \cup (IF a = b THEN {i} ELSE {})
      /\ i \in waiters'[b] => call'[i].at = "registered" /\ chan'[i].open
      /\ i \notin waiters[b] /\ terminal[b] => waiters' = waiters
  BY <1>2 DEF RpcIInv, RpcTyped, TablesTracked, C!Register
<1>6. TablesTracked'
  <2>1. \A a \in C!Backend : i \notin waiters[a] /\ i \notin failing[a]
    BY <1>2 DEF RpcIInv, TablesTracked
  <2>2. \A a \in C!Backend : terminal[a] => waiters'[a] = {}
    BY <1>2, <1>5, <2>1 DEF RpcIInv, TablesTracked
  <2>3. ASSUME NEW a \in C!Backend, NEW j \in waiters'[a]
        PROVE  call'[j].backend = a /\ call'[j].at \in {"registered", "awaiting"} /\ chan'[j].open
    <3>1. CASE j = i
      BY <1>3, <1>5, <2>1, <2>3, <3>1
    <3>2. CASE j # i
      <4>1. j \in waiters[a] /\ j \in C!Call
        BY <1>5, <2>3, <3>2 DEF RpcIInv, RpcTyped
      <4> QED BY <1>3, <3>2, <4>1 DEF RpcIInv, TablesTracked
    <3> QED BY <3>1, <3>2
  <2>4. ASSUME NEW a \in C!Backend, NEW j \in failing[a]
        PROVE  call'[j].backend = a /\ call'[j].at \notin {"new", "client"} /\ terminal[a]
    <3>1. j \in C!Call /\ j # i
      BY <2>1, <2>4 DEF RpcIInv, RpcTyped
    <3> QED BY <1>3, <2>4, <3>1 DEF RpcIInv, TablesTracked
  <2>5. \A a \in C!Backend : terminal[a] => hand[a] = C!NoHand
    BY DEF RpcIInv, TablesTracked
  <2> QED BY <1>1, <2>2, <2>3, <2>4, <2>5 DEF TablesTracked
<1>7. WorkTracked'
  BY <1>1, <1>2, <1>3, <1>5 DEF RpcIInv, WorkTracked
<1>8. PipeTracked'
  BY <1>1, <1>3, ItemsAre DEF RpcIInv, PipeTracked, Envelope
<1>9. HandTracked'
  <2>1. \A a \in C!Backend : hand[a] # C!NoHand => hand[a].id # i
    BY <1>2 DEF RpcIInv, HandTracked
  <2> QED BY <1>1, <1>3, <2>1, ItemsAre DEF RpcIInv, HandTracked
<1>10. ItemsTracked' /\ C!SendsToOpenChannels'
  BY <1>1, <1>3, <1>5 DEF RpcIInv, ItemsTracked, C!SendsToOpenChannels
<1> QED BY <1>4, <1>6, <1>7, <1>8, <1>9, <1>10 DEF RpcIInv

\* A call returns: no envelope of its is in hand, or it gave up.
LEMMA ReturnStep ==
  ASSUME RpcIInv, NEW i \in C!Call, NEW answer \in C!Answered, C!Return(i, answer),
         call[i].at \in {"registered", "awaiting"},
         UNCHANGED <<manager, pipe, hand, terminal, failing, work, panicked>>,
         gaveUp' \in SUBSET C!Call, gaveUp \subseteq gaveUp',
         i \in gaveUp' \/ \A a \in C!Backend : hand[a] # C!NoHand => hand[a].id # i
  PROVE  RpcIInv'
<1> DEFINE b == call[i].backend
<1>1. b \in C!Backend /\ UNCHANGED Piped
  BY DEF RpcIInv, WorkTracked, Piped
<1>2. /\ \A j \in C!Call : j # i => call'[j] = call[j] /\ chan'[j] = chan[j]
      /\ call'[i].backend = b /\ call'[i].at = answer
      /\ Items' = Items
  <2>1. \A j \in C!Call : j # i => call'[j] = call[j] /\ chan'[j] = chan[j]
    BY DEF C!Return, C!Close, RpcIInv, RpcTyped
  <2>2. call'[i].backend = b /\ call'[i].at = answer /\ chan'[i].items = chan[i].items
    BY DEF C!Return, C!Close, RpcIInv, RpcTyped
  <2>3. \A j \in C!Call : chan'[j].items = chan[j].items
    BY <2>1, <2>2
  <2> QED BY <2>1, <2>2, <2>3 DEF Items
<1>3. RpcTyped'
  <2>1. call' \in [C!Call -> CallShape]
    BY FieldsSet DEF RpcIInv, C!Return, Place
  <2>2. waiters' \in [C!Backend -> SUBSET C!Call]
    BY DEF RpcIInv, RpcTyped, C!Return
  <2>3. chan' \in [C!Call -> ChanShape]
    <3>1. chan \in [C!Call -> ChanShape]
      BY DEF RpcIInv, RpcTyped, ChanShape
    <3> QED BY <3>1, FieldsSet DEF RpcIInv, C!Return, C!Close
  <2> QED BY <2>1, <2>2, <2>3 DEF RpcIInv, RpcTyped, CallShape, ChanShape
<1>4. \A a \in C!Backend : waiters'[a] \subseteq waiters[a] /\ i \notin waiters'[a]
  BY <1>1 DEF RpcIInv, RpcTyped, TablesTracked, C!Return
<1>5. TablesTracked'
  <2>1. ASSUME NEW a \in C!Backend, NEW j \in waiters'[a]
        PROVE  call'[j].backend = a /\ call'[j].at \in {"registered", "awaiting"} /\ chan'[j].open
    <3>1. j \in waiters[a] /\ j \in C!Call /\ j # i
      BY <1>4, <2>1 DEF RpcIInv, RpcTyped
    <3> QED BY <1>2, <3>1 DEF RpcIInv, TablesTracked
  <2>2. ASSUME NEW a \in C!Backend, NEW j \in failing[a]
        PROVE  call'[j].backend = a /\ call'[j].at \notin {"new", "client"} /\ terminal[a]
    <3>1. j \in C!Call
      BY <2>2 DEF RpcIInv, RpcTyped
    <3> QED BY <1>2, <2>2, <3>1 DEF RpcIInv, TablesTracked, C!Answered
  <2>3. \A a \in C!Backend : terminal[a] => waiters'[a] = {} /\ hand[a] = C!NoHand
    BY <1>4 DEF RpcIInv, TablesTracked
  <2> QED BY <2>1, <2>2, <2>3 DEF TablesTracked
<1>6. WorkTracked'
  BY <1>1, <1>2 DEF RpcIInv, WorkTracked, C!Answered
<1>7. PipeTracked'
  BY <1>1, <1>2, ItemsAre DEF RpcIInv, PipeTracked, Envelope
<1>8. HandTracked'
  BY <1>1, <1>2, ItemsAre DEF RpcIInv, HandTracked
<1>9. ItemsTracked'
  BY <1>1, <1>2 DEF RpcIInv, ItemsTracked, C!Answered
<1>10. C!SendsToOpenChannels'
  BY DEF RpcIInv, C!SendsToOpenChannels
<1> QED BY <1>3, <1>5, <1>6, <1>7, <1>8, <1>9, <1>10 DEF RpcIInv

\* A call meets the deadline of its context, or cannot write its request.
LEMMA FailsStep ==
  ASSUME RpcIInv, NEW i \in C!Call, C!GiveUp(i) \/ C!WriteRequest(i)
  PROVE  RpcIInv'
<1>1. CASE C!GiveUp(i)
  BY <1>1, ReturnStep DEF C!GiveUp, C!Answered, RpcIInv, RpcTyped
<1>2. CASE C!WriteRequest(i) /\ proc[call[i].backend] # "up"
  <2>1. work[i].at = "none"
    BY <1>2 DEF C!WriteRequest, RpcIInv, WorkTracked
  <2>2. \A a \in C!Backend : hand[a] # C!NoHand => hand[a].id # i
    BY <2>1 DEF RpcIInv, HandTracked
  <2> QED BY <1>2, <2>2, ReturnStep DEF C!WriteRequest, C!Answered, RpcIInv, RpcTyped
<1>3. CASE C!WriteRequest(i) /\ proc[call[i].backend] = "up"
  <2>1. UNCHANGED <<manager, pipe, hand, terminal, failing, gaveUp, panicked, waiters, chan, Piped, Items>>
    <3>1. UNCHANGED <<manager, pipe, hand, terminal, failing, gaveUp, panicked, waiters, chan>>
      BY <1>3 DEF C!WriteRequest
    <3> QED BY <3>1 DEF Items, Piped
  <2>2. /\ \A j \in C!Call : j # i => call'[j] = call[j] /\ work'[j] = work[j]
        /\ call'[i].backend = call[i].backend /\ call'[i].at = "awaiting" /\ work'[i].at = "busy"
        /\ call[i].at = "registered" /\ work[i].at = "none" /\ call[i].backend \in C!Backend
    BY <1>3 DEF C!WriteRequest, RpcIInv, RpcTyped, WorkTracked
  <2>3. RpcTyped'
    <3>1. call' \in [C!Call -> CallShape]
      <4>1. "awaiting" \in Place
        BY DEF Place
      <4>2. call' = [call EXCEPT ![i].at = "awaiting"]
        BY <1>3 DEF C!WriteRequest
      <4> QED BY <4>1, <4>2, FieldsSet DEF RpcIInv
    <3>2. work' \in [C!Call -> WorkShape]
      <4>1. work' = [work EXCEPT ![i].at = "busy"]
        BY <1>3 DEF C!WriteRequest
      <4> QED BY <4>1, FieldsSet DEF RpcIInv
    <3> QED BY <2>1, <3>1, <3>2 DEF RpcIInv, RpcTyped, CallShape, WorkShape
  <2>4. TablesTracked'
    <3>1. \A a \in C!Backend : waiters[a] \subseteq C!Call /\ failing[a] \subseteq C!Call
      BY DEF RpcIInv, RpcTyped
    <3> QED BY <2>1, <2>2, <3>1 DEF RpcIInv, TablesTracked
  <2>5. WorkTracked'
    BY <2>2 DEF RpcIInv, WorkTracked
  <2>6. PipeTracked'
    BY <2>1, <2>2, ItemsAre DEF RpcIInv, PipeTracked, Envelope
  <2>7. HandTracked'
    BY <2>1, <2>2, ItemsAre DEF RpcIInv, HandTracked
  <2>8. ItemsTracked' /\ C!SendsToOpenChannels'
    BY <2>1, <2>2 DEF RpcIInv, ItemsTracked, C!SendsToOpenChannels
  <2> QED BY <2>3, <2>4, <2>5, <2>6, <2>7, <2>8 DEF RpcIInv
<1> QED BY <1>1, <1>2, <1>3

\* A call takes what lies in its channel.
LEMMA ReceiveStep ==
  ASSUME RpcIInv, NEW i \in C!Call, C!Receive(i)
  PROVE  RpcIInv'
<1> DEFINE items == chan[i].items
<1>1. /\ UNCHANGED <<manager, pipe, hand, terminal, failing, gaveUp, panicked, work>>
      /\ call[i].at = "awaiting" /\ items \in Seq({"event", "answer", "failure"})
      /\ call[i].backend \in C!Backend
  BY DEF C!Receive, RpcIInv, RpcTyped, WorkTracked
<1>2. CASE items # <<>> /\ Head(items) = "event" /\ chan' = [chan EXCEPT ![i].items = Tail(@)]
           /\ UNCHANGED <<call, waiters>>
  <2>1. /\ chan'[i].items = Tail(items) /\ chan'[i].open = chan[i].open
        /\ \A j \in C!Call : j # i => chan'[j] = chan[j]
    BY <1>2 DEF RpcIInv, RpcTyped
  <2> HIDE DEF items
  <2>2. /\ Tail(items) \in Seq({"event", "answer", "failure"})
        /\ \A k \in DOMAIN Tail(items) : k + 1 \in DOMAIN items /\ Tail(items)[k] = items[k + 1]
    BY <1>1, <1>2, TailIs
  <2>3. \A j \in C!Call : Items'[j] \subseteq Items[j]
    <3>1. \A k \in DOMAIN chan'[i].items : \E l \in DOMAIN items : chan'[i].items[k] = items[l]
      BY <2>1, <2>2
    <3>2. Items'[i] \subseteq Items[i]
      BY <3>1 DEF Items, items
    <3> QED BY <2>1, <3>2 DEF Items
  <2>4. Piped' = Piped
    BY <1>1 DEF Piped
  <2>5. RpcTyped'
    <3>1. chan' \in [C!Call -> ChanShape]
      BY <1>2, <2>2 DEF RpcIInv, RpcTyped, ChanShape, items
    <3> QED BY <1>1, <1>2, <3>1 DEF RpcIInv, RpcTyped, ChanShape
  <2>6. \A j \in C!Call : chan'[j].open = chan[j].open
    BY <2>1
  <2>7. TablesTracked' /\ WorkTracked' /\ C!SendsToOpenChannels'
    BY <1>1, <1>2, <2>6 DEF RpcIInv, TablesTracked, RpcTyped, WorkTracked, C!SendsToOpenChannels
  <2>8. PipeTracked'
    BY <1>1, <1>2 DEF RpcIInv, PipeTracked
  <2>9. HandTracked'
    BY <1>1, <1>2, <2>4, <2>6, ItemsAre DEF RpcIInv, HandTracked
  <2>10. ItemsTracked'
    BY <1>1, <1>2, <2>3, <2>4 DEF RpcIInv, ItemsTracked
  <2> QED BY <2>5, <2>7, <2>8, <2>9, <2>10 DEF RpcIInv
<1>3. ASSUME items # <<>>, Head(items) \in {"answer", "failure"}
      PROVE  \A a \in C!Backend : hand[a] # C!NoHand => hand[a].id # i
  <2>1. 1 \in DOMAIN items /\ Head(items) = items[1]
    <3> HIDE DEF items
    <3> QED BY <1>1, <1>3, TailIs
  <2>2. Head(items) \in Items[i]
    BY <2>1, ItemsAre
  <2>3. CASE Head(items) = "answer"
    BY <2>2, <2>3 DEF RpcIInv, ItemsTracked
  <2>4. CASE Head(items) = "failure"
    <3>1. terminal[call[i].backend]
      BY <2>2, <2>4 DEF RpcIInv, ItemsTracked
    <3>2. hand[call[i].backend] = C!NoHand
      BY <1>1, <3>1 DEF RpcIInv, TablesTracked
    <3> QED BY <3>2 DEF RpcIInv, HandTracked
  <2> QED BY <1>3, <2>3, <2>4
<1>4. ASSUME NEW answer \in C!Answered, C!Return(i, answer), items # <<>>,
             Head(items) \in {"answer", "failure"}
      PROVE  RpcIInv'
  <2>1. gaveUp' \in SUBSET C!Call /\ gaveUp \subseteq gaveUp'
    BY <1>1 DEF RpcIInv, RpcTyped
  <2> QED BY <1>1, <1>3, <1>4, <2>1, ReturnStep
<1>5. CASE items = <<>> /\ ~chan[i].open /\ C!Return(i, "error")
  <2>1. gaveUp' \in SUBSET C!Call /\ gaveUp \subseteq gaveUp'
    BY <1>1 DEF RpcIInv, RpcTyped
  <2>2. i \in gaveUp' \/ \A a \in C!Backend : hand[a] # C!NoHand => hand[a].id # i
    BY <1>1, <1>5 DEF RpcIInv, HandTracked
  <2> QED BY <1>1, <1>5, <2>1, <2>2, ReturnStep DEF C!Answered
<1> QED BY <1>2, <1>4, <1>5 DEF C!Receive, C!Answered

\* The dispatch loop looks up the waiter of an envelope.
LEMMA RouteStep ==
  ASSUME RpcIInv, NEW b \in C!Backend, C!Route(b)
  PROVE  RpcIInv'
<1>1. UNCHANGED <<manager, waiters, terminal, failing, gaveUp, call, chan, work, panicked, Items>>
  <2>1. UNCHANGED <<manager, waiters, terminal, failing, gaveUp, call, chan, work, panicked>>
    BY DEF C!Route
  <2> QED BY <2>1 DEF Items
<1> DEFINE p == pipe[b]
<1>2. /\ p \in Seq(Envelope) /\ p # <<>> /\ ~terminal[b] /\ hand[b] = C!NoHand
      /\ pipe'[b] = Tail(p) /\ \A a \in C!Backend : a # b => pipe'[a] = pipe[a] /\ hand'[a] = hand[a]
      /\ hand'[b] = IF Head(p).id \in waiters[b] THEN Head(p) ELSE C!NoHand
  BY DEF C!Route, RpcIInv, RpcTyped
<1>3. /\ Head(p) \in Envelope /\ Tail(p) \in Seq(Envelope) /\ 1 \in DOMAIN p /\ Head(p) = p[1]
      /\ \A k \in DOMAIN Tail(p) : k \in Nat /\ k + 1 \in DOMAIN p /\ Tail(p)[k] = p[k + 1]
  <2> HIDE DEF p
  <2> QED BY <1>2, TailIs
<1>4. \A a \in C!Backend : Piped'[a] \subseteq Piped[a]
  <2>1. \A k \in DOMAIN pipe'[b] : \E l \in DOMAIN p : pipe'[b][k] = p[l]
    BY <1>2, <1>3
  <2>2. Piped'[b] \subseteq Piped[b]
    BY <2>1 DEF Piped
  <2> QED BY <1>2, <2>2 DEF Piped
<1>5. RpcTyped'
  <2>1. pipe' \in [C!Backend -> Seq(Envelope)]
    BY <1>3 DEF C!Route, RpcIInv, RpcTyped
  <2>2. hand' \in [C!Backend -> Envelope \cup {C!NoHand}]
    BY <1>3 DEF C!Route, RpcIInv, RpcTyped
  <2> QED BY <1>1, <2>1, <2>2 DEF RpcIInv, RpcTyped
<1>6. TablesTracked' /\ WorkTracked' /\ C!SendsToOpenChannels'
  BY <1>1, <1>2 DEF RpcIInv, TablesTracked, WorkTracked, C!SendsToOpenChannels
<1>7. PipeTracked'
  <2> SUFFICES ASSUME NEW a \in C!Backend, NEW k \in DOMAIN pipe'[a]
               PROVE  /\ call[pipe'[a][k].id].backend = a /\ work[pipe'[a][k].id].at # "none"
                      /\ pipe'[a][k].what = "answer" =>
                           /\ work[pipe'[a][k].id].at = "done"
                           /\ \A j \in DOMAIN pipe'[a] : j > k => pipe'[a][j].id # pipe'[a][k].id
    BY <1>1 DEF PipeTracked
  <2>1. CASE a # b
    BY <1>2, <2>1 DEF RpcIInv, PipeTracked
  <2>2. CASE a = b
    <3>1. k \in Nat /\ k + 1 \in DOMAIN p /\ pipe'[a][k] = p[k + 1]
      BY <1>2, <1>3, <2>2
    <3>2. \A j \in DOMAIN pipe'[a] : j \in Nat /\ j + 1 \in DOMAIN p /\ pipe'[a][j] = p[j + 1]
      BY <1>2, <1>3, <2>2
    <3>3. /\ call[p[k + 1].id].backend = b /\ work[p[k + 1].id].at # "none"
          /\ p[k + 1].what = "answer" =>
               /\ work[p[k + 1].id].at = "done"
               /\ \A j \in DOMAIN p : j > k + 1 => p[j].id # p[k + 1].id
      BY <3>1 DEF RpcIInv, PipeTracked
    <3>4. \A j \in DOMAIN pipe'[a] : j > k => j + 1 > k + 1
      BY <3>1, <3>2
    <3> HIDE DEF p
    <3> QED BY <2>2, <3>1, <3>2, <3>3, <3>4
  <2> QED BY <2>1, <2>2
<1>8. Head(p).id \in waiters[b] =>
        /\ chan[Head(p).id].open /\ call[Head(p).id].backend = b /\ work[Head(p).id].at # "none"
        /\ Head(p).what = "answer" => work[Head(p).id].at = "done" /\ Head(p).id \notin Piped'[b]
  <2>1. /\ call[p[1].id].backend = b /\ work[p[1].id].at # "none"
        /\ p[1].what = "answer" => /\ work[p[1].id].at = "done"
                                   /\ \A j \in DOMAIN p : j > 1 => p[j].id # p[1].id
    BY <1>3 DEF RpcIInv, PipeTracked
  <2>2. \A k \in DOMAIN pipe'[b] : \E j \in DOMAIN p : j > 1 /\ pipe'[b][k] = p[j]
    BY <1>2, <1>3
  <2>3. p[1].what = "answer" => \A k \in DOMAIN pipe'[b] : pipe'[b][k].id # p[1].id
    <3> HIDE DEF p
    <3> QED BY <2>1, <2>2
  <2>4. p[1].what = "answer" => p[1].id \notin Piped'[b]
    BY <2>3 DEF Piped
  <2>5. Head(p).id \in waiters[b] => chan[Head(p).id].open
    BY DEF RpcIInv, TablesTracked
  <2> QED BY <1>3, <2>1, <2>4, <2>5
<1>9. HandTracked'
  <2> SUFFICES ASSUME NEW a \in C!Backend, hand'[a] # C!NoHand
               PROVE  /\ call[hand'[a].id].backend = a /\ work[hand'[a].id].at # "none"
                      /\ chan[hand'[a].id].open \/ hand'[a].id \in gaveUp
                      /\ hand'[a].what = "answer" =>
                           work[hand'[a].id].at = "done" /\ hand'[a].id \notin Piped'[a]
    BY <1>1 DEF HandTracked
  <2>1. CASE a # b
    BY <1>2, <1>4, <2>1 DEF RpcIInv, HandTracked
  <2>2. CASE a = b
    BY <1>2, <1>8, <2>2
  <2> QED BY <2>1, <2>2
<1>10. ItemsTracked'
  <2>1. Head(p).id \in Piped[b]
    BY <1>3, ItemsAre
  <2>2. C!NoHand.id \notin C!Call
    BY NoneIsNoCall DEF C!NoHand
  <2>3. ASSUME NEW i \in C!Call, "answer" \in Items[i], NEW a \in C!Backend
        PROVE  i \notin Piped'[a] /\ hand'[a].id # i
    BY <1>2, <1>4, <2>1, <2>2, <2>3 DEF RpcIInv, ItemsTracked
  <2> QED BY <1>1, <2>3 DEF RpcIInv, ItemsTracked
<1> QED BY <1>5, <1>6, <1>7, <1>9, <1>10 DEF RpcIInv

\* What a channel holds after one more item.
LEMMA ItemAdded ==
  ASSUME RpcTyped, NEW i \in C!Call, NEW item \in {"event", "answer", "failure"},
         NEW flag \in BOOLEAN,
         chan' = [chan EXCEPT ![i] = [open |-> flag, items |-> Append(chan[i].items, item)]]
  PROVE  /\ chan' \in [C!Call -> ChanShape] /\ chan'[i].open = flag
         /\ \A j \in C!Call : j # i => chan'[j] = chan[j] /\ Items'[j] = Items[j]
         /\ Items'[i] \subseteq Items[i] \cup {item}
<1> DEFINE s == chan[i].items
<1>1. chan \in [C!Call -> ChanShape] /\ s \in Seq({"event", "answer", "failure"})
  BY DEF RpcTyped, ChanShape
<1>2. /\ Append(s, item) \in Seq({"event", "answer", "failure"})
      /\ Append(s, item)[Len(s) + 1] = item
      /\ \A k \in DOMAIN Append(s, item) :
           (k \in DOMAIN s /\ Append(s, item)[k] = s[k]) \/ k = Len(s) + 1
  <2> HIDE DEF s
  <2> QED BY <1>1, AppendIs
<1>3. chan'[i] = [open |-> flag, items |-> Append(s, item)]
  BY <1>1
<1>4. chan' \in [C!Call -> ChanShape]
  BY <1>1, <1>2 DEF ChanShape
<1>5. \A k \in DOMAIN chan'[i].items :
        (\E l \in DOMAIN s : chan'[i].items[k] = s[l]) \/ chan'[i].items[k] = item
  BY <1>2, <1>3
<1>6. Items'[i] \subseteq Items[i] \cup {item}
  BY <1>5 DEF Items
<1>7. \A j \in C!Call : j # i => chan'[j] = chan[j]
  BY <1>1
<1> QED BY <1>3, <1>4, <1>6, <1>7 DEF Items

\* The dispatch loop sends what it has in hand, or meets a closed channel.
LEMMA DeliverStep ==
  ASSUME RpcIInv, NEW b \in C!Backend, C!Deliver(b)
  PROVE  RpcIInv'
<1> DEFINE i == hand[b].id
<1>1. /\ UNCHANGED <<manager, pipe, waiters, terminal, failing, call, work, gaveUp, Piped>>
      /\ hand[b] # C!NoHand /\ i \in C!Call /\ hand[b] \in Envelope
  <2>1. UNCHANGED <<manager, pipe, waiters, terminal, failing, call, work, gaveUp>>
    BY DEF C!Deliver
  <2> QED BY <2>1, ItemsAre DEF Piped, C!Deliver, RpcIInv
<1>2. CASE ~chan[i].open
  <2>1. UNCHANGED <<chan, hand, Items>>
    BY <1>2 DEF C!Deliver, Items
  <2>2. i \in gaveUp
    BY <1>1, <1>2 DEF RpcIInv, HandTracked
  <2> QED BY <1>1, <2>1, <2>2
          DEF RpcIInv, RpcTyped, TablesTracked, WorkTracked, PipeTracked, HandTracked, ItemsTracked,
              C!SendsToOpenChannels
<1>3. CASE chan[i].open
  <2> DEFINE what == hand[b].what
  <2>1. /\ chan' = [chan EXCEPT ![i].items = Append(@, what)]
        /\ hand' = [hand EXCEPT ![b] = C!NoHand] /\ UNCHANGED panicked
        /\ what \in {"event", "answer"}
    BY <1>1, <1>3 DEF C!Deliver, Envelope
  <2> DEFINE flag == chan[i].open
  <2>2. chan' = [chan EXCEPT ![i] = [open |-> flag, items |-> Append(chan[i].items, what)]] /\ flag \in BOOLEAN
    <3>1. chan \in [C!Call -> ChanShape]
      BY DEF RpcIInv, RpcTyped, ChanShape
    <3>2. chan[i] \in ChanShape
      BY <1>1, <3>1
    <3>3. \A s : [chan[i] EXCEPT !.items = s] = [open |-> flag, items |-> s]
      BY <3>2 DEF ChanShape
    <3> HIDE DEF flag
    <3> QED BY <2>1, <3>2, <3>3 DEF ChanShape
  <2>3. /\ chan' \in [C!Call -> ChanShape] /\ chan'[i].open = flag
        /\ \A j \in C!Call : j # i => chan'[j] = chan[j] /\ Items'[j] = Items[j]
        /\ Items'[i] \subseteq Items[i] \cup {what}
    <3> HIDE DEF i, what, flag
    <3> QED BY <1>1, <2>1, <2>2, ItemAdded DEF RpcIInv
  <2>4. hand'[b] = C!NoHand /\ \A a \in C!Backend : a # b => hand'[a] = hand[a]
    BY <2>1 DEF RpcIInv, RpcTyped
  <2>5. RpcTyped'
    <3>1. hand' \in [C!Backend -> Envelope \cup {C!NoHand}]
      BY <2>1 DEF RpcIInv, RpcTyped
    <3> QED BY <1>1, <2>3, <3>1 DEF RpcIInv, RpcTyped, ChanShape
  <2>6. \A j \in C!Call : chan'[j].open = chan[j].open
    BY <1>3, <2>3
  <2>7. TablesTracked' /\ WorkTracked'
    <3>1. \A a \in C!Backend : waiters[a] \subseteq C!Call
      BY DEF RpcIInv, RpcTyped
    <3> QED BY <1>1, <2>4, <2>6, <3>1 DEF RpcIInv, TablesTracked, WorkTracked
  <2>8. PipeTracked' /\ C!SendsToOpenChannels'
    BY <1>1, <2>1 DEF RpcIInv, PipeTracked, C!SendsToOpenChannels
  <2>9. HandTracked'
    BY <1>1, <2>4, <2>6, ItemsAre DEF RpcIInv, HandTracked
  <2>10. ItemsTracked'
    <3>1. C!NoHand.id \notin C!Call
      BY NoneIsNoCall DEF C!NoHand
    <3>2. call[i].backend = b /\ (what = "answer" => work[i].at = "done" /\ i \notin Piped[b])
      BY <1>1 DEF RpcIInv, HandTracked
    <3>3. \A a \in C!Backend : a # b => i \notin Piped[a] /\ hand[a].id # i
      <4>1. \A a \in C!Backend : i \in Piped[a] => call[i].backend = a
        BY DEF RpcIInv, PipeTracked, Piped
      <4>2. \A a \in C!Backend : hand[a].id = i => call[i].backend = a
        BY <1>1, <3>1 DEF RpcIInv, HandTracked
      <4> QED BY <3>2, <4>1, <4>2
    <3>4. ASSUME "answer" \in Items'[i]
          PROVE  work[i].at = "done" /\ \A a \in C!Backend : i \notin Piped[a] /\ hand'[a].id # i
      <4>1. CASE what = "answer"
        BY <1>1, <2>4, <3>1, <3>2, <3>3, <4>1
      <4>2. CASE what # "answer"
        BY <1>1, <2>3, <2>4, <3>1, <3>4, <4>2 DEF RpcIInv, ItemsTracked
      <4> QED BY <4>1, <4>2
    <3>5. "failure" \in Items'[i] => "failure" \in Items[i]
      BY <2>1, <2>3
    <3> QED BY <1>1, <2>3, <2>4, <3>1, <3>4, <3>5 DEF RpcIInv, ItemsTracked
  <2> QED BY <2>5, <2>7, <2>8, <2>9, <2>10 DEF RpcIInv
<1> QED BY <1>2, <1>3

\* The backend has ended or cannot be read: its waiters are to fail, one after
\* the other.
LEMMA FailAllStep ==
  ASSUME RpcIInv, NEW b \in C!Backend, C!FailAll(b) \/ C!Unreadable(b)
  PROVE  RpcIInv'
<1>0. C!End(b)
  BY DEF C!FailAll, C!Unreadable
<1>1. UNCHANGED <<manager, hand, call, chan, work, gaveUp, panicked, Items>> /\ hand[b] = C!NoHand
  <2>1. UNCHANGED <<manager, hand, call, chan, work, gaveUp, panicked>>
    BY <1>0 DEF C!End
  <2> QED BY <1>0, <2>1 DEF Items, C!End
<1>2. /\ terminal'[b] = TRUE /\ waiters'[b] = {} /\ failing'[b] = waiters[b]
      /\ \A a \in C!Backend : a # b => /\ terminal'[a] = terminal[a] /\ waiters'[a] = waiters[a]
                                      /\ failing'[a] = failing[a]
  BY <1>0 DEF C!End, RpcIInv, RpcTyped
<1>3. <<>> \in Seq(Envelope) /\ DOMAIN <<>> = {}
  BY EmptySeq
<1>4. pipe'[b] = <<>> /\ \A a \in C!Backend : a # b => pipe'[a] = pipe[a]
  BY <1>0 DEF C!End, RpcIInv, RpcTyped
<1>5. Piped'[b] = {} /\ \A a \in C!Backend : Piped'[a] \subseteq Piped[a]
  BY <1>3, <1>4 DEF Piped
<1>6. RpcTyped'
  BY <1>0, <1>1, <1>3 DEF C!End, RpcIInv, RpcTyped
<1>7. TablesTracked'
  BY <1>1, <1>2 DEF RpcIInv, TablesTracked
<1>8. ItemsTracked'
  BY <1>1, <1>2, <1>5 DEF RpcIInv, ItemsTracked
<1>9. PipeTracked'
  BY <1>1, <1>3, <1>4 DEF RpcIInv, PipeTracked
<1>10. HandTracked'
  BY <1>1, <1>5, ItemsAre DEF RpcIInv, HandTracked
<1> QED BY <1>1, <1>6, <1>7, <1>8, <1>9, <1>10 DEF RpcIInv, WorkTracked, C!SendsToOpenChannels

\* One waiter is given the failure, and its channel is closed.
LEMMA FailOneStep ==
  ASSUME RpcIInv, NEW b \in C!Backend, NEW i \in C!Call, C!FailOne(b, i)
  PROVE  RpcIInv'
<1>1. /\ UNCHANGED <<manager, pipe, waiters, hand, terminal, call, work, gaveUp, panicked, Piped>>
      /\ call[i].backend = b /\ call[i].at \notin {"new", "client"} /\ terminal[b]
  <2>1. UNCHANGED <<manager, pipe, waiters, hand, terminal, call, work, gaveUp, panicked>>
    BY DEF C!FailOne
  <2> QED BY <2>1 DEF Piped, C!FailOne, RpcIInv, TablesTracked
<1>2. chan' = [chan EXCEPT ![i] = [open |-> FALSE, items |-> Append(chan[i].items, "failure")]]
  BY DEF C!FailOne, RpcIInv, RpcTyped
<1>3. /\ chan' \in [C!Call -> ChanShape] /\ chan'[i].open = FALSE
      /\ \A j \in C!Call : j # i => chan'[j] = chan[j] /\ Items'[j] = Items[j]
      /\ Items'[i] \subseteq Items[i] \cup {"failure"}
  BY <1>2, ItemAdded DEF RpcIInv
<1>4. \A a \in C!Backend : failing'[a] \subseteq failing[a]
  BY DEF C!FailOne, RpcIInv, RpcTyped
<1>5. RpcTyped'
  <2>1. failing' \in [C!Backend -> SUBSET C!Call]
    BY DEF C!FailOne, RpcIInv, RpcTyped
  <2> QED BY <1>1, <1>3, <2>1 DEF RpcIInv, RpcTyped, ChanShape
<1>6. TablesTracked'
  <2>1. \A a \in C!Backend : i \notin waiters[a] /\ waiters[a] \subseteq C!Call
    BY <1>1 DEF RpcIInv, RpcTyped, TablesTracked
  <2> QED BY <1>1, <1>3, <1>4, <2>1 DEF RpcIInv, TablesTracked
<1>7. HandTracked'
  <2>1. \A a \in C!Backend : hand[a] # C!NoHand => hand[a].id # i
    BY <1>1 DEF RpcIInv, TablesTracked, HandTracked
  <2> QED BY <1>1, <1>3, <2>1, ItemsAre DEF RpcIInv, HandTracked
<1>8. ItemsTracked'
  <2>1. "answer" \in Items'[i] => "answer" \in Items[i]
    BY <1>3
  <2> SUFFICES ASSUME NEW j \in C!Call
               PROVE  /\ "answer" \in Items'[j] =>
                           work[j].at = "done" /\ \A a \in C!Backend : j \notin Piped[a] /\ hand[a].id # j
                      /\ "failure" \in Items'[j] =>
                           call[j].at # "new" /\ call[j].backend \in C!Backend /\ terminal[call[j].backend]
    BY <1>1 DEF ItemsTracked
  <2>2. CASE j = i
    BY <1>1, <2>1, <2>2 DEF RpcIInv, ItemsTracked
  <2>3. CASE j # i
    BY <1>3, <2>3 DEF RpcIInv, ItemsTracked
  <2> QED BY <2>2, <2>3
<1> QED BY <1>1, <1>5, <1>6, <1>7, <1>8 DEF RpcIInv, WorkTracked, PipeTracked, C!SendsToOpenChannels

\* Every step of the client keeps the invariant.
LEMMA RpcStep == RpcIInv /\ [C!Next]_C!cvars => RpcIInv'
<1> SUFFICES ASSUME RpcIInv, [C!Next]_C!cvars PROVE RpcIInv'
  OBVIOUS
<1>1. CASE \/ UNCHANGED C!cvars
           \/ \E i \in C!Call : C!Listen(i) \/ C!AnswerOverlay(i)
           \/ \E b \in C!Backend, i \in C!Call : C!FailNext(b, i)
  <2>1. UNCHANGED <<manager, pipe, waiters, hand, terminal, failing, call, chan, work, gaveUp, panicked>>
    BY <1>1 DEF C!cvars, C!routing, C!Listen, C!AnswerOverlay, C!calls, C!FailNext
  <2> QED BY <2>1 DEF RpcIInv, RpcTyped, TablesTracked, WorkTracked, PipeTracked, HandTracked,
             ItemsTracked, C!SendsToOpenChannels, Items, Piped
<1>2. CASE C!Next
  BY <1>1, <1>2, ManagerStep, CloseEndsStep, WriteStep, RegisterStep, FailsStep, ReceiveStep, RouteStep, DeliverStep,
     FailAllStep, FailOneStep DEF C!Next
<1> QED BY <1>1, <1>2

\* SendsToOpenChannels (RpcClient.tla): no result is sent on a closed channel
\* without an expired deadline.
THEOREM SendsAreToOpenChannels == Spec => []SendsToOpenChannels
<1>1. Init => RpcIInv
  BY RpcInit DEF Init
<1>2. [Next]_vars => [C!Next]_C!cvars
  BY DEF Next, vars, rpc, C!cvars, C!routing, C!screen
<1>3. RpcIInv /\ [Next]_vars => RpcIInv'
  BY <1>2, RpcStep
<1>4. RpcIInv => SendsToOpenChannels
  BY DEF RpcIInv, SendsToOpenChannels
<1> QED BY <1>1, <1>3, <1>4, PTL DEF Spec

-----------------------------------------------------------------------------
(* The events of a run and its overlays.                                   *)

\* The events that open an overlay, and those that end a run.
AskKind == {"approval", "question"}
LastKind == {"notCreated", "failed", "done"}

\* The events that are out: taken by the reader, or in the channel.
Out == taken \cup {ch[k] : k \in DOMAIN ch}
Asked == {e \in Out : e.what \in AskKind}
\* The answers on their way to the backend, and those it has accepted and the
\* client has not heard of.
Submits == {r.ask : r \in {q \in requests : q.what = "submit"}}
Accepted == {r \in replies : r.ok /\ r.request.what = "submit"}
\* The number the channel goes on from.
Base == IF taken = {} THEN handled ELSE handled + 1

\* One reader at a time holds one event, and the numbers go on without gaps.
Numbered ==
  /\ ch \in Seq({ch[k] : k \in DOMAIN ch})
  /\ listeners \in {0, 1} /\ emitted \in Nat /\ handled \in Nat
  /\ taken # {} => listeners = 0
  /\ \A e \in taken : taken = {e} /\ e.n = handled + 1
  /\ \A k \in DOMAIN ch : ch[k].n = Base + k
  /\ emitted = Base + Len(ch)

\* Nobody reads: the overlay of the ask has it.
Held(a) == /\ streaming /\ listeners = 0 /\ taken = {}
           /\ (approval = a /\ paused) \/ question = a

\* A question is out once, and is not out once it was shown or answered.
AsksTracked ==
  /\ asks \in Nat
  /\ \A e \in Asked : e.ask \in 1..asks /\ \A f \in Asked : f.ask = e.ask => f = e
  /\ \A a \in {approval, question} \cup Submits :
       a # T!None => a \in 1..asks /\ \A e \in Asked : e.ask # a

\* What the backend waits for is out, or held by its overlay; so is an answer.
WaitTracked ==
  /\ run = "waiting" => asking # T!None
  /\ asking # T!None =>
       /\ run = "waiting" /\ asking \in 1..asks
       /\ (\E e \in Asked : e.ask = asking) \/ (Held(asking) /\ Accepted = {})
  /\ \A r \in Accepted : Held(r.request.ask) /\ Accepted = {r}

\* The last event of a run is out last, and then nothing is.
EndTracked ==
  /\ \A e \in Out : e.what \in LastKind => e.n = emitted /\ run = "none"
  /\ ~streaming => run = "none" /\ Out = {} /\ listeners = 0

\* The invariant of the loop.
TuiIInv == Numbered /\ AsksTracked /\ WaitTracked /\ EndTracked

\* An event with its number.
Nth(e, m) == [e EXCEPT !.n = m]

-----------------------------------------------------------------------------
\* A sequence is one over its own elements.
LEMMA SeqOfItsOwn ==
  ASSUME NEW A, NEW s \in Seq(A)
  PROVE  /\ s \in Seq({s[k] : k \in DOMAIN s})
         /\ Len(s) \in Nat /\ DOMAIN s = 1..Len(s)
<1>1. Len(s) \in Nat /\ DOMAIN s = 1..Len(s)
  BY LenProperties
<1>2. s = [k \in 1..Len(s) |-> s[k]]
  BY <1>1, SeqDef
<1>3. \A k \in 1..Len(s) : s[k] \in {s[j] : j \in DOMAIN s}
  BY <1>1
<1> QED BY <1>1, <1>2, <1>3, IsASeq

\* The events emitted are the last in the channel, with the next numbers.
LEMMA EmitIs ==
  ASSUME TuiIInv, NEW A, NEW events \in Seq(A), T!Emit(events),
         \A i \in 1..Len(events) : Nth(events[i], emitted + i).n = emitted + i,
         UNCHANGED <<taken, handled, listeners>>
  PROVE  /\ Numbered' /\ emitted' = emitted + Len(events)
         /\ Out' = Out \cup {Nth(events[i], emitted + i) : i \in 1..Len(events)}
<1> DEFINE more == [i \in 1..Len(events) |-> Nth(events[i], emitted + i)]
           C0 == {ch[k] : k \in DOMAIN ch}
           M == {more[i] : i \in 1..Len(events)}
<1>1. ch \in Seq(C0) /\ Len(ch) \in Nat /\ DOMAIN ch = 1..Len(ch)
  BY LenProperties DEF TuiIInv, Numbered
<1>2. Len(events) \in Nat
  BY LenProperties
<1>3. more \in Seq(M) /\ Len(more) = Len(events)
  <2>1. \A i \in 1..Len(events) : more[i] \in M
    OBVIOUS
  <2>2. more \in Seq(M)
    BY <1>2, <2>1, IsASeq
  <2>3. DOMAIN more = 1..Len(events)
    OBVIOUS
  <2> HIDE DEF more, M
  <2>4. DOMAIN more = 1..Len(more) /\ Len(more) \in Nat
    BY <2>2, LenProperties
  <2> QED BY <1>2, <2>2, <2>3, <2>4
<1>4. \A i \in 1..Len(events) : more[i].n = emitted + i
  OBVIOUS
<1>5. ch' = ch \o more
  BY DEF T!Emit, Nth
<1>6. emitted' = emitted + Len(events)
  BY DEF T!Emit
<1>7. /\ ch' \in Seq(C0 \cup M) /\ Len(ch') = Len(ch) + Len(events)
      /\ \A i \in 1..(Len(ch) + Len(events)) :
           ch'[i] = IF i <= Len(ch) THEN ch[i] ELSE more[i - Len(ch)]
  <2> HIDE DEF more, M, C0
  <2>1. ch \in Seq(C0 \cup M) /\ more \in Seq(C0 \cup M)
    BY <1>1, <1>3, SeqMonotonic
  <2>2. /\ ch \o more \in Seq(C0 \cup M) /\ Len(ch \o more) = Len(ch) + Len(more)
        /\ \A i \in 1..(Len(ch) + Len(more)) :
             (ch \o more)[i] = IF i <= Len(ch) THEN ch[i] ELSE more[i - Len(ch)]
    BY <2>1, ConcatProperties
  <2> QED BY <1>3, <1>5, <2>2
<1>8. ch' \in Seq({ch'[k] : k \in DOMAIN ch'}) /\ DOMAIN ch' = 1..Len(ch')
  <2> HIDE DEF more, M, C0
  <2>1. ch' \in Seq(C0 \cup M)
    BY <1>7
  <2> QED BY <2>1, SeqOfItsOwn
<1> HIDE DEF more
<1>9. \A k \in DOMAIN ch' : ch'[k].n = Base' + k
  <2>1. Base' = Base
    BY DEF Base
  <2> SUFFICES ASSUME NEW k \in DOMAIN ch' PROVE ch'[k].n = Base + k
    BY <2>1
  <2>2. CASE k <= Len(ch)
    BY <1>1, <1>2, <1>7, <1>8, <2>2 DEF TuiIInv, Numbered
  <2>3. CASE k > Len(ch)
    <3>1. k - Len(ch) \in 1..Len(events) /\ ch'[k] = more[k - Len(ch)]
      BY <1>1, <1>2, <1>7, <1>8, <2>3
    <3>2. ch'[k].n = emitted + (k - Len(ch))
      BY <1>4, <3>1
    <3>3. emitted = Base + Len(ch) /\ Base \in Nat
      BY DEF TuiIInv, Numbered, Base
    <3> QED BY <1>1, <1>8, <3>2, <3>3
  <2> QED BY <1>1, <1>8, <2>2, <2>3
<1>10. Numbered'
  <2>1. Base' = Base /\ Base \in Nat
    BY DEF Base, TuiIInv, Numbered
  <2> QED BY <1>1, <1>2, <1>6, <1>7, <1>8, <1>9, <2>1 DEF TuiIInv, Numbered
<1>11. {ch'[k] : k \in DOMAIN ch'} = C0 \cup {more[i] : i \in 1..Len(events)}
  <2>1. \A k \in DOMAIN ch' : ch'[k] \in C0 \cup {more[i] : i \in 1..Len(events)}
    <3> TAKE k \in DOMAIN ch'
    <3>1. CASE k <= Len(ch)
      BY <1>1, <1>2, <1>7, <1>8, <3>1
    <3>2. CASE k > Len(ch)
      <4>1. k - Len(ch) \in 1..Len(events) /\ ch'[k] = more[k - Len(ch)]
        BY <1>1, <1>2, <1>7, <1>8, <3>2
      <4> QED BY <4>1
    <3> QED BY <1>1, <1>8, <3>1, <3>2
  <2>2. \A k \in DOMAIN ch : k \in DOMAIN ch' /\ ch'[k] = ch[k]
    BY <1>1, <1>2, <1>7, <1>8
  <2>3. \A i \in 1..Len(events) : Len(ch) + i \in DOMAIN ch' /\ ch'[Len(ch) + i] = more[i]
    <3> TAKE i \in 1..Len(events)
    <3>1. Len(ch) + i \in 1..(Len(ch) + Len(events)) /\ ~(Len(ch) + i <= Len(ch)) /\ (Len(ch) + i) - Len(ch) = i
      BY <1>1, <1>2
    <3> QED BY <1>7, <1>8, <3>1
  <2>4. C0 \subseteq {ch'[k] : k \in DOMAIN ch'}
    BY <2>2
  <2>5. {more[i] : i \in 1..Len(events)} \subseteq {ch'[k] : k \in DOMAIN ch'}
    BY <2>3
  <2> QED BY <2>1, <2>4, <2>5
<1>12. Out' = Out \cup {more[i] : i \in 1..Len(events)}
  BY <1>11 DEF Out
<1>13. {more[i] : i \in 1..Len(events)} = {Nth(events[i], emitted + i) : i \in 1..Len(events)}
  BY DEF more
<1> QED BY <1>6, <1>10, <1>12, <1>13

\* What the backend does besides asking and taking an answer.
LEMMA BackendKeeps ==
  ASSUME TuiIInv, NEW N, Out' = Out \cup N, Numbered',
         UNCHANGED <<streaming, approval, question, paused, listeners, taken, asks, Accepted>>,
         Submits' \subseteq Submits,
         (asking' = T!None /\ run' # "waiting") \/ (asking' = asking /\ run' = run),
         \A e \in N : e.what \notin AskKind /\ (e.what \in LastKind => e.n = emitted' /\ run' = "none"),
         IF run = "none" THEN N = {} /\ emitted' = emitted /\ run' = "none" ELSE TRUE
  PROVE  TuiIInv' /\ Asked' = Asked
<1>1. Asked' = Asked
  BY DEF Asked
<1>2. AsksTracked'
  BY <1>1 DEF TuiIInv, AsksTracked
<1>3. WaitTracked'
  BY <1>1 DEF TuiIInv, WaitTracked, Held
<1>4. EndTracked'
  BY DEF TuiIInv, EndTracked
<1> QED BY <1>1, <1>2, <1>3, <1>4 DEF TuiIInv

\* The backend goes on, and tells it.
LEMMA EmitKeeps ==
  ASSUME TuiIInv, NEW A, NEW events \in Seq(A), T!Emit(events), run # "none",
         UNCHANGED <<streaming, approval, question, paused, listeners, taken, handled, asks, Accepted>>,
         Submits' \subseteq Submits,
         (asking' = T!None /\ run' # "waiting") \/ (asking' = asking /\ run' = run),
         \A i \in 1..Len(events) :
           /\ Nth(events[i], emitted + i).n = emitted + i
           /\ Nth(events[i], emitted + i).what \notin AskKind
           /\ Nth(events[i], emitted + i).what \in LastKind => i = Len(events) /\ run' = "none"
  PROVE  TuiIInv' /\ Asked' = Asked
<1> DEFINE N == {Nth(events[i], emitted + i) : i \in 1..Len(events)}
<1>1. Numbered' /\ emitted' = emitted + Len(events) /\ Out' = Out \cup N
  BY EmitIs
<1>2. \A e \in N : e.what \notin AskKind /\ (e.what \in LastKind => e.n = emitted' /\ run' = "none")
  BY <1>1
<1> HIDE DEF N
<1> QED BY <1>1, <1>2, BackendKeeps

\* What an event is once it has its number.
LEMMA EventsAre ==
  /\ \A w, m : Nth(T!Event(w), m) = [n |-> m, what |-> w, ask |-> T!None, queue |-> T!Empty]
  /\ \A w, a, m : Nth(T!AskEvent(w, a), m) = [n |-> m, what |-> w, ask |-> a, queue |-> T!Empty]
  /\ \A w, q, m : Nth(T!QueueEvent(w, q), m) = [n |-> m, what |-> w, ask |-> T!None, queue |-> q]
<1>1. ASSUME NEW w, NEW m
      PROVE  Nth(T!Event(w), m) = [n |-> m, what |-> w, ask |-> T!None, queue |-> T!Empty]
  <2>1. T!Event(w) = [n |-> 0, what |-> w, ask |-> T!None, queue |-> T!Empty]
    BY DEF T!Event, T!NoEvent
  <2> QED BY <2>1 DEF Nth
<1>2. ASSUME NEW w, NEW a, NEW m
      PROVE  Nth(T!AskEvent(w, a), m) = [n |-> m, what |-> w, ask |-> a, queue |-> T!Empty]
  <2>1. T!AskEvent(w, a) = [n |-> 0, what |-> w, ask |-> a, queue |-> T!Empty]
    <3>1. T!AskEvent(w, a) = [[T!NoEvent EXCEPT !.what = w] EXCEPT !.ask = a]
      BY DEF T!AskEvent
    <3>2. [T!NoEvent EXCEPT !.what = w] = [n |-> 0, what |-> w, ask |-> T!None, queue |-> T!Empty]
      BY DEF T!NoEvent
    <3> QED BY <3>1, <3>2
  <2> QED BY <2>1 DEF Nth
<1>3. ASSUME NEW w, NEW q, NEW m
      PROVE  Nth(T!QueueEvent(w, q), m) = [n |-> m, what |-> w, ask |-> T!None, queue |-> q]
  <2>1. T!QueueEvent(w, q) = [n |-> 0, what |-> w, ask |-> T!None, queue |-> q]
    <3>1. T!QueueEvent(w, q) = [[T!NoEvent EXCEPT !.what = w] EXCEPT !.queue = q]
      BY DEF T!QueueEvent
    <3>2. [T!NoEvent EXCEPT !.what = w] = [n |-> 0, what |-> w, ask |-> T!None, queue |-> T!Empty]
      BY DEF T!NoEvent
    <3> QED BY <3>1, <3>2
  <2> QED BY <2>1 DEF Nth
<1> QED BY <1>1, <1>2, <1>3

\* Up to three events in a row.
LEMMA EventLists ==
  /\ \A a : <<a>> \in Seq({a}) /\ Len(<<a>>) = 1 /\ <<a>>[1] = a
  /\ \A a, b : <<a, b>> \in Seq({a, b}) /\ Len(<<a, b>>) = 2 /\ <<a, b>>[1] = a /\ <<a, b>>[2] = b
  /\ \A a, b, c : /\ <<a>> \o <<b, c>> \in Seq({a, b, c}) /\ Len(<<a>> \o <<b, c>>) = 3
                  /\ (<<a>> \o <<b, c>>)[1] = a /\ (<<a>> \o <<b, c>>)[2] = b /\ (<<a>> \o <<b, c>>)[3] = c
<1>1. ASSUME NEW a, NEW b, NEW c
      PROVE  /\ <<a>> \o <<b, c>> \in Seq({a, b, c}) /\ Len(<<a>> \o <<b, c>>) = 3
             /\ (<<a>> \o <<b, c>>)[1] = a /\ (<<a>> \o <<b, c>>)[2] = b /\ (<<a>> \o <<b, c>>)[3] = c
  <2>1. <<a>> \in Seq({a, b, c}) /\ <<b, c>> \in Seq({a, b, c}) /\ Len(<<a>>) = 1 /\ Len(<<b, c>>) = 2
    OBVIOUS
  <2> DEFINE s == <<a>>
             r == <<b, c>>
  <2>2. s[1] = a /\ r[1] = b /\ r[2] = c
    OBVIOUS
  <2> HIDE DEF s, r
  <2>3. /\ s \o r \in Seq({a, b, c}) /\ Len(s \o r) = 3
        /\ \A i \in 1..3 : (s \o r)[i] = IF i <= 1 THEN s[i] ELSE r[i - 1]
    <3>1. s \in Seq({a, b, c}) /\ r \in Seq({a, b, c}) /\ Len(s) = 1 /\ Len(r) = 2
      BY <2>1 DEF s, r
    <3>2. /\ s \o r \in Seq({a, b, c}) /\ Len(s \o r) = Len(s) + Len(r)
          /\ \A i \in 1..(Len(s) + Len(r)) : (s \o r)[i] = IF i <= Len(s) THEN s[i] ELSE r[i - Len(s)]
      BY <3>1, ConcatProperties
    <3> QED BY <3>1, <3>2
  <2>4. (s \o r)[1] = a /\ (s \o r)[2] = b /\ (s \o r)[3] = c
    BY <2>2, <2>3
  <2> QED BY <2>3, <2>4 DEF s, r
<1> QED BY <1>1

\* The backend tells one thing that no overlay is about.
LEMMA OneKeeps ==
  ASSUME TuiIInv, NEW e, T!Emit(<<e>>), run # "none",
         UNCHANGED <<streaming, approval, question, paused, listeners, taken, handled, asks, Accepted>>,
         Submits' \subseteq Submits, (asking' = T!None /\ run' # "waiting") \/ (asking' = asking /\ run' = run),
         \A m : /\ Nth(e, m).n = m /\ Nth(e, m).what \notin AskKind
                /\ Nth(e, m).what \in LastKind => run' = "none"
  PROVE  TuiIInv' /\ Asked' = Asked
<1> DEFINE events == <<e>>
<1>1. events \in Seq({e}) /\ Len(events) = 1 /\ events[1] = e /\ T!Emit(events)
  BY EventLists
<1> HIDE DEF events
<1>2. \A i \in 1..Len(events) :
           /\ Nth(events[i], emitted + i).n = emitted + i
           /\ Nth(events[i], emitted + i).what \notin AskKind
           /\ Nth(events[i], emitted + i).what \in LastKind => i = Len(events) /\ run' = "none"
  BY <1>1
<1> QED BY <1>1, <1>2, EmitKeeps

\* The backend tells two such things.
LEMMA TwoKeep ==
  ASSUME TuiIInv, NEW e, NEW f, T!Emit(<<e, f>>), run # "none",
         UNCHANGED <<streaming, approval, question, paused, listeners, taken, handled, asks, Accepted>>,
         Submits' \subseteq Submits, (asking' = T!None /\ run' # "waiting") \/ (asking' = asking /\ run' = run),
         \A m : /\ Nth(e, m).n = m /\ Nth(e, m).what \notin AskKind \cup LastKind
                /\ Nth(f, m).n = m /\ Nth(f, m).what \notin AskKind
                /\ Nth(f, m).what \in LastKind => run' = "none"
  PROVE  TuiIInv' /\ Asked' = Asked
<1> DEFINE events == <<e, f>>
<1>1. events \in Seq({e, f}) /\ Len(events) = 2 /\ events[1] = e /\ events[2] = f /\ T!Emit(events)
  BY EventLists
<1> HIDE DEF events
<1>2. \A i \in 1..Len(events) :
           /\ Nth(events[i], emitted + i).n = emitted + i
           /\ Nth(events[i], emitted + i).what \notin AskKind
           /\ Nth(events[i], emitted + i).what \in LastKind => i = Len(events) /\ run' = "none"
  BY <1>1
<1> QED BY <1>1, <1>2, EmitKeeps

\* Nobody listens and nothing is out at first.
LEMMA TuiInit == T!Init => TuiIInv
<1> SUFFICES ASSUME T!Init PROVE TuiIInv
  OBVIOUS
<1>1. ch = <<>> /\ taken = {} /\ requests = {} /\ replies = {}
  BY DEF T!Init
<1>2. <<>> \in Seq({ch[k] : k \in DOMAIN ch}) /\ Len(<<>>) = 0 /\ DOMAIN <<>> = {}
  BY EmptySeq
<1>3. Out = {} /\ Asked = {} /\ Submits = {} /\ Accepted = {}
  BY <1>1, <1>2 DEF Out, Asked, Submits, Accepted
<1> QED BY <1>1, <1>2, <1>3 DEF T!Init, TuiIInv, Numbered, Base, AsksTracked, WaitTracked, EndTracked

\* What has no event: the backend, or the editor, alone.
LEMMA SilentKeeps ==
  ASSUME TuiIInv,
         UNCHANGED <<streaming, approval, question, paused, listeners, taken, handled, asks, Accepted, ch, emitted>>,
         Submits' \subseteq Submits,
         (asking' = T!None /\ run' # "waiting") \/ (asking' = asking /\ run' = run),
         run = "none" => run' = "none"
  PROVE  TuiIInv' /\ Asked' = Asked
<1>1. Out' = Out \cup {} /\ Numbered'
  BY DEF Out, TuiIInv, Numbered, Base
<1> DEFINE N == {}
<1>2. \A e \in N : e.what \notin AskKind /\ (e.what \in LastKind => e.n = emitted' /\ run' = "none")
  OBVIOUS
<1>3. IF run = "none" THEN N = {} /\ emitted' = emitted /\ run' = "none" ELSE TRUE
  OBVIOUS
<1>4. Out' = Out \cup N
  BY <1>1
<1> HIDE DEF N
<1> QED BY <1>1, <1>2, <1>3, <1>4, BackendKeeps

\* The backend's session and run go on or end.
LEMMA RunStep ==
  ASSUME TuiIInv,
         T!CreateSession \/ T!SubmitSteers \/ T!RunEnds \/ T!RunFails
  PROVE  TuiIInv' /\ Asked' = Asked
<1>1. /\ UNCHANGED <<streaming, approval, question, paused, listeners, taken, handled, asks, requests, replies>>
      /\ run # "none"
  BY DEF T!CreateSession, T!SubmitSteers, T!RunEnds, T!RunFails, T!same, T!ui
<1>2. Accepted' = Accepted /\ Submits' \subseteq Submits
  BY <1>1 DEF Accepted, Submits
<1>3. asking # T!None => run = "waiting"
  BY DEF TuiIInv, WaitTracked
<1>4. CASE T!CreateSession
  <2>1. PICK w \in {"created", "notCreated"} :
          /\ T!Emit(<<T!Event(w)>>) /\ (w = "notCreated" => run' = "none")
          /\ asking' = T!None /\ run' # "waiting"
    BY <1>3, <1>4 DEF T!CreateSession
  <2> QED BY <1>1, <1>2, <2>1, OneKeeps, EventsAre DEF AskKind, LastKind
<1>5. CASE T!SubmitSteers
  <2>1. T!Emit(T!Batch("next")) /\ asking' = asking /\ run' = run
    BY <1>5 DEF T!SubmitSteers
  <2>2. PICK q, r : T!Batch("next") = <<T!QueueEvent("queue", q), T!QueueEvent("batch", r)>>
    BY DEF T!Batch
  <2> DEFINE e == T!QueueEvent("queue", q)
             f == T!QueueEvent("batch", r)
  <2>3. \A m : /\ Nth(e, m).n = m /\ Nth(e, m).what \notin AskKind \cup LastKind
               /\ Nth(f, m).n = m /\ Nth(f, m).what \notin AskKind \cup LastKind
    BY EventsAre DEF AskKind, LastKind
  <2>4. T!Emit(<<e, f>>)
    BY <2>1, <2>2
  <2> HIDE DEF e, f
  <2> QED BY <1>1, <1>2, <2>1, <2>3, <2>4, TwoKeep
<1>6. CASE T!RunEnds
  <2>1. asking' = T!None /\ run' # "waiting"
    BY <1>6 DEF T!RunEnds
  <2>2. ASSUME NEW group, T!Emit(<<T!Event("terminal")>> \o T!Batch(group)) PROVE TuiIInv' /\ Asked' = Asked
    <3>1. PICK q, r : T!Batch(group) = <<T!QueueEvent("queue", q), T!QueueEvent("batch", r)>>
      BY DEF T!Batch
    <3> DEFINE a == T!Event("terminal")
               b == T!QueueEvent("queue", q)
               c == T!QueueEvent("batch", r)
               events == <<a>> \o <<b, c>>
    <3>2. /\ events \in Seq({a, b, c}) /\ Len(events) = 3
          /\ events[1] = a /\ events[2] = b /\ events[3] = c
      BY EventLists
    <3>3. \A e \in {a, b, c} : \A m : /\ Nth(e, m).n = m
                                     /\ Nth(e, m).what \in {"terminal", "queue", "batch"}
      BY EventsAre
    <3>4. T!Emit(events)
      BY <2>2, <3>1
    <3> HIDE DEF a, b, c, events
    <3>5. \A i \in 1..Len(events) : events[i] \in {a, b, c}
      BY <3>2
    <3>6. \A i \in 1..Len(events) :
             /\ Nth(events[i], emitted + i).n = emitted + i
             /\ Nth(events[i], emitted + i).what \notin AskKind
             /\ Nth(events[i], emitted + i).what \in LastKind => i = Len(events) /\ run' = "none"
      BY <3>3, <3>5 DEF AskKind, LastKind
    <3> QED BY <1>1, <1>2, <2>1, <3>2, <3>4, <3>6, EmitKeeps
  <2>3. CASE T!Emit(<<T!Event("terminal"), T!Event("done")>>) /\ run' = "none"
    BY <1>1, <1>2, <2>1, <2>3, TwoKeep, EventsAre DEF AskKind, LastKind
  <2> QED BY <1>6, <2>2, <2>3 DEF T!RunEnds
<1>7. CASE T!RunFails
  <2>1. run' = "none" /\ asking' = T!None
    BY <1>3, <1>7 DEF T!RunFails
  <2>2. CASE T!Emit(<<T!Event("failed")>>)
    BY <1>1, <1>2, <2>1, <2>2, OneKeeps, EventsAre DEF AskKind, LastKind
  <2>3. CASE T!Emit(<<T!QueueEvent("queue", T!Empty), T!Event("failed")>>)
    BY <1>1, <1>2, <2>1, <2>3, TwoKeep, EventsAre DEF AskKind, LastKind
  <2> QED BY <1>7, <2>2, <2>3 DEF T!RunFails
<1> QED BY <1>4, <1>5, <1>6, <1>7

\* The backend asks: the question is out, and it waits for it.
LEMMA AskUserStep ==
  ASSUME TuiIInv, T!AskUser
  PROVE  TuiIInv' /\ \A f \in Asked' : f \in Asked \/ f.ask = asking'
<1>1. /\ UNCHANGED <<streaming, approval, question, paused, listeners, taken, handled, requests, replies>>
      /\ run = "running" /\ run' = "waiting" /\ asks' = asks + 1 /\ asking' = asks + 1
  BY DEF T!AskUser, T!same, T!ui
<1>2. Accepted' = Accepted /\ Submits' = Submits
  BY <1>1 DEF Accepted, Submits
<1>3. PICK what \in AskKind : T!Emit(<<T!AskEvent(what, asks + 1)>>)
  BY DEF T!AskUser, AskKind
<1> DEFINE ev == T!AskEvent(what, asks + 1)
           e == [n |-> emitted + 1, what |-> what, ask |-> asks + 1, queue |-> T!Empty]
<1>4. Numbered' /\ emitted' = emitted + 1 /\ Out' = Out \cup {e}
  <2> DEFINE events == <<ev>>
  <2>1. events \in Seq({ev}) /\ Len(events) = 1 /\ events[1] = ev /\ T!Emit(events)
    BY <1>3, EventLists
  <2>2. \A m : Nth(ev, m).n = m
    BY EventsAre
  <2>3. Nth(ev, emitted + 1) = e
    BY EventsAre
  <2> HIDE DEF events, ev, e
  <2>4. \A i \in 1..Len(events) : Nth(events[i], emitted + i).n = emitted + i
    BY <2>1, <2>2
  <2>5. /\ Numbered' /\ emitted' = emitted + Len(events)
        /\ Out' = Out \cup {Nth(events[i], emitted + i) : i \in 1..Len(events)}
    BY <1>1, <2>1, <2>4, EmitIs
  <2>6. {Nth(events[i], emitted + i) : i \in 1..Len(events)} = {e}
    BY <2>1, <2>3
  <2> QED BY <2>1, <2>5, <2>6
<1>5. Asked' = Asked \cup {e} /\ e.ask = asks + 1 /\ e.what \in AskKind
  BY <1>4 DEF Asked
<1> HIDE DEF e
<1>6. AsksTracked'
  BY <1>1, <1>2, <1>5 DEF TuiIInv, AsksTracked
<1>7. WaitTracked'
  <2>1. asks' \in Nat /\ asking' \in 1..asks' /\ e \in Asked'
    BY <1>1, <1>5 DEF TuiIInv, AsksTracked
  <2>2. asking' # T!None
    BY <1>1, <2>1 DEF T!None, TuiIInv, AsksTracked
  <2> QED BY <1>1, <1>2, <1>5, <2>1, <2>2 DEF TuiIInv, WaitTracked, Held
<1>8. EndTracked'
  BY <1>1, <1>4, <1>5 DEF TuiIInv, EndTracked, AskKind, LastKind
<1> QED BY <1>1, <1>4, <1>5, <1>6, <1>7, <1>8 DEF TuiIInv

\* The backend handles a request.
LEMMA HandleStep ==
  ASSUME TuiIInv, NEW r \in requests, T!HandleSubmit(r) \/ T!HandleInterrupt(r) \/ T!HandleEnqueue(r)
  PROVE  TuiIInv' /\ Asked' = Asked
<1>1. UNCHANGED <<streaming, approval, question, paused, listeners, taken, handled, asks>>
  BY DEF T!HandleSubmit, T!HandleInterrupt, T!HandleEnqueue, T!same, T!ui
<1>2. PICK ok \in BOOLEAN : T!Reply(r, ok)
  BY DEF T!HandleSubmit, T!HandleInterrupt, T!HandleEnqueue
<1>3. Submits' \subseteq Submits
  BY <1>2 DEF Submits, T!Reply
<1>4. r.what # "submit" \/ ~ok \/ r.late => Accepted' = Accepted
  BY <1>2 DEF Accepted, T!Reply
<1>5. CASE T!HandleSubmit(r) /\ run = "waiting" /\ asking = r.ask
  <2>1. /\ run' = "running" /\ asking' = T!None /\ T!Emit(<<T!AskEvent("resolved", r.ask)>>)
        /\ replies' \in {replies, replies \cup {[request |-> r, ok |-> TRUE]}}
        /\ r.what = "submit" /\ T!Reply(r, TRUE)
    BY <1>5 DEF T!HandleSubmit, T!Reply
  <2> DEFINE new == [request |-> r, ok |-> TRUE]
             ev == T!AskEvent("resolved", r.ask)
             e == [n |-> emitted + 1, what |-> "resolved", ask |-> r.ask, queue |-> T!Empty]
  <2>2. Accepted' \in {Accepted, Accepted \cup {new}}
    BY <2>1 DEF Accepted
  <2>3. r.ask \in Submits
    BY <2>1 DEF Submits
  <2>4. r.ask # T!None => Held(r.ask) /\ Accepted = {}
    BY <1>5, <2>3 DEF TuiIInv, AsksTracked, WaitTracked
  <2>5. Numbered' /\ emitted' = emitted + 1 /\ Out' = Out \cup {e}
    <3> DEFINE events == <<ev>>
    <3>1. events \in Seq({ev}) /\ Len(events) = 1 /\ events[1] = ev /\ T!Emit(events)
      BY <2>1, EventLists
    <3>2. Nth(ev, emitted + 1) = e /\ e.n = emitted + 1
      BY EventsAre
    <3> HIDE DEF events, ev, e
    <3>3. \A i \in 1..Len(events) : Nth(events[i], emitted + i).n = emitted + i
      BY <3>1, <3>2
    <3>4. /\ Numbered' /\ emitted' = emitted + Len(events)
          /\ Out' = Out \cup {Nth(events[i], emitted + i) : i \in 1..Len(events)}
      BY <1>1, <3>1, <3>3, EmitIs
    <3>5. {Nth(events[i], emitted + i) : i \in 1..Len(events)} = {e}
      BY <3>1, <3>2
    <3> QED BY <3>1, <3>4, <3>5
  <2>6. Asked' = Asked
    BY <2>5 DEF Asked, AskKind
  <2>7. AsksTracked'
    BY <1>1, <1>3, <2>6 DEF TuiIInv, AsksTracked
  <2>8. Held(r.ask) /\ Accepted = {}
    BY <1>5, <2>4 DEF TuiIInv, WaitTracked
  <2>9. Held(r.ask)'
    BY <1>1, <2>8 DEF Held
  <2>10. WaitTracked'
    <3>1. \A q \in Accepted' : q = new /\ q.request = r
      BY <2>2, <2>8
    <3>2. \A q \in Accepted' : Held(q.request.ask)' /\ Accepted' = {q}
      BY <2>2, <2>8, <2>9, <3>1
    <3> QED BY <2>1, <3>2 DEF WaitTracked
  <2>11. EndTracked'
    BY <1>1, <1>5, <2>1, <2>5 DEF TuiIInv, EndTracked, LastKind
  <2> QED BY <2>5, <2>6, <2>7, <2>10, <2>11 DEF TuiIInv
<1>6. CASE T!HandleSubmit(r) /\ ~(run = "waiting" /\ asking = r.ask)
  <2>1. UNCHANGED <<run, asking, ch, emitted>> /\ T!Reply(r, FALSE)
    BY <1>6 DEF T!HandleSubmit
  <2>2. Accepted' = Accepted
    BY <2>1 DEF Accepted, T!Reply
  <2> QED BY <1>1, <1>3, <2>1, <2>2, SilentKeeps
<1>7. CASE T!HandleInterrupt(r)
  <2>1. /\ UNCHANGED <<ch, emitted>> /\ r.what = "interrupt"
        /\ (asking' = T!None /\ run # "none" /\ run' = "cancelled") \/ UNCHANGED <<run, asking>>
    BY <1>7 DEF T!HandleInterrupt
  <2> QED BY <1>1, <1>3, <1>4, <2>1, SilentKeeps
<1>8. CASE T!HandleEnqueue(r) /\ run \in {"running", "waiting", "cancelled"}
  <2>1. PICK q : T!Emit(<<T!QueueEvent("queue", q)>>) /\ UNCHANGED <<run, asking>> /\ r.what # "submit"
    BY <1>8 DEF T!HandleEnqueue
  <2> QED BY <1>1, <1>3, <1>4, <1>8, <2>1, OneKeeps, EventsAre DEF AskKind, LastKind
<1>9. CASE T!HandleEnqueue(r) /\ run \notin {"running", "waiting", "cancelled"}
  <2>1. UNCHANGED <<ch, emitted, run, asking>> /\ r.what # "submit"
    BY <1>9 DEF T!HandleEnqueue
  <2> QED BY <1>1, <1>3, <1>4, <2>1, SilentKeeps
<1> QED BY <1>5, <1>6, <1>7, <1>8, <1>9

\* The process of the backend dies.
LEMMA DieStep ==
  ASSUME TuiIInv, T!Die
  PROVE  TuiIInv' /\ Asked' = Asked
<1>1. /\ UNCHANGED <<streaming, approval, question, paused, listeners, taken, handled, asks>>
      /\ run # "none" /\ run' = "none" /\ asking' = T!None /\ T!Emit(<<T!Event("failed")>>)
      /\ requests' = {}
      /\ replies' = replies \cup {[request |-> r, ok |-> FALSE] : r \in {q \in requests : ~q.late}}
  BY DEF T!Die, T!same, T!ui
<1>2. Accepted' = Accepted /\ Submits' = {}
  BY <1>1 DEF Accepted, Submits
<1> QED BY <1>1, <1>2, OneKeeps, EventsAre DEF AskKind, LastKind

\* The client gives a request up.
LEMMA ExpireStep ==
  ASSUME TuiIInv, NEW r \in requests, T!Expire(r)
  PROVE  TuiIInv' /\ Asked' = Asked
<1> DEFINE late == [r EXCEPT !.late = TRUE]
<1>1. late.what = r.what /\ late.ask = r.ask
  OBVIOUS
<1>2. requests' = (requests \ {r}) \cup {late} /\ replies' = replies \cup {[request |-> r, ok |-> FALSE]}
  BY DEF T!Expire
<1> HIDE DEF late
<1>3. Submits' \subseteq Submits
  BY <1>1, <1>2 DEF Submits
<1>4. Accepted' = Accepted
  BY <1>2 DEF Accepted
<1>5. UNCHANGED <<streaming, approval, question, paused, listeners, taken, handled, asks, ch, emitted, asking, run>>
  BY DEF T!Expire, T!ui, T!backend
<1> QED BY <1>3, <1>4, <1>5, SilentKeeps

\* Keys change the editor and send requests; an answer is one of an overlay.
LEMMA KeyStep ==
  ASSUME TuiIInv, (\E text \in Text : T!Type(text)) \/ T!QueuePrompt \/ T!Escape \/ T!AnswerKey
  PROVE  TuiIInv' /\ Asked' = Asked
<1>1. UNCHANGED <<streaming, approval, question, paused, listeners, taken, handled, asks, replies,
                  ch, emitted, run, asking>>
  BY DEF T!Type, T!QueuePrompt, T!Escape, T!AnswerKey, T!ui, T!backend
<1>2. Accepted' = Accepted
  BY <1>1 DEF Accepted
<1>3. CASE (\E text \in Text : T!Type(text)) \/ T!QueuePrompt \/ T!Escape
  <2>1. requests' = requests \/ \E r : r.what # "submit" /\ requests' = requests \cup {r}
    <3>1. CASE \E text \in Text : T!Type(text)
      BY <3>1 DEF T!Type
    <3>2. CASE T!QueuePrompt
      BY <3>2 DEF T!QueuePrompt, T!Send
    <3>3. CASE T!Escape
      BY <3>3 DEF T!Escape, T!Send
    <3> QED BY <1>3, <3>1, <3>2, <3>3
  <2>2. Submits' = Submits
    BY <2>1 DEF Submits
  <2> QED BY <1>1, <1>2, <2>2, SilentKeeps
<1>4. CASE T!AnswerKey
  <2>1. PICK a \in {approval, question} :
          requests' = requests \cup {[what |-> "submit", ask |-> a, prompt |-> T!None, late |-> FALSE]}
    BY <1>4 DEF T!AnswerKey, T!Send
  <2>2. Submits' \subseteq Submits \cup {a}
    BY <2>1 DEF Submits
  <2>3. Out' = Out /\ Asked' = Asked /\ Numbered'
    BY <1>1 DEF Out, Asked, TuiIInv, Numbered, Base
  <2>4. AsksTracked'
    BY <1>1, <2>2, <2>3 DEF TuiIInv, AsksTracked
  <2>5. WaitTracked' /\ EndTracked'
    BY <1>1, <1>2, <2>3 DEF TuiIInv, WaitTracked, EndTracked, Held
  <2> QED BY <2>3, <2>4, <2>5 DEF TuiIInv
<1> QED BY <1>3, <1>4

\* A prompt starts a run, with a channel of its own.
LEMMA SubmitPromptStep ==
  ASSUME TuiIInv, T!SubmitPrompt
  PROVE  /\ TuiIInv' /\ Asked' = {}
         /\ Out' \subseteq {Nth(T!QueueEvent("queue", T!Shown(queue)), emitted + 1)}
<1>1. /\ UNCHANGED <<approval, question, paused, taken, handled, asks, requests, replies, asking>>
      /\ ~streaming /\ streaming' /\ listeners' = listeners + 1 /\ run' \in {"running", "creating"}
  BY DEF T!SubmitPrompt
<1>2. run = "none" /\ Out = {} /\ listeners = 0 /\ taken = {}
  BY <1>1 DEF TuiIInv, EndTracked, Out
<1>3. Accepted = {} /\ Accepted' = {} /\ asking = T!None /\ Submits' = Submits
  BY <1>1, <1>2 DEF TuiIInv, WaitTracked, Held, Accepted, Submits
<1>4. ch = <<>> /\ Len(ch) = 0 /\ emitted = handled /\ handled \in Nat
  <2>1. ch \in Seq({ch[k] : k \in DOMAIN ch}) /\ {ch[k] : k \in DOMAIN ch} = {}
    BY <1>2 DEF TuiIInv, Numbered, Out
  <2>2. ch = <<>>
    BY <2>1, EmptySeq, SeqOfItsOwn
  <2>3. Len(ch) = 0
    BY <2>2
  <2> QED BY <1>2, <2>2, <2>3 DEF TuiIInv, Numbered, Base
<1>5. /\ Numbered' /\ \A e \in Out' : e.what = "queue"
      /\ Out' \subseteq {Nth(T!QueueEvent("queue", T!Shown(queue)), emitted + 1)}
  <2>1. CASE ch' = <<>> /\ emitted' = emitted
    <3>1. ch' = ch /\ Out' = {}
      BY <1>1, <1>2, <1>4, <2>1 DEF Out
    <3> QED BY <1>1, <1>2, <2>1, <3>1 DEF TuiIInv, Numbered, Base
  <2>2. CASE /\ ch' = <<[T!QueueEvent("queue", T!Shown(queue)) EXCEPT !.n = emitted + 1]>>
             /\ emitted' = emitted + 1
    <3> DEFINE e == [T!QueueEvent("queue", T!Shown(queue)) EXCEPT !.n = emitted + 1]
    <3>0. e = Nth(T!QueueEvent("queue", T!Shown(queue)), emitted + 1)
      BY DEF Nth
    <3>1. e.n = emitted + 1 /\ e.what = "queue"
      <4> HIDE DEF e
      <4> QED BY <3>0, EventsAre
    <3> HIDE DEF e
    <3>2. ch' = <<e>>
      BY <2>2 DEF e
    <3>3. ch' \in Seq({e}) /\ Len(ch') = 1 /\ ch'[1] = e
      BY <3>2, EventLists
    <3>4. DOMAIN ch' = 1..1 /\ {ch'[k] : k \in DOMAIN ch'} = {e}
      BY <3>3, LenProperties
    <3>5. Out' = {e}
      BY <1>1, <1>2, <3>4 DEF Out
    <3>6. Base' = handled
      BY <1>1, <1>2 DEF Base
    <3> QED BY <1>1, <1>2, <1>4, <2>2, <3>0, <3>1, <3>3, <3>4, <3>5, <3>6 DEF Numbered
  <2> QED BY <2>1, <2>2 DEF T!SubmitPrompt
<1>6. Asked' = {}
  BY <1>5 DEF Asked, AskKind
<1>7. AsksTracked'
  BY <1>1, <1>3, <1>6 DEF TuiIInv, AsksTracked
<1>8. WaitTracked'
  BY <1>1, <1>3 DEF WaitTracked
<1>9. EndTracked'
  BY <1>1, <1>5 DEF EndTracked, LastKind
<1> QED BY <1>5, <1>6, <1>7, <1>8, <1>9 DEF TuiIInv

\* The reader takes the first event of the channel.
LEMMA ListenStep ==
  ASSUME TuiIInv, T!ListenAsync
  PROVE  TuiIInv' /\ Asked' = Asked /\ Out' = Out
<1> DEFINE C0 == {ch[k] : k \in DOMAIN ch}
           h == Head(ch)
<1>1. /\ UNCHANGED <<streaming, approval, question, paused, handled, asks, requests, replies,
                     emitted, run, asking>>
      /\ listeners > 0 /\ ch # <<>> /\ listeners' = listeners - 1
      /\ taken' = taken \cup {h} /\ ch' = Tail(ch)
  BY DEF T!ListenAsync, T!backend
<1>2. listeners = 1 /\ listeners' = 0 /\ taken = {} /\ taken' = {h} /\ Base = handled /\ handled \in Nat
  BY <1>1 DEF TuiIInv, Numbered, Base
<1>3. Submits' = Submits /\ Accepted' = Accepted /\ Accepted = {} /\ \A a : ~Held(a)
  BY <1>1, <1>2 DEF TuiIInv, WaitTracked, Held, Submits, Accepted
<1>4. ch \in Seq(C0)
  BY DEF TuiIInv, Numbered
<1>5. /\ h = ch[1] /\ 1 \in DOMAIN ch /\ ch' \in Seq(C0)
      /\ \A k \in DOMAIN ch' : k \in Nat /\ k + 1 \in DOMAIN ch /\ ch'[k] = ch[k + 1]
      /\ \A k \in DOMAIN ch : k = 1 \/ (k - 1 \in DOMAIN ch' /\ k - 1 \in Nat)
      /\ Len(ch') = Len(ch) - 1 /\ Len(ch) \in Nat /\ DOMAIN ch = 1..Len(ch)
  <2> HIDE DEF C0
  <2>1. Len(Tail(ch)) = Len(ch) - 1
    BY <1>1, <1>4, HeadTailProperties
  <2>2. Len(ch) \in Nat /\ DOMAIN ch = 1..Len(ch)
    BY <1>4, LenProperties
  <2>3. /\ Head(ch) = ch[1] /\ 1 \in DOMAIN ch /\ Tail(ch) \in Seq(C0)
        /\ \A k \in DOMAIN Tail(ch) : k \in Nat /\ k + 1 \in DOMAIN ch /\ Tail(ch)[k] = ch[k + 1]
        /\ \A k \in DOMAIN ch : k = 1 \/ (k - 1 \in DOMAIN Tail(ch) /\ k - 1 \in Nat)
    BY <1>1, <1>4, TailIs
  <2> QED BY <1>1, <2>1, <2>2, <2>3
<1>6. ch' \in Seq({ch'[k] : k \in DOMAIN ch'})
  <2> HIDE DEF C0
  <2> QED BY <1>5, SeqOfItsOwn
<1>7. Out' = Out
  <2>1. {ch'[k] : k \in DOMAIN ch'} \subseteq C0 /\ h \in C0
    BY <1>5
  <2>2. \A k \in DOMAIN ch : ch[k] = h \/ ch[k] \in {ch'[l] : l \in DOMAIN ch'}
    <3> TAKE k \in DOMAIN ch
    <3>1. CASE k = 1
      BY <1>5, <3>1
    <3>2. CASE k - 1 \in DOMAIN ch' /\ k \in Nat
      <4>1. ch'[k - 1] = ch[(k - 1) + 1] /\ (k - 1) + 1 = k
        BY <1>5, <3>2
      <4> QED BY <3>2, <4>1
    <3> QED BY <1>5, <3>1, <3>2
  <2> QED BY <1>2, <2>1, <2>2 DEF Out
<1>8. Numbered'
  <2>1. h.n = handled + 1
    BY <1>2, <1>5 DEF TuiIInv, Numbered
  <2>2. Base' = handled + 1 /\ Base = handled
    BY <1>1, <1>2 DEF Base
  <2>3. \A k \in DOMAIN ch' : ch'[k].n = handled + (k + 1)
    BY <1>5, <2>2 DEF TuiIInv, Numbered
  <2>4. emitted = handled + Len(ch) /\ emitted \in Nat
    BY <2>2 DEF TuiIInv, Numbered
  <2> HIDE DEF h
  <2>5. \A e \in taken' : taken' = {e} /\ e.n = handled + 1
    BY <1>2, <2>1
  <2>6. \A k \in DOMAIN ch' : ch'[k].n = Base' + k
    BY <1>2, <1>5, <2>2, <2>3
  <2>7. emitted' = Base' + Len(ch')
    BY <1>1, <1>2, <1>5, <2>2, <2>4
  <2> QED BY <1>1, <1>2, <1>6, <2>4, <2>5, <2>6, <2>7 DEF Numbered
<1>9. Asked' = Asked
  BY <1>7 DEF Asked
<1>10. AsksTracked'
  BY <1>1, <1>3, <1>9 DEF TuiIInv, AsksTracked
<1>11. WaitTracked'
  BY <1>1, <1>3, <1>9 DEF TuiIInv, WaitTracked
<1>12. EndTracked'
  BY <1>1, <1>2, <1>7 DEF TuiIInv, EndTracked
<1> QED BY <1>7, <1>8, <1>9, <1>10, <1>11, <1>12 DEF TuiIInv

\* Update handles the event the reader has taken: the next one.
LEMMA HandledIs ==
  ASSUME TuiIInv, NEW e \in taken, T!Handled(e), UNCHANGED <<ch, emitted, replies>>, listeners' \in {0, 1}
  PROVE  /\ taken = {e} /\ taken' = {} /\ listeners = 0 /\ handled' = handled + 1
         /\ streaming /\ e \in Out /\ Out' = Out \ {e} /\ Numbered'
         /\ Accepted = {} /\ Accepted' = {}
         /\ asking # T!None => \E f \in Asked : f.ask = asking
<1>1. taken = {e} /\ taken' = {} /\ listeners = 0 /\ e.n = handled + 1 /\ handled' = handled + 1
      /\ e \in Out /\ handled \in Nat /\ handled' \in Nat
  BY DEF TuiIInv, Numbered, T!Handled, Out
<1>2. streaming
  BY <1>1 DEF TuiIInv, EndTracked
<1>3. Accepted = {} /\ Accepted' = {} /\ (asking # T!None => \E f \in Asked : f.ask = asking)
  BY <1>1 DEF TuiIInv, WaitTracked, Held, Accepted
<1>4. Base = handled + 1 /\ Base' = handled + 1
  BY <1>1 DEF Base
<1>5. Numbered'
  BY <1>1, <1>4 DEF TuiIInv, Numbered
<1>6. \A k \in DOMAIN ch : ch[k] # e
  <2>1. DOMAIN ch = 1..Len(ch) /\ Len(ch) \in Nat
    BY LenProperties DEF TuiIInv, Numbered
  <2>2. \A k \in DOMAIN ch : ch[k].n = handled + 1 + k
    BY <1>4 DEF TuiIInv, Numbered
  <2>3. \A k \in DOMAIN ch : ch[k].n # e.n
    BY <1>1, <2>1, <2>2
  <2> QED BY <2>3
<1>7. Out' = Out \ {e}
  BY <1>1, <1>6 DEF Out
<1> QED BY <1>1, <1>2, <1>3, <1>5, <1>7

\* An event of a run: after it the reader listens again, or the overlay that
\* it opens does the waiting, or it was the last.
LEMMA EventStep ==
  ASSUME TuiIInv, T!RunEvent
  PROVE  TuiIInv' /\ handled' = handled + 1 /\ Asked' \subseteq Asked
<1>1. PICK e \in taken : T!EventText(e) \/ T!EventAsk(e) \/ T!EventResolved(e) \/ T!EventLast(e)
  BY DEF T!RunEvent
<1>2. /\ T!Handled(e) /\ UNCHANGED <<ch, emitted, replies, requests, asks, run, asking>>
      /\ listeners' \in {listeners, listeners + 1}
  BY <1>1 DEF T!EventText, T!EventAsk, T!EventResolved, T!EventLast, T!quiet, T!backend, T!Listen
<1>3. listeners = 0
  BY DEF TuiIInv, Numbered
<1>4. /\ taken = {e} /\ taken' = {} /\ handled' = handled + 1
      /\ streaming /\ e \in Out /\ Out' = Out \ {e} /\ Numbered'
      /\ Accepted = {} /\ Accepted' = {}
      /\ asking # T!None => \E f \in Asked : f.ask = asking
  BY <1>2, <1>3, HandledIs
<1>5. Submits' = Submits /\ Asked' = Asked \ {e}
  BY <1>2, <1>4 DEF Submits, Asked
<1>6. CASE T!EventText(e) \/ T!EventResolved(e)
  <2>1. /\ e.what \notin AskKind /\ e.what \notin LastKind /\ UNCHANGED <<streaming, question>>
        /\ approval' \in {T!None, approval}
    BY <1>6 DEF T!EventText, T!EventResolved, AskKind, LastKind
  <2>2. Asked' = Asked
    BY <1>5, <2>1 DEF Asked
  <2>3. AsksTracked'
    BY <1>2, <1>5, <2>1, <2>2 DEF TuiIInv, AsksTracked
  <2>4. WaitTracked'
    BY <1>2, <1>4, <2>2 DEF TuiIInv, WaitTracked
  <2>5. EndTracked'
    BY <1>2, <1>4, <2>1 DEF TuiIInv, EndTracked
  <2> QED BY <1>4, <1>5, <2>3, <2>4, <2>5 DEF TuiIInv
<1>7. CASE T!EventAsk(e)
  <2>1. /\ e.what \in AskKind /\ e.what \notin LastKind /\ UNCHANGED <<streaming, listeners>>
        /\ \/ approval' = e.ask /\ paused' = TRUE /\ question' = question
           \/ question' = e.ask /\ approval' = approval
    BY <1>7 DEF T!EventAsk, AskKind, LastKind
  <2>2. e \in Asked
    BY <1>4, <2>1 DEF Asked
  <2>3. \A f \in Asked' : f \in Asked /\ f.ask # e.ask
    BY <1>5, <2>2 DEF TuiIInv, AsksTracked
  <2>4. e.ask \in 1..asks
    BY <2>2 DEF TuiIInv, AsksTracked
  <2>5. AsksTracked'
    BY <1>2, <1>5, <2>1, <2>3, <2>4 DEF TuiIInv, AsksTracked
  <2>6. Held(e.ask)'
    BY <1>3, <1>4, <2>1 DEF Held
  <2>7. asking # T!None => (\E f \in Asked' : f.ask = asking) \/ e.ask = asking
    BY <1>4, <1>5
  <2>8. WaitTracked'
    BY <1>2, <1>4, <2>6, <2>7 DEF TuiIInv, WaitTracked
  <2>9. EndTracked'
    BY <1>2, <1>4, <2>1 DEF TuiIInv, EndTracked
  <2> QED BY <1>4, <1>5, <2>5, <2>8, <2>9 DEF TuiIInv
<1>8. CASE T!EventLast(e)
  <2>1. /\ e.what \in LastKind /\ streaming' = FALSE /\ UNCHANGED <<question, listeners>>
        /\ approval' \in {T!None, approval}
    BY <1>8 DEF T!EventLast, LastKind
  <2>2. e.n = emitted /\ run = "none" /\ e.n = handled + 1
    BY <1>4, <2>1 DEF TuiIInv, EndTracked, Numbered
  <2>3. Out' = {}
    <3>1. Len(ch) = 0
      <4>1. Len(ch) \in Nat /\ Base = handled + 1 /\ handled \in Nat
        BY <1>4, LenProperties DEF TuiIInv, Numbered, Base
      <4> QED BY <2>2, <4>1 DEF TuiIInv, Numbered
    <3>2. {ch[k] : k \in DOMAIN ch} = {}
      BY <3>1, LenProperties DEF TuiIInv, Numbered
    <3> QED BY <1>4, <3>2 DEF Out
  <2>4. Asked' = {} /\ asking = T!None
    BY <2>2, <2>3 DEF Asked, TuiIInv, WaitTracked
  <2>5. AsksTracked'
    BY <1>2, <1>5, <2>1, <2>4 DEF TuiIInv, AsksTracked
  <2>6. WaitTracked'
    BY <1>2, <1>4, <2>2, <2>4 DEF WaitTracked
  <2>7. EndTracked'
    BY <1>2, <1>3, <2>1, <2>2, <2>3 DEF EndTracked
  <2> QED BY <1>4, <1>5, <2>5, <2>6, <2>7 DEF TuiIInv
<1> QED BY <1>1, <1>4, <1>5, <1>6, <1>7, <1>8

\* A reply: only one to an accepted answer resumes the reader, and then nobody
\* else reads.
LEMMA ReplyStep ==
  ASSUME TuiIInv, T!ReplyMsg
  PROVE  TuiIInv' /\ Asked' = Asked
<1>1. PICK r \in replies : T!Submitted(r) \/ T!Enqueued(r) \/ T!Interrupted(r)
  BY DEF T!ReplyMsg
<1>2. /\ replies' = replies \ {r}
      /\ UNCHANGED <<streaming, paused, taken, ch, requests, asks, run, asking, emitted, handled>>
  BY <1>1 DEF T!Submitted, T!Enqueued, T!Interrupted, T!answered, T!backend
<1>3. Out' = Out /\ Asked' = Asked /\ Submits' = Submits
  BY <1>2 DEF Out, Asked, Submits
<1>4. CASE r \notin Accepted
  <2>1. Accepted' = Accepted
    BY <1>2, <1>4 DEF Accepted
  <2>2. UNCHANGED <<approval, question, listeners>>
    BY <1>1, <1>4 DEF T!Submitted, T!Enqueued, T!Interrupted, Accepted
  <2>3. UNCHANGED <<ch, emitted, taken, handled, asks, run, asking, streaming, paused>>
    BY <1>2
  <2> QED BY <1>3, <2>1, <2>2, <2>3, SilentKeeps
<1>5. CASE r \in Accepted
  <2>1. Held(r.request.ask) /\ Accepted = {r} /\ Accepted' = {}
    BY <1>2, <1>5 DEF TuiIInv, WaitTracked, Accepted
  <2>2. r.request.what = "submit" /\ r.ok
    BY <1>5 DEF Accepted
  <2>3. T!Submitted(r)
    BY <1>1, <2>2 DEF T!Enqueued, T!Interrupted
  <2>4. /\ approval' \in {T!None, approval} /\ question' \in {T!None, question}
        /\ listeners' = IF streaming /\ (paused \/ question = r.request.ask) THEN listeners + 1 ELSE listeners
    BY <2>2, <2>3 DEF T!Submitted
  <2>5. listeners' = 1 /\ listeners = 0 /\ taken = {} /\ streaming
    BY <2>1, <2>4 DEF Held
  <2>6. asking # T!None => \E e \in Asked : e.ask = asking
    BY <2>1 DEF TuiIInv, WaitTracked
  <2>7. Base' = Base /\ Numbered'
    BY <1>2, <2>5 DEF TuiIInv, Numbered, Base
  <2>8. AsksTracked'
    BY <1>2, <1>3, <2>4 DEF TuiIInv, AsksTracked
  <2>9. WaitTracked'
    BY <1>2, <1>3, <2>1, <2>6 DEF TuiIInv, WaitTracked
  <2>10. EndTracked'
    BY <1>2, <1>3, <2>5 DEF TuiIInv, EndTracked
  <2> QED BY <1>3, <2>7, <2>8, <2>9, <2>10 DEF TuiIInv
<1> QED BY <1>4, <1>5

\* Every step of the loop keeps the invariant and handles no event out of turn.
LEMMA TuiStep ==
  ASSUME TuiIInv, [T!Next]_T!tvars
  PROVE  TuiIInv' /\ (handled' # handled => handled' = handled + 1)
<1>1. CASE UNCHANGED T!tvars
  <2>1. UNCHANGED tui
    BY <1>1 DEF T!tvars, T!ui, T!backend, tui
  <2>2. UNCHANGED <<Out, Asked, Submits, Accepted, Base>>
    BY <2>1 DEF tui, Out, Asked, Submits, Accepted, Base
  <2>3. Numbered' /\ AsksTracked' /\ EndTracked'
    BY <2>1, <2>2 DEF TuiIInv, Numbered, AsksTracked, EndTracked, tui
  <2>4. WaitTracked'
    BY <2>1, <2>2 DEF TuiIInv, WaitTracked, Held, tui
  <2> QED BY <2>1, <2>3, <2>4 DEF TuiIInv, tui
<1>2. CASE (\E text \in Text : T!Type(text)) \/ T!QueuePrompt \/ T!Escape \/ T!AnswerKey
  <2>1. handled' = handled
    BY <1>2 DEF T!Type, T!QueuePrompt, T!Escape, T!AnswerKey
  <2> QED BY <1>2, <2>1, KeyStep
<1>3. CASE T!SubmitPrompt
  BY <1>3, SubmitPromptStep DEF T!SubmitPrompt
<1>4. CASE T!AskUser
  BY <1>4, AskUserStep DEF T!AskUser, T!same
<1>5. CASE T!CreateSession \/ T!SubmitSteers \/ T!RunEnds \/ T!RunFails
  <2>1. handled' = handled
    BY <1>5 DEF T!CreateSession, T!SubmitSteers, T!RunEnds, T!RunFails, T!same
  <2> QED BY <1>5, <2>1, RunStep
<1>6. CASE T!Die
  BY <1>6, DieStep DEF T!Die, T!same
<1>7. CASE \E r \in requests : T!HandleSubmit(r) \/ T!HandleInterrupt(r) \/ T!HandleEnqueue(r)
  <2>1. handled' = handled
    BY <1>7 DEF T!HandleSubmit, T!HandleInterrupt, T!HandleEnqueue, T!same
  <2> QED BY <1>7, <2>1, HandleStep
<1>8. CASE T!ListenAsync
  BY <1>8, ListenStep DEF T!ListenAsync
<1>9. CASE T!RunEvent
  BY <1>9, EventStep
<1>10. CASE T!ReplyMsg
  <2>1. handled' = handled
    BY <1>10 DEF T!ReplyMsg, T!Submitted, T!Enqueued, T!Interrupted, T!answered
  <2> QED BY <1>10, <2>1, ReplyStep
<1>11. CASE \E r \in requests : T!Expire(r)
  BY <1>11, ExpireStep DEF T!Expire
<1> QED BY <1>1, <1>2, <1>3, <1>4, <1>5, <1>6, <1>7, <1>8, <1>9, <1>10, <1>11 DEF T!Next, T!Serve

\* A request that is late was given up by the client.
LateTracked ==
  \A r \in requests :
    /\ "late" \in DOMAIN r
    /\ r.late => \E x \in expired : x.what = r.what /\ x.ask = r.ask /\ x.prompt = r.prompt
\* No prompt was.
Fresh == \A r \in expired : r.prompt = T!None

\* Every step keeps the late requests among those given up.
LEMMA LateStep ==
  ASSUME LateTracked, [T!Next]_T!tvars
  PROVE  LateTracked' /\ (Fresh' => Fresh)
<1>1. ASSUME expired' = expired, \A r \in requests' : r \in requests \/ ("late" \in DOMAIN r /\ ~r.late)
      PROVE  LateTracked' /\ (Fresh' => Fresh)
  BY <1>1 DEF LateTracked, Fresh
<1>2. CASE UNCHANGED T!tvars \/ T!SubmitPrompt \/ T!ListenAsync \/ T!RunEvent \/ T!ReplyMsg
           \/ (\E text \in Text : T!Type(text))
           \/ T!AskUser \/ T!CreateSession \/ T!SubmitSteers \/ T!RunEnds \/ T!RunFails \/ T!Die
  <2>1. expired' = expired /\ (requests' = requests \/ requests' = {})
    BY <1>2 DEF T!tvars, T!SubmitPrompt, T!ListenAsync, T!RunEvent, T!ReplyMsg, T!Type, T!AskUser,
       T!CreateSession, T!SubmitSteers, T!RunEnds, T!RunFails, T!Die, T!same, T!quiet, T!answered, T!EventText,
       T!EventAsk, T!EventResolved, T!EventLast, T!Submitted, T!Enqueued, T!Interrupted
  <2> QED BY <1>1, <2>1
<1>3. CASE T!QueuePrompt \/ T!Escape \/ T!AnswerKey
  <2>1. /\ expired' = expired
        /\ \E what, a, p : requests' = requests \cup {[what |-> what, ask |-> a, prompt |-> p, late |-> FALSE]}
    BY <1>3 DEF T!QueuePrompt, T!Escape, T!AnswerKey, T!Send
  <2> QED BY <1>1, <2>1
<1>4. ASSUME NEW r \in requests, T!HandleSubmit(r) \/ T!HandleInterrupt(r) \/ T!HandleEnqueue(r)
      PROVE  LateTracked' /\ (Fresh' => Fresh)
  <2>1. expired' = expired /\ requests' = requests \ {r}
    BY <1>4 DEF T!HandleSubmit, T!HandleInterrupt, T!HandleEnqueue, T!same, T!Reply
  <2> QED BY <1>1, <2>1
<1>5. ASSUME NEW r \in requests, T!Expire(r) PROVE LateTracked' /\ (Fresh' => Fresh)
  <2> DEFINE late == [r EXCEPT !.late = TRUE]
  <2>1. late.what = r.what /\ late.ask = r.ask /\ late.prompt = r.prompt /\ DOMAIN late = DOMAIN r
    OBVIOUS
  <2>2. requests' = (requests \ {r}) \cup {late} /\ expired' = expired \cup {r}
    BY <1>5 DEF T!Expire
  <2> HIDE DEF late
  <2> QED BY <2>1, <2>2 DEF LateTracked, Fresh
<1> QED BY <1>2, <1>3, <1>4, <1>5 DEF T!Next, T!Serve

\* A question that is out is waited for, or was orphaned; an overlay too, unless
\* its answer was accepted, or given up by the client.
Live(a) == asking = a \/ a \in orphaned
Answered(a) ==
  \/ \E r \in replies : r.ok /\ r.request.what = "submit" /\ r.request.ask = a
  \/ \E r \in expired : r.what = "submit" /\ r.ask = a
OverlaysTracked ==
  /\ \A a \in {approval, question} : a # T!None => Live(a) \/ Answered(a)
  /\ \A e \in Asked : Live(e.ask)

\* The prompts on their way, there and back.
OnTheWay == {r \in requests : ~r.late} \cup {q.request : q \in replies}
TextsTracked ==
  /\ typed \in Seq(Text)
  /\ \A r \in OnTheWay : r.what \in {"submit", "interrupt"} => r.prompt = T!None
  /\ \A q \in replies : q.ok /\ q.request.what \in {"next", "later"} => q.request.prompt \in given
  /\ 1..Len(typed) \subseteq {draft} \cup given \cup overwritten \cup {r.prompt : r \in OnTheWay}

\* An overlay is of a question that was out, and ends with its answer.
LEMMA OverlaysStep ==
  ASSUME TuiIInv, LateTracked, OverlaysTracked, [T!Next]_T!tvars
  PROVE  OverlaysTracked'
<1>1. ASSUME UNCHANGED <<approval, question, orphaned>>, replies \subseteq replies', Asked' \subseteq Asked,
             expired \subseteq expired',
             asking' = asking \/ asking = T!None
      PROVE  OverlaysTracked'
  <2>1. \A e \in Asked : e.ask # T!None
    BY DEF TuiIInv, AsksTracked, T!None
  <2> QED BY <1>1, <2>1 DEF OverlaysTracked, Live, Answered
<1>2. CASE UNCHANGED T!tvars
  <2>1. UNCHANGED tui
    BY <1>2 DEF T!tvars, T!ui, T!backend, tui
  <2>2. Asked' = Asked
    BY <2>1 DEF tui, Out, Asked
  <2> QED BY <1>1, <2>1, <2>2 DEF tui
<1>3. CASE (\E text \in Text : T!Type(text)) \/ T!QueuePrompt \/ T!Escape \/ T!AnswerKey
  <2>1. UNCHANGED <<approval, question, orphaned, replies, expired, asking>>
    BY <1>3 DEF T!Type, T!QueuePrompt, T!Escape, T!AnswerKey, T!ui, T!backend
  <2> QED BY <1>1, <1>3, <2>1, KeyStep
<1>4. CASE T!SubmitPrompt
  BY <1>1, <1>4, SubmitPromptStep DEF T!SubmitPrompt
<1>5. CASE T!AskUser
  <2>1. UNCHANGED <<approval, question, orphaned, replies, expired>> /\ asking = T!None
    BY <1>5 DEF T!AskUser, T!same, T!ui, TuiIInv, WaitTracked
  <2>2. \A f \in Asked' : f \in Asked \/ f.ask = asking'
    BY <1>5, AskUserStep
  <2>3. \A e \in Asked : e.ask # T!None
    BY DEF TuiIInv, AsksTracked, T!None
  <2> QED BY <2>1, <2>2, <2>3 DEF OverlaysTracked, Live, Answered
<1>6. CASE T!CreateSession \/ T!SubmitSteers \/ T!RunEnds \/ T!RunFails
  <2>1. UNCHANGED <<approval, question, orphaned, replies, expired>> /\ (asking' = asking \/ asking = T!None)
    BY <1>6 DEF T!CreateSession, T!SubmitSteers, T!RunEnds, T!RunFails, T!same, T!ui, TuiIInv, WaitTracked
  <2> QED BY <1>1, <1>6, <2>1, RunStep
<1>7. CASE T!Die
  <2>1. UNCHANGED <<approval, question, expired>> /\ replies \subseteq replies'
        /\ orphaned' = orphaned \cup ({asking} \ {T!None})
    BY <1>7 DEF T!Die, T!same, T!ui
  <2>2. Asked' = Asked
    BY <1>7, DieStep
  <2>3. \A e \in Asked : e.ask # T!None
    BY DEF TuiIInv, AsksTracked, T!None
  <2> QED BY <2>1, <2>2, <2>3 DEF OverlaysTracked, Live, Answered
<1>8. ASSUME NEW r \in requests, T!HandleSubmit(r) \/ T!HandleInterrupt(r) \/ T!HandleEnqueue(r)
      PROVE  OverlaysTracked'
  <2>1. UNCHANGED <<approval, question, expired>> /\ replies \subseteq replies' /\ Asked' = Asked
    BY <1>8, HandleStep
       DEF T!HandleSubmit, T!HandleInterrupt, T!HandleEnqueue, T!same, T!ui, T!Reply
  <2>2. \A e \in Asked : e.ask # T!None
    BY DEF TuiIInv, AsksTracked, T!None
  <2>3. CASE T!HandleSubmit(r) /\ run = "waiting" /\ asking = r.ask
    <3>1. orphaned' = orphaned /\ r.what = "submit" /\ (r.late \/ [request |-> r, ok |-> TRUE] \in replies')
      BY <2>3 DEF T!HandleSubmit, T!Reply
    <3>2. Answered(r.ask)'
      <4>1. CASE r.late
        BY <2>1, <3>1, <4>1 DEF LateTracked, Answered
      <4>2. CASE [request |-> r, ok |-> TRUE] \in replies'
        <5> DEFINE new == [request |-> r, ok |-> TRUE]
        <5>1. new \in replies' /\ new.ok /\ new.request.what = "submit" /\ new.request.ask = r.ask
          BY <3>1, <4>2
        <5> HIDE DEF new
        <5> QED BY <5>1 DEF Answered
      <4> QED BY <3>1, <4>1, <4>2
    <3>3. \A e \in Asked : e.ask # r.ask
      BY <2>2, <3>1 DEF TuiIInv, AsksTracked, Submits
    <3>4. \A a : Live(a) => a = r.ask \/ Live(a)'
      BY <2>3, <3>1 DEF Live
    <3>5. \A a : Answered(a) => Answered(a)'
      BY <2>1 DEF Answered
    <3> QED BY <2>1, <3>2, <3>3, <3>4, <3>5 DEF OverlaysTracked
  <2>4. CASE ~(T!HandleSubmit(r) /\ run = "waiting" /\ asking = r.ask)
    <3>1. \/ UNCHANGED <<asking, orphaned>>
          \/ orphaned' = orphaned \cup ({asking} \ {T!None})
      BY <1>8, <2>4 DEF T!HandleSubmit, T!HandleInterrupt, T!HandleEnqueue
    <3> QED BY <2>1, <2>2, <3>1 DEF OverlaysTracked, Live, Answered
  <2> QED BY <2>3, <2>4
<1>9. CASE T!ListenAsync
  <2>1. UNCHANGED <<approval, question, orphaned, replies, expired, asking>>
    BY <1>9 DEF T!ListenAsync, T!backend
  <2> QED BY <1>1, <1>9, <2>1, ListenStep
<1>10. CASE T!RunEvent
  <2>1. PICK e \in taken : T!EventText(e) \/ T!EventAsk(e) \/ T!EventResolved(e) \/ T!EventLast(e)
    BY <1>10 DEF T!RunEvent
  <2>2. UNCHANGED <<orphaned, replies, expired, asking>>
    BY <2>1 DEF T!EventText, T!EventAsk, T!EventResolved, T!EventLast, T!quiet, T!backend
  <2>3. Asked' \subseteq Asked
    BY <1>10, EventStep
  <2>4. /\ approval' \in {approval, T!None} \/ (approval' = e.ask /\ e.what \in AskKind)
        /\ question' = question \/ (question' = e.ask /\ e.what \in AskKind)
    BY <2>1 DEF T!EventText, T!EventAsk, T!EventResolved, T!EventLast, AskKind
  <2>5. e.what \in AskKind => e \in Asked
    BY DEF Asked, Out
  <2> QED BY <2>2, <2>3, <2>4, <2>5 DEF OverlaysTracked, Live, Answered
<1>11. CASE T!ReplyMsg
  <2>1. PICK r \in replies : T!Submitted(r) \/ T!Enqueued(r) \/ T!Interrupted(r)
    BY <1>11 DEF T!ReplyMsg
  <2>2. UNCHANGED <<orphaned, expired, asking>> /\ replies' = replies \ {r} /\ Asked' = Asked
    BY <1>11, <2>1, ReplyStep DEF T!Submitted, T!Enqueued, T!Interrupted, T!answered, T!backend
  <2>3. \A a \in {approval', question'} : a # T!None =>
          a \in {approval, question} /\ ~(r.ok /\ r.request.what = "submit" /\ r.request.ask = a)
    BY <2>1 DEF T!Submitted, T!Enqueued, T!Interrupted
  <2> QED BY <2>2, <2>3 DEF OverlaysTracked, Live, Answered
<1>12. ASSUME NEW r \in requests, T!Expire(r) PROVE OverlaysTracked'
  <2>1. UNCHANGED <<approval, question, orphaned, asking>> /\ replies \subseteq replies'
        /\ expired \subseteq expired'
    BY <1>12 DEF T!Expire, T!ui, T!backend
  <2> QED BY <1>1, <1>12, <2>1, ExpireStep
<1> QED BY <1>2, <1>3, <1>4, <1>5, <1>6, <1>7, <1>8, <1>9, <1>10, <1>11, <1>12 DEF T!Next, T!Serve

\* A text leaves the editor for the way to the backend, and the way for the
\* backend or the editor.
LEMMA TextsStep ==
  ASSUME TextsTracked, LateTracked, [T!Next]_T!tvars
  PROVE  TextsTracked'
<1>1. ASSUME typed' = typed, OnTheWay' \subseteq OnTheWay,
             \A q \in replies' : q \in replies \/ ~q.ok \/ q.request.what \notin {"next", "later"}
                                 \/ q.request.prompt \in given',
             given \subseteq given', overwritten \subseteq overwritten',
             draft' = draft \/ draft = T!None \/ draft \in given' \cup overwritten',
             \A r \in OnTheWay : r \in OnTheWay' \/ r.prompt \in {T!None, draft'} \cup given'
      PROVE  TextsTracked'
  <2>1. \A p \in 1..Len(typed) : p # T!None
    BY DEF T!None
  <2> QED BY <1>1, <2>1 DEF TextsTracked
<1>2. CASE UNCHANGED T!tvars
  BY <1>2 DEF T!tvars, T!ui, T!backend, TextsTracked, OnTheWay
<1>3. CASE \E text \in Text : T!Type(text)
  <2>1. PICK text \in Text : T!Type(text)
    BY <1>3
  <2>2. /\ draft = T!None /\ typed' = Append(typed, text) /\ draft' = Len(typed) + 1
        /\ UNCHANGED <<requests, replies, given, overwritten, OnTheWay>>
    BY <2>1 DEF T!Type, T!backend, OnTheWay
  <2>3. typed' \in Seq(Text) /\ Len(typed') = Len(typed) + 1 /\ Len(typed) \in Nat
    BY <2>2, AppendProperties, LenProperties DEF TextsTracked
  <2>4. \A p \in 1..Len(typed') : p = draft' \/ (p \in 1..Len(typed) /\ p # T!None)
    BY <2>2, <2>3 DEF T!None
  <2> QED BY <2>2, <2>3, <2>4 DEF TextsTracked
<1>4. CASE T!SubmitPrompt
  <2>1. UNCHANGED <<typed, requests, replies, overwritten, OnTheWay>> /\ given' = given \cup {draft}
    BY <1>4 DEF T!SubmitPrompt, OnTheWay
  <2> QED BY <1>1, <2>1
<1>5. CASE T!QueuePrompt \/ T!Escape \/ T!AnswerKey
  <2>1. UNCHANGED <<typed, replies, given, overwritten>>
    BY <1>5 DEF T!QueuePrompt, T!Escape, T!AnswerKey, T!ui, T!backend
  <2>2. PICK what, a, p : /\ requests' = requests \cup {[what |-> what, ask |-> a, prompt |-> p, late |-> FALSE]}
                          /\ \/ p = T!None /\ draft' = draft
                             \/ p = draft /\ what \in {"next", "later"}
    BY <1>5 DEF T!QueuePrompt, T!Escape, T!AnswerKey, T!Send, T!ui
  <2> DEFINE new == [what |-> what, ask |-> a, prompt |-> p, late |-> FALSE]
  <2>3. new.what = what /\ new.prompt = p /\ ~new.late
    OBVIOUS
  <2>4. requests' = requests \cup {new}
    BY <2>2
  <2> HIDE DEF new
  <2>8. OnTheWay' = OnTheWay \cup {new}
    BY <2>1, <2>3, <2>4 DEF OnTheWay
  <2>5. \A q \in 1..Len(typed) : q # T!None
    BY DEF T!None
  <2>6. draft' = draft \/ new.prompt = draft
    BY <2>2, <2>3
  <2>7. \A r \in OnTheWay' : r.what \in {"submit", "interrupt"} => r.prompt = T!None
    BY <2>2, <2>3, <2>8 DEF TextsTracked
  <2> QED BY <2>1, <2>8, <2>5, <2>6, <2>7 DEF TextsTracked
<1>6. CASE T!AskUser \/ T!CreateSession \/ T!SubmitSteers \/ T!RunEnds \/ T!RunFails \/ T!ListenAsync \/ T!RunEvent
  <2>1. UNCHANGED <<typed, requests, replies, given, overwritten, draft>>
    BY <1>6 DEF T!AskUser, T!CreateSession, T!SubmitSteers, T!RunEnds, T!RunFails, T!ListenAsync, T!RunEvent,
                T!EventText, T!EventAsk, T!EventResolved, T!EventLast, T!quiet, T!same, T!ui, T!backend
  <2> QED BY <2>1 DEF TextsTracked, OnTheWay
<1>7. CASE T!Die
  <2>1. /\ UNCHANGED <<typed, given, overwritten, draft>> /\ requests' = {}
        /\ replies' = replies \cup {[request |-> r, ok |-> FALSE] : r \in {q \in requests : ~q.late}}
    BY <1>7 DEF T!Die, T!same, T!ui
  <2>2. \A q \in replies' : q \in replies \/ (~q.ok /\ q.request \in requests /\ ~q.request.late)
    BY <2>1
  <2>3. \A r \in requests : ~r.late => \E q \in replies' : q.request = r
    <3> SUFFICES ASSUME NEW r \in requests, ~r.late PROVE \E q \in replies' : q.request = r
      OBVIOUS
    <3>1. [request |-> r, ok |-> FALSE] \in replies' /\ [request |-> r, ok |-> FALSE].request = r
      BY <2>1
    <3> QED BY <3>1
  <2>4. OnTheWay' = OnTheWay
    BY <2>1, <2>2, <2>3 DEF OnTheWay
  <2> QED BY <1>1, <2>1, <2>2, <2>4
<1>8. ASSUME NEW r \in requests, T!HandleSubmit(r) \/ T!HandleInterrupt(r) \/ T!HandleEnqueue(r)
      PROVE  TextsTracked'
  <2>1. PICK ok \in BOOLEAN : T!Reply(r, ok) /\ (ok /\ r.what \in {"next", "later"} => r.prompt \in given')
    BY <1>8 DEF T!HandleSubmit, T!HandleInterrupt, T!HandleEnqueue
  <2>2. UNCHANGED <<typed, overwritten, draft>> /\ given \subseteq given'
    BY <1>8 DEF T!HandleSubmit, T!HandleInterrupt, T!HandleEnqueue, T!same, T!ui
  <2> DEFINE new == [request |-> r, ok |-> ok]
  <2>3. new.request = r /\ new.ok = ok
    OBVIOUS
  <2>4. requests' = requests \ {r} /\ replies' = IF r.late THEN replies ELSE replies \cup {new}
    BY <2>1 DEF T!Reply
  <2> HIDE DEF new
  <2>5. OnTheWay' = OnTheWay
    BY <2>3, <2>4 DEF OnTheWay
  <2>6. \A q \in replies' : q \in replies \/ ~q.ok \/ q.request.what \notin {"next", "later"}
                            \/ q.request.prompt \in given'
    BY <2>1, <2>3, <2>4
  <2> QED BY <1>1, <2>2, <2>5, <2>6
<1>9. CASE T!ReplyMsg
  <2>1. PICK r \in replies : T!Submitted(r) \/ T!Enqueued(r) \/ T!Interrupted(r)
    BY <1>9 DEF T!ReplyMsg
  <2>2. UNCHANGED <<typed, requests, given>> /\ replies' = replies \ {r}
    BY <2>1 DEF T!Submitted, T!Enqueued, T!Interrupted, T!answered, T!backend
  <2>3. OnTheWay' \subseteq OnTheWay /\ \A q \in OnTheWay : q \in OnTheWay' \/ q = r.request
    BY <2>2 DEF OnTheWay
  <2>4. r.request \in OnTheWay
    BY DEF OnTheWay
  <2>5. /\ overwritten \subseteq overwritten'
        /\ draft' = draft \/ draft = T!None \/ draft \in overwritten'
        /\ r.request.prompt \in {T!None, draft'} \cup given'
    BY <2>1, <2>2, <2>4 DEF T!Submitted, T!Enqueued, T!Interrupted, T!answered, TextsTracked
  <2> QED BY <1>1, <2>2, <2>3, <2>5
<1>10. ASSUME NEW r \in requests, T!Expire(r) PROVE TextsTracked'
  <2> DEFINE new == [request |-> r, ok |-> FALSE]
             late == [r EXCEPT !.late = TRUE]
  <2>1. new.request = r /\ ~new.ok
    OBVIOUS
  <2>2. late.late
    <3>1. "late" \in DOMAIN r
      BY DEF LateTracked
    <3> QED BY <3>1
  <2>3. /\ requests' = (requests \ {r}) \cup {late} /\ replies' = replies \cup {new} /\ ~r.late
        /\ UNCHANGED <<typed, given, overwritten, draft>>
    BY <1>10 DEF T!Expire, T!ui, T!backend
  <2> HIDE DEF new, late
  <2>4. OnTheWay' = OnTheWay
    BY <2>1, <2>2, <2>3 DEF OnTheWay
  <2> QED BY <1>1, <2>1, <2>3, <2>4
<1> QED BY <1>2, <1>3, <1>4, <1>5, <1>6, <1>7, <1>8, <1>9, <1>10 DEF T!Next, T!Serve

\* EventsInOrder (Tui.tla): one command reads the channel at a time, so that
\* the client handles a run's events in the order of the backend.
THEOREM EventsComeInOrder == Spec => EventsInOrder
<1>1. Init => TuiIInv
  BY TuiInit DEF Init
<1>2. [Next]_vars => [T!Next]_T!tvars
  BY DEF Next, vars, tui, T!tvars, T!ui, T!backend
<1>3. TuiIInv /\ [Next]_vars => TuiIInv'
  BY <1>2, TuiStep
<1>4. TuiIInv /\ [Next]_vars => [handled' # handled => handled' = handled + 1]_T!tvars
  BY <1>2, TuiStep
<1> QED BY <1>1, <1>3, <1>4, PTL DEF Spec, EventsInOrder, T!EventsInOrder

-----------------------------------------------------------------------------
(* The prompts of the queue and its preview.                               *)

\* A set of numbers that is not empty has a least one.
LEMMA Least ==
  ASSUME NEW S, S \subseteq Nat, S # {}
  PROVE  \E n \in S : \A m \in S : n <= m
<1> DEFINE R == OpToRel(<,Nat)
<1>1. IsWellFoundedOn(R, Nat)
  BY NatLessThanWellFounded
<1>2. \A x \in Nat, y \in Nat : y < x => <<y,x>> \in R
  BY DEF OpToRel
<1> HIDE DEF R
<1>3. PICK x \in S : \A y \in S : ~ (<<y, x>> \in R)
  BY <1>1, WFMin
<1>4. ASSUME NEW y \in S PROVE x <= y
  <2>1. x \in Nat /\ y \in Nat
    OBVIOUS
  <2>2. ~(y < x)
    BY <1>2, <1>3, <2>1
  <2> QED BY <2>1, <2>2
<1> QED BY <1>4

\* Taking out prompts that are not there changes nothing.
LEMMA NothingRemoved ==
  ASSUME NEW q, NEW prompts, Len(prompts) \in Nat,
         \A i \in 1..Len(prompts) : ~T!Contains(q, prompts[i])
  PROVE  T!RemoveQueued(q, prompts) = q
<1> DEFINE D == 0..Len(prompts)
           Body(f) == [i \in D |-> IF i = 0 THEN q
                                   ELSE IF T!Contains(f[i - 1], prompts[i])
                                        THEN T!RemoveFirst(f[i - 1], prompts[i])
                                        ELSE f[i - 1]]
           left == CHOOSE f : f = Body(f)
           same == [i \in D |-> q]
<1>1. same = Body(same)
  <2>1. \A i \in D : same[i] = IF i = 0 THEN q
                               ELSE IF T!Contains(same[i - 1], prompts[i])
                                    THEN T!RemoveFirst(same[i - 1], prompts[i])
                                    ELSE same[i - 1]
    <3> SUFFICES ASSUME NEW i \in D, i # 0
                 PROVE  same[i] = IF T!Contains(same[i - 1], prompts[i])
                                  THEN T!RemoveFirst(same[i - 1], prompts[i]) ELSE same[i - 1]
      OBVIOUS
    <3>1. i - 1 \in D /\ i \in 1..Len(prompts)
      OBVIOUS
    <3>2. same[i] = q /\ same[i - 1] = q
      BY <3>1
    <3> HIDE DEF same
    <3> QED BY <3>1, <3>2
  <2> QED BY <2>1
<1>2. left = Body(left)
  <2> HIDE DEF Body, same
  <2> QED BY <1>1, Zenon
<1>3. /\ left[0] = q
      /\ \A i \in 1..Len(prompts) : left[i] = IF T!Contains(left[i - 1], prompts[i])
                                              THEN T!RemoveFirst(left[i - 1], prompts[i]) ELSE left[i - 1]
  <2> HIDE DEF left
  <2>1. \A i \in D : left[i] = Body(left)[i]
    BY <1>2
  <2> QED BY <2>1
<1>4. T!RemoveQueued(q, prompts) = left[Len(prompts)]
  BY Zenon DEF T!RemoveQueued
<1> HIDE DEF left
<1> DEFINE other == {i \in D : left[i] # q}
<1>5. other = {}
  <2> SUFFICES ASSUME other # {} PROVE FALSE
    OBVIOUS
  <2>1. PICK m \in other : \A i \in other : m <= i
    <3>1. other \subseteq Nat
      OBVIOUS
    <3> HIDE DEF other
    <3> QED BY <3>1, Least
  <2>2. m # 0 /\ m \in D /\ left[m] # q
    BY <1>3, <2>1
  <2>3. m \in 1..Len(prompts) /\ m - 1 \in D /\ m - 1 \notin other
    BY <2>1, <2>2
  <2>4. left[m - 1] = q
    BY <2>3
  <2> QED BY <1>3, <2>2, <2>3, <2>4
<1>6. Len(prompts) \in D
  OBVIOUS
<1> QED BY <1>4, <1>5, <1>6

\* The typed texts differ, and none was sent twice.
Differ == \A i, j \in 1..Len(typed) : typed[i] = typed[j] => i = j
Distinct == Differ /\ Fresh

\* Texts of which there are as many as were typed differ.
LEMMA AsManyTexts ==
  ASSUME typed \in Seq(Text), Cardinality(T!ToSet(typed)) = Len(typed)
  PROVE  Differ
<1> DEFINE S == T!ToSet(typed)
           I == 1..Len(typed)
<1>1. Len(typed) \in Nat /\ DOMAIN typed = I /\ \A i \in I : typed[i] \in S
  BY LenProperties DEF T!ToSet
<1>2. typed \in [I -> S]
  <2>1. typed = [i \in I |-> typed[i]]
    BY SeqDef, LenProperties
  <2> HIDE DEF S
  <2> QED BY <1>1, <2>1
<1>3. \A x \in S : \E i \in I : typed[i] = x
  BY <1>1 DEF T!ToSet
<1>4. typed \in Surjection(I, S)
  <2> HIDE DEF S
  <2> QED BY <1>2, <1>3 DEF Surjection
<1>5. IsFiniteSet(I) /\ Cardinality(I) = Len(typed)
  <2> DEFINE n == Len(typed)
  <2>1. n \in Nat
    BY <1>1
  <2> HIDE DEF n
  <2>2. /\ IsFiniteSet(1..n)
        /\ Cardinality(1..n) = IF 1 > n THEN 0 ELSE n - 1 + 1
    <3>1. 1 \in Int /\ n \in Int
      BY <2>1
    <3> QED BY ONLY <3>1, FS_Interval, Zenon
  <2>3. Cardinality(1..n) = n
    BY <2>1, <2>2
  <2> QED BY <2>2, <2>3 DEF n
<1>6. typed \in Injection(I, S)
  <2>1. Cardinality(S) = Cardinality(I)
    BY <1>5
  <2> HIDE DEF S, I
  <2> QED BY <1>4, <1>5, <2>1, FS_Surjection
<1>7. \A i, j \in I : typed[i] = typed[j] => i = j
  BY <1>2, <1>6 DEF Injection, IsInjective
<1> QED BY <1>7 DEF Differ

\* The prompts whose reply says they were refused, and those the backend has
\* not got: on their way, there or back.
Refused == {q \in replies : ~q.ok}
Ungiven == requests \cup {q.request : q \in Refused}

\* A prompt is in one place: with the backend, in the editor, on the way there
\* or on the way back.
OnceTracked ==
  /\ given \subseteq 1..Len(typed)
  /\ draft # T!None => draft \in 1..Len(typed) /\ draft \notin given
  /\ \A r \in Ungiven :
       /\ r.what \in {"next", "later"} => r.prompt # T!None
       /\ r.prompt # T!None => r.prompt \in 1..Len(typed) /\ r.prompt \notin given /\ r.prompt # draft
  /\ \A r, s \in requests : r.prompt = s.prompt => r.prompt = T!None \/ r = s
  /\ \A q, s \in Refused : q.request.prompt = s.request.prompt => q.request.prompt = T!None \/ q = s
  /\ \A r \in requests, q \in Refused : r.prompt = q.request.prompt => r.prompt = T!None

\* The queue holds prompts the backend has, and none of them in both groups.
Group == {"next", "later"}
QueueTracked ==
  /\ queue \in [Group -> Seq(given)]
  /\ Fresh => \A i \in 1..Len(queue["next"]), j \in 1..Len(queue["later"]) : queue["next"][i] # queue["later"][j]

\* A step that moves no prompt, or drops replies.
LEMMA OnceSame ==
  ASSUME OnceTracked, UNCHANGED <<typed, given, draft, requests, Refused>>
  PROVE  OnceTracked'
BY DEF OnceTracked, Ungiven

\* The editor, and what leaves it.
LEMMA OnceKeys ==
  ASSUME OnceTracked, TextsTracked,
         (\E text \in Text : T!Type(text)) \/ T!SubmitPrompt \/ T!QueuePrompt \/ T!Escape \/ T!AnswerKey
  PROVE  OnceTracked'
<1>1. Len(typed) \in Nat
  BY LenProperties DEF TextsTracked
<1>2. \A p \in 1..Len(typed) : p # T!None
  BY DEF T!None
<1>3. ASSUME NEW text \in Text, T!Type(text) PROVE OnceTracked'
  <2>1. /\ draft = T!None /\ typed' = Append(typed, text) /\ draft' = Len(typed) + 1
        /\ UNCHANGED <<requests, replies, given>>
    BY <1>3 DEF T!Type, T!backend
  <2>2. Len(typed') = Len(typed) + 1
    BY <2>1, AppendProperties DEF TextsTracked
  <2>3. Refused' = Refused /\ Ungiven' = Ungiven
    BY <2>1 DEF Refused, Ungiven
  <2>4. 1..Len(typed) \subseteq 1..Len(typed') /\ draft' \in 1..Len(typed') /\ draft' \notin 1..Len(typed)
    BY <1>1, <2>1, <2>2
  <2> QED BY <2>1, <2>3, <2>4 DEF OnceTracked
<1>4. CASE T!SubmitPrompt
  <2>1. /\ UNCHANGED <<typed, requests, replies>> /\ given' = given \cup {draft}
        /\ draft # T!None /\ draft' = T!None
    BY <1>4 DEF T!SubmitPrompt
  <2>2. Refused' = Refused /\ Ungiven' = Ungiven
    BY <2>1 DEF Refused, Ungiven
  <2> QED BY <2>1, <2>2 DEF OnceTracked
<1>5. CASE T!QueuePrompt \/ T!Escape \/ T!AnswerKey
  <2>1. UNCHANGED <<typed, replies, given>>
    BY <1>5 DEF T!QueuePrompt, T!Escape, T!AnswerKey, T!ui, T!backend
  <2>2. PICK what, a, p : /\ requests' = requests \cup {[what |-> what, ask |-> a, prompt |-> p, late |-> FALSE]}
                          /\ \/ p = T!None /\ draft' = draft /\ what \notin {"next", "later"}
                             \/ p = draft /\ draft # T!None /\ draft' = T!None
    <3>1. CASE T!QueuePrompt
      BY <3>1 DEF T!QueuePrompt, T!Send
    <3>2. CASE T!Escape
      BY <3>2 DEF T!Escape, T!Send, T!ui
    <3>3. CASE T!AnswerKey
      <4>1. draft' = draft /\ "submit" \notin {"next", "later"}
        BY <3>3 DEF T!AnswerKey, T!ui
      <4>2. CASE question # T!None
        <5>1. requests' = requests \cup {[what |-> "submit", ask |-> question, prompt |-> T!None, late |-> FALSE]}
          BY <3>3, <4>2 DEF T!AnswerKey, T!Send
        <5> QED BY <4>1, <5>1
      <4>3. CASE question = T!None
        <5>1. requests' = requests \cup {[what |-> "submit", ask |-> approval, prompt |-> T!None, late |-> FALSE]}
          BY <3>3, <4>3 DEF T!AnswerKey, T!Send
        <5> QED BY <4>1, <5>1
      <4> QED BY <4>2, <4>3
    <3> QED BY <1>5, <3>1, <3>2, <3>3
  <2> DEFINE new == [what |-> what, ask |-> a, prompt |-> p, late |-> FALSE]
  <2>3. new.what = what /\ new.prompt = p /\ requests' = requests \cup {new}
    BY <2>2
  <2> HIDE DEF new
  <2>4. Refused' = Refused /\ Ungiven' = Ungiven \cup {new}
    BY <2>1, <2>3 DEF Refused, Ungiven
  <2>5. CASE p = T!None /\ draft' = draft /\ what \notin {"next", "later"}
    BY <2>1, <2>3, <2>4, <2>5 DEF OnceTracked
  <2>6. CASE p = draft /\ draft # T!None /\ draft' = T!None
    <3>1. requests \subseteq Ungiven /\ \A q \in Refused : q.request \in Ungiven
      BY DEF Ungiven
    <3>2. \A r \in Ungiven : r.prompt # p
      BY <2>6 DEF OnceTracked
    <3>3. \A r, s \in requests' : r.prompt = s.prompt => r.prompt = T!None \/ r = s
      BY <2>3, <3>1, <3>2 DEF OnceTracked
    <3>4. \A r \in requests', q \in Refused' : r.prompt = q.request.prompt => r.prompt = T!None
      BY <2>3, <2>4, <3>1, <3>2 DEF OnceTracked
    <3>5. \A r \in Ungiven' :
            /\ r.what \in {"next", "later"} => r.prompt # T!None
            /\ r.prompt # T!None => r.prompt \in 1..Len(typed') /\ r.prompt \notin given' /\ r.prompt # draft'
      BY <2>1, <2>3, <2>4, <2>6 DEF OnceTracked
    <3> QED BY <2>1, <2>4, <2>6, <3>3, <3>4, <3>5 DEF OnceTracked
  <2> QED BY <2>2, <2>5, <2>6
<1> QED BY <1>3, <1>4, <1>5

\* A reply takes the prompt of its request back, or says that it was given.
LEMMA OnceReplies ==
  ASSUME OnceTracked, LateTracked, Fresh, NEW r \in requests, NEW ok \in BOOLEAN, T!Reply(r, ok),
         UNCHANGED <<typed, draft>>,
         \/ given' = given
         \/ ok /\ r.what \in {"next", "later"} /\ given' = given \cup {r.prompt}
  PROVE  OnceTracked'
<1> DEFINE new == [request |-> r, ok |-> ok]
<1>1. new.request = r /\ new.ok = ok
  OBVIOUS
<1>2. requests' = requests \ {r} /\ replies' = IF r.late THEN replies ELSE replies \cup {new}
  BY DEF T!Reply
<1> HIDE DEF new
<1>3. requests \subseteq Ungiven /\ \A q \in Refused : q.request \in Ungiven
  BY DEF Ungiven
<1>6. CASE r.late
  <2>1. r.prompt = T!None
    BY <1>6 DEF LateTracked, Fresh
  <2>2. r.what \notin {"next", "later"}
    BY <1>3, <2>1 DEF OnceTracked
  <2>3. given' = given /\ Refused' = Refused /\ Ungiven' \subseteq Ungiven /\ requests' \subseteq requests
    BY <1>2, <1>6, <2>2 DEF Refused, Ungiven
  <2> QED BY <2>3 DEF OnceTracked
<1>4. CASE ok /\ ~r.late
  <2>1. Refused' = Refused /\ Ungiven' \subseteq Ungiven
    BY <1>1, <1>2, <1>4 DEF Refused, Ungiven
  <2>2. \A s \in Ungiven' : s.prompt = r.prompt => s.prompt = T!None
    <3>1. \A s \in requests' : s.prompt = r.prompt => s.prompt = T!None
      BY <1>2 DEF OnceTracked
    <3>2. \A q \in Refused : q.request.prompt = r.prompt => q.request.prompt = T!None
      BY DEF OnceTracked
    <3> QED BY <2>1, <3>1, <3>2 DEF Ungiven
  <2>3. given' \subseteq 1..Len(typed) /\ (draft # T!None => draft \notin given')
    BY <1>3 DEF OnceTracked
  <2>4. \A s \in Ungiven' : s.prompt # T!None => s.prompt \notin given'
    BY <2>1, <2>2 DEF OnceTracked
  <2> QED BY <1>2, <2>1, <2>3, <2>4 DEF OnceTracked
<1>5. CASE ~ok /\ ~r.late
  <2>1. given' = given /\ Refused' = Refused \cup {new} /\ Ungiven' = Ungiven
    BY <1>1, <1>2, <1>5 DEF Refused, Ungiven
  <2>2. \A q, s \in Refused' : q.request.prompt = s.request.prompt => q.request.prompt = T!None \/ q = s
    BY <1>1, <2>1 DEF OnceTracked
  <2>3. \A s \in requests', q \in Refused' : s.prompt = q.request.prompt => s.prompt = T!None
    BY <1>1, <1>2, <2>1 DEF OnceTracked
  <2> QED BY <1>2, <2>1, <2>2, <2>3 DEF OnceTracked
<1> QED BY <1>4, <1>5, <1>6

\* Every step keeps a prompt in one place.
LEMMA OnceStep ==
  ASSUME OnceTracked, LateTracked, Fresh', TextsTracked, [T!Next]_T!tvars
  PROVE  OnceTracked'
<1>0. Fresh
  BY LateStep
<1>1. CASE UNCHANGED T!tvars
  BY <1>1, OnceSame DEF T!tvars, T!ui, T!backend, Refused
<1>2. CASE T!AskUser \/ T!CreateSession \/ T!SubmitSteers \/ T!RunEnds \/ T!RunFails \/ T!ListenAsync \/ T!RunEvent
  <2>1. UNCHANGED <<typed, requests, replies, given, draft>>
    BY <1>2 DEF T!AskUser, T!CreateSession, T!SubmitSteers, T!RunEnds, T!RunFails, T!ListenAsync, T!RunEvent,
                T!EventText, T!EventAsk, T!EventResolved, T!EventLast, T!quiet, T!same, T!ui, T!backend
  <2> QED BY <2>1, OnceSame DEF Refused
<1>3. CASE T!Die
  <2>1. /\ UNCHANGED <<typed, given, draft>> /\ requests' = {}
        /\ replies' = replies \cup {[request |-> r, ok |-> FALSE] : r \in {q \in requests : ~q.late}}
    BY <1>3 DEF T!Die, T!same, T!ui
  <2>2. Refused' = Refused \cup {[request |-> r, ok |-> FALSE] : r \in {q \in requests : ~q.late}}
    BY <2>1 DEF Refused
  <2>3. \A q \in Refused' : q \in Refused \/ (q.request \in requests /\ q = [request |-> q.request, ok |-> FALSE])
    BY <2>2
  <2>4. Ungiven' \subseteq Ungiven
    BY <2>1, <2>3 DEF Ungiven
  <2>5. \A q, s \in Refused' : q.request.prompt = s.request.prompt => q.request.prompt = T!None \/ q = s
    BY <2>3 DEF OnceTracked
  <2> QED BY <2>1, <2>4, <2>5 DEF OnceTracked
<1>4. ASSUME NEW r \in requests, T!HandleSubmit(r) \/ T!HandleInterrupt(r) \/ T!HandleEnqueue(r)
      PROVE  OnceTracked'
  <2>1. PICK ok \in BOOLEAN :
          /\ T!Reply(r, ok)
          /\ given' = given \/ (ok /\ r.what \in {"next", "later"} /\ given' = given \cup {r.prompt})
    BY <1>4 DEF T!HandleSubmit, T!HandleInterrupt, T!HandleEnqueue
  <2>2. UNCHANGED <<typed, draft>>
    BY <1>4 DEF T!HandleSubmit, T!HandleInterrupt, T!HandleEnqueue, T!same, T!ui
  <2> QED BY <1>0, <2>1, <2>2, OnceReplies
<1>5. CASE T!ReplyMsg
  <2>1. PICK r \in replies : T!Submitted(r) \/ T!Enqueued(r) \/ T!Interrupted(r)
    BY <1>5 DEF T!ReplyMsg
  <2>2. UNCHANGED <<typed, requests, given>> /\ replies' = replies \ {r}
    BY <2>1 DEF T!Submitted, T!Enqueued, T!Interrupted, T!answered, T!backend
  <2>3. draft' = draft \/ (~r.ok /\ r.request.what \in {"next", "later"} /\ draft' = r.request.prompt)
    BY <2>1 DEF T!Submitted, T!Enqueued, T!Interrupted
  <2>4. Refused' = Refused \ {r} /\ Ungiven' \subseteq Ungiven
    BY <2>2 DEF Refused, Ungiven
  <2>5. CASE draft' = draft
    BY <2>2, <2>4, <2>5 DEF OnceTracked
  <2>6. CASE ~r.ok /\ r.request.what \in {"next", "later"} /\ draft' = r.request.prompt
    <3>1. r \in Refused /\ r.request \in Ungiven
      BY <2>6 DEF Refused, Ungiven
    <3>2. draft' # T!None /\ draft' \in 1..Len(typed) /\ draft' \notin given
      BY <2>6, <3>1 DEF OnceTracked
    <3>3. \A s \in requests : s.prompt # draft'
      BY <2>6, <3>1, <3>2 DEF OnceTracked
    <3>4. \A q \in Refused' : q.request.prompt # draft'
      BY <2>4, <2>6, <3>1, <3>2 DEF OnceTracked
    <3>5. \A s \in Ungiven' : s.prompt # draft'
      BY <2>2, <3>3, <3>4 DEF Ungiven
    <3> QED BY <2>2, <2>4, <3>2, <3>5 DEF OnceTracked
  <2> QED BY <2>3, <2>5, <2>6
<1>6. CASE (\E text \in Text : T!Type(text)) \/ T!SubmitPrompt \/ T!QueuePrompt \/ T!Escape \/ T!AnswerKey
  BY <1>6, OnceKeys
<1>7. ASSUME NEW r \in requests, T!Expire(r) PROVE OnceTracked'
  <2> DEFINE new == [request |-> r, ok |-> FALSE]
             late == [r EXCEPT !.late = TRUE]
  <2>1. new.request = r /\ ~new.ok /\ late.prompt = r.prompt /\ late.what = r.what
    OBVIOUS
  <2>2. /\ requests' = (requests \ {r}) \cup {late} /\ replies' = replies \cup {new}
        /\ UNCHANGED <<typed, given, draft>> /\ r \in expired'
    BY <1>7 DEF T!Expire, T!ui, T!backend
  <2> HIDE DEF new, late
  <2>3. r.prompt = T!None /\ r \in Ungiven
    BY <2>2 DEF Fresh, Ungiven
  <2>4. Refused' = Refused \cup {new}
    BY <2>1, <2>2 DEF Refused
  <2>5. Ungiven' \subseteq Ungiven \cup {late}
    BY <2>1, <2>2, <2>3, <2>4 DEF Ungiven
  <2>6. late.what \notin {"next", "later"}
    BY <2>1, <2>3 DEF OnceTracked
  <2>7. \A x, y \in requests' : x.prompt = y.prompt => x.prompt = T!None \/ x = y
    BY <2>1, <2>2, <2>3 DEF OnceTracked
  <2>8. \A x, y \in Refused' : x.request.prompt = y.request.prompt => x.request.prompt = T!None \/ x = y
    BY <2>1, <2>3, <2>4 DEF OnceTracked
  <2>9. \A x \in requests', q \in Refused' : x.prompt = q.request.prompt => x.prompt = T!None
    BY <2>1, <2>2, <2>3, <2>4 DEF OnceTracked
  <2> QED BY <2>1, <2>2, <2>3, <2>5, <2>6, <2>7, <2>8, <2>9 DEF OnceTracked
<1> QED BY <1>1, <1>2, <1>3, <1>4, <1>5, <1>6, <1>7 DEF T!Next, T!Serve

\* The queue of the backend: what it gains was not given before, what it loses
\* it loses whole.
LEMMA QueueStep ==
  ASSUME Fresh => OnceTracked, LateTracked, QueueTracked, [T!Next]_T!tvars
  PROVE  QueueTracked'
<1>0. Fresh' => Fresh
  BY LateStep
<1>1. ASSUME queue' = queue, given \subseteq given' PROVE QueueTracked'
  <2>1. \A g \in Group : queue[g] \in Seq(given')
    BY <1>1, SeqMonotonic DEF QueueTracked
  <2>2. queue' = [g \in Group |-> queue[g]]
    BY <1>1 DEF QueueTracked
  <2>3. queue' \in [Group -> Seq(given')]
    BY <2>1, <2>2
  <2> QED BY <1>0, <1>1, <2>3 DEF QueueTracked
<1>2. ASSUME NEW g \in Group, queue' = [queue EXCEPT ![g] = <<>>], given' = given PROVE QueueTracked'
  <2>1. <<>> \in Seq(given) /\ Len(<<>>) = 0
    BY EmptySeq
  <2>2. queue' \in [Group -> Seq(given)]
    BY <1>2, <2>1 DEF QueueTracked
  <2>3. \A h \in Group : queue'[h] = IF h = g THEN <<>> ELSE queue[h]
    BY <1>2 DEF QueueTracked
  <2>4. CASE g = "next"
    <3>1. queue'["next"] = <<>> /\ 1..Len(queue'["next"]) = {}
      BY <2>1, <2>3, <2>4 DEF Group
    <3> QED BY <1>2, <2>2, <3>1 DEF QueueTracked
  <2>5. CASE g = "later"
    <3>1. queue'["later"] = <<>> /\ 1..Len(queue'["later"]) = {}
      BY <2>1, <2>3, <2>5 DEF Group
    <3> QED BY <1>2, <2>2, <3>1 DEF QueueTracked
  <2> QED BY <2>4, <2>5 DEF Group
<1>3. CASE UNCHANGED T!tvars
  BY <1>1, <1>3 DEF T!tvars, T!backend
<1>4. CASE (\E text \in Text : T!Type(text)) \/ T!SubmitPrompt \/ T!QueuePrompt \/ T!Escape \/ T!AnswerKey
           \/ T!AskUser \/ T!CreateSession \/ T!RunFails \/ T!ListenAsync \/ T!RunEvent \/ T!ReplyMsg
  <2>1. queue' = queue /\ given \subseteq given'
    BY <1>4 DEF T!Type, T!SubmitPrompt, T!QueuePrompt, T!Escape, T!AnswerKey, T!AskUser, T!CreateSession,
                T!RunFails, T!ListenAsync, T!RunEvent, T!ReplyMsg, T!EventText, T!EventAsk, T!EventResolved,
                T!EventLast, T!Submitted, T!Enqueued, T!Interrupted, T!answered, T!quiet, T!backend
  <2> QED BY <1>1, <2>1
<1>5. CASE T!SubmitSteers
  <2>1. queue' = [queue EXCEPT !["next"] = <<>>] /\ given' = given
    BY <1>5 DEF T!SubmitSteers
  <2> QED BY <1>2, <2>1 DEF Group
<1>6. CASE T!RunEnds
  <2>1. given' = given /\ (queue' = queue \/ \E g \in Group : queue' = [queue EXCEPT ![g] = <<>>])
    BY <1>6 DEF T!RunEnds, Group
  <2> QED BY <1>1, <1>2, <2>1
<1>7. CASE T!Die
  <2>1. queue' = T!Empty /\ given' = given
    BY <1>7 DEF T!Die
  <2>2. <<>> \in Seq(given) /\ 1..Len(<<>>) = {}
    BY EmptySeq
  <2>3. T!Empty = [g \in Group |-> <<>>]
    BY DEF T!Empty, Group
  <2>4. queue' \in [Group -> Seq(given')]
    BY <2>1, <2>2, <2>3
  <2>5. queue'["next"] = <<>>
    BY <2>1, <2>3 DEF Group
  <2> QED BY <2>2, <2>4, <2>5 DEF QueueTracked
<1>8. ASSUME NEW r \in requests, T!HandleSubmit(r) \/ T!HandleInterrupt(r) \/ T!HandleEnqueue(r)
      PROVE  QueueTracked'
  <2>1. CASE queue' = queue /\ given' = given
    BY <1>1, <2>1
  <2>2. CASE /\ r.what \in Group /\ given' = given \cup {r.prompt}
             /\ queue' = [queue EXCEPT ![r.what] = Append(@, r.prompt)]
    <3>1. Fresh => r.prompt \notin given
      BY <2>2 DEF OnceTracked, Ungiven, Group
    <3>2. \A g \in Group : queue[g] \in Seq(given') /\ queue[g] \in Seq(given)
      BY <2>2, SeqMonotonic DEF QueueTracked
    <3>3. /\ Append(queue[r.what], r.prompt) \in Seq(given')
          /\ \A i \in 1..Len(Append(queue[r.what], r.prompt)) :
               \/ i \in 1..Len(queue[r.what]) /\ Append(queue[r.what], r.prompt)[i] = queue[r.what][i]
               \/ Append(queue[r.what], r.prompt)[i] = r.prompt
      <4> DEFINE s == queue[r.what]
      <4>1. s \in Seq(given') /\ r.prompt \in given'
        BY <2>2, <3>2
      <4> HIDE DEF s
      <4>2. /\ Append(s, r.prompt) \in Seq(given') /\ Len(Append(s, r.prompt)) = Len(s) + 1
            /\ \A i \in 1..Len(s) : Append(s, r.prompt)[i] = s[i]
            /\ Append(s, r.prompt)[Len(s) + 1] = r.prompt
        BY <4>1, AppendProperties
      <4>3. Len(s) \in Nat
        BY <4>1, LenProperties
      <4>4. \A i \in 1..(Len(s) + 1) : i \in 1..Len(s) \/ i = Len(s) + 1
        BY <4>3
      <4> QED BY <4>2, <4>4 DEF s
    <3>4. \A h \in Group : queue'[h] = IF h = r.what THEN Append(queue[h], r.prompt) ELSE queue[h]
      BY <2>2 DEF QueueTracked
    <3>5. queue' = [h \in Group |-> queue'[h]]
      BY <2>2 DEF QueueTracked
    <3>6. queue' \in [Group -> Seq(given')]
      BY <3>2, <3>3, <3>4, <3>5
    <3>7. \A g \in Group : \A i \in 1..Len(queue[g]) : queue[g][i] \in given
      BY <3>2, ElementOfSeq
    <3>8. ASSUME Fresh
          PROVE  \A i \in 1..Len(queue'["next"]), j \in 1..Len(queue'["later"]) : queue'["next"][i] # queue'["later"][j]
      <4>1. CASE r.what = "next"
        <5>1. queue'["later"] = queue["later"] /\ queue'["next"] = Append(queue[r.what], r.prompt)
          BY <3>4, <4>1 DEF Group
        <5>2. \A j \in 1..Len(queue["later"]) : queue["later"][j] # r.prompt
          BY <3>1, <3>7, <3>8 DEF Group
        <5> QED BY <3>3, <3>8, <4>1, <5>1, <5>2 DEF QueueTracked
      <4>2. CASE r.what = "later"
        <5>1. queue'["next"] = queue["next"] /\ queue'["later"] = Append(queue[r.what], r.prompt)
          BY <3>4, <4>2 DEF Group
        <5>2. \A j \in 1..Len(queue["next"]) : queue["next"][j] # r.prompt
          BY <3>1, <3>7, <3>8 DEF Group
        <5> QED BY <3>3, <3>8, <4>2, <5>1, <5>2 DEF QueueTracked
      <4> QED BY <2>2, <4>1, <4>2 DEF Group
    <3> QED BY <1>0, <3>6, <3>8 DEF QueueTracked
  <2> QED BY <1>8, <2>1, <2>2 DEF T!HandleSubmit, T!HandleInterrupt, T!HandleEnqueue, Group
<1>9. CASE \E r \in requests : T!Expire(r)
  <2>1. queue' = queue /\ given' = given
    BY <1>9 DEF T!Expire, T!backend
  <2> QED BY <1>1, <2>1
<1> QED BY <1>3, <1>4, <1>5, <1>6, <1>7, <1>8, <1>9 DEF T!Next, T!Serve

\* The queue of an event names both groups.
Shape(q) == q = [g \in Group |-> q[g]]
\* None of the texts is in the queue that is shown.
Away(q, batch) == \A g \in Group : \A k \in 1..Len(batch) : ~T!Contains(q[g], batch[k])

\* The preview is the queue last told, and a batch that is out follows the
\* event that tells the queue without it.
BatchesFollow ==
  \A e \in Out : e.what = "batch" =>
    \/ e.n = handled + 1 /\ Away(stated, e.queue.next)
    \/ \E f \in Out : f.what = "queue" /\ e.n = f.n + 1 /\ Away(f.queue, e.queue.next)
PreviewTracked ==
  /\ Shape(stated)
  /\ \A e \in Out : /\ e.what = "queue" => Shape(e.queue)
                    /\ e.what = "batch" => Len(e.queue.next) \in Nat
  /\ Distinct => preview = stated /\ BatchesFollow

\* The events that are out once one more is emitted.
LEMMA OneOut ==
  ASSUME TuiIInv, NEW e, T!Emit(<<e>>), \A m : Nth(e, m).n = m, UNCHANGED <<taken, handled, listeners>>
  PROVE  Out' = Out \cup {Nth(e, emitted + 1)}
<1> DEFINE events == <<e>>
<1>1. events \in Seq({e}) /\ Len(events) = 1 /\ events[1] = e /\ T!Emit(events)
  BY EventLists
<1> HIDE DEF events
<1>2. \A i \in 1..Len(events) : Nth(events[i], emitted + i).n = emitted + i
  BY <1>1
<1>3. Out' = Out \cup {Nth(events[i], emitted + i) : i \in 1..Len(events)}
  BY <1>1, <1>2, EmitIs
<1>4. {Nth(events[i], emitted + i) : i \in 1..Len(events)} = {Nth(e, emitted + 1)}
  BY <1>1
<1> QED BY <1>3, <1>4

\* The same for two events.
LEMMA TwoOut ==
  ASSUME TuiIInv, NEW e, NEW f, T!Emit(<<e, f>>), \A m : Nth(e, m).n = m /\ Nth(f, m).n = m,
         UNCHANGED <<taken, handled, listeners>>
  PROVE  Out' = Out \cup {Nth(e, emitted + 1), Nth(f, emitted + 2)}
<1> DEFINE events == <<e, f>>
<1>1. events \in Seq({e, f}) /\ Len(events) = 2 /\ events[1] = e /\ events[2] = f /\ T!Emit(events)
  BY EventLists
<1> HIDE DEF events
<1>2. \A i \in 1..Len(events) : Nth(events[i], emitted + i).n = emitted + i
  BY <1>1
<1>3. Out' = Out \cup {Nth(events[i], emitted + i) : i \in 1..Len(events)}
  BY <1>1, <1>2, EmitIs
<1>4. 1..Len(events) = {1, 2}
  BY <1>1
<1>5. {Nth(events[i], emitted + i) : i \in {1, 2}} = {Nth(e, emitted + 1), Nth(f, emitted + 2)}
  BY <1>1
<1> QED BY <1>3, <1>4, <1>5

\* The same for three.
LEMMA ThreeOut ==
  ASSUME TuiIInv, NEW d, NEW e, NEW f, T!Emit(<<d>> \o <<e, f>>),
         \A m : Nth(d, m).n = m /\ Nth(e, m).n = m /\ Nth(f, m).n = m,
         UNCHANGED <<taken, handled, listeners>>
  PROVE  Out' = Out \cup {Nth(d, emitted + 1), Nth(e, emitted + 2), Nth(f, emitted + 3)}
<1> DEFINE events == <<d>> \o <<e, f>>
<1>1. /\ events \in Seq({d, e, f}) /\ Len(events) = 3
      /\ events[1] = d /\ events[2] = e /\ events[3] = f /\ T!Emit(events)
  BY EventLists
<1> HIDE DEF events
<1>2. 1..Len(events) = {1, 2, 3}
  BY <1>1
<1>3. \A i \in 1..Len(events) : Nth(events[i], emitted + i).n = emitted + i
  BY <1>1, <1>2
<1>4. Out' = Out \cup {Nth(events[i], emitted + i) : i \in 1..Len(events)}
  BY <1>1, <1>3, EmitIs
<1>5. {Nth(events[i], emitted + i) : i \in {1, 2, 3}} =
        {Nth(d, emitted + 1), Nth(e, emitted + 2), Nth(f, emitted + 3)}
  BY <1>1
<1> QED BY <1>2, <1>4, <1>5

\* The queue as it is shown has both groups, with a text for each prompt.
LEMMA ShownIs ==
  ASSUME NEW q, NEW A, q \in [Group -> Seq(A)]
  PROVE  /\ Shape(T!Shown(q))
         /\ \A g \in Group : T!Shown(q)[g] = T!Texts(q[g])
<1>1. T!Shown(q) = [next |-> T!Texts(q["next"]), later |-> T!Texts(q["later"])]
  BY DEF T!Shown
<1> QED BY <1>1 DEF Shape, Group

\* A prompt's text, for each prompt of a list.
LEMMA TextsAre ==
  ASSUME NEW A, NEW s \in Seq(A)
  PROVE  /\ Len(T!Texts(s)) = Len(s) /\ Len(s) \in Nat
         /\ \A i \in 1..Len(s) : T!Texts(s)[i] = typed[s[i]]
<1>1. Len(s) \in Nat
  BY LenProperties
<1>2. T!Texts(s) = [i \in 1..Len(s) |-> typed[s[i]]]
  BY DEF T!Texts
<1>3. T!Texts(s) \in Seq({typed[s[i]] : i \in 1..Len(s)})
  BY <1>1, <1>2, IsASeq
<1>4. Len(T!Texts(s)) = Len(s)
  <2> DEFINE t == T!Texts(s)
  <2>1. DOMAIN t = 1..Len(s)
    BY <1>2
  <2>2. DOMAIN t = 1..Len(t) /\ Len(t) \in Nat
    BY <1>3, LenProperties
  <2> HIDE DEF t
  <2>3. Len(t) = Len(s)
    BY <1>1, <2>1, <2>2
  <2> QED BY <2>3 DEF t
<1> QED BY <1>1, <1>2, <1>4

\* A batch: the queue told before it has none of its texts, when texts differ.
LEMMA BatchIs ==
  ASSUME Fresh => OnceTracked, QueueTracked, NEW g \in Group
  PROVE  \E q, r : /\ T!Batch(g) = <<T!QueueEvent("queue", q), T!QueueEvent("batch", r)>>
                   /\ Shape(q) /\ Len(r.next) \in Nat
                   /\ Distinct => Away(q, r.next)
<1> DEFINE rest == [queue EXCEPT ![g] = <<>>]
           q == T!Shown(rest)
           r == [T!Empty EXCEPT !.next = T!Texts(queue[g])]
<1>1. T!Batch(g) = <<T!QueueEvent("queue", q), T!QueueEvent("batch", r)>>
  BY DEF T!Batch
<1>2. r.next = T!Texts(queue[g])
  BY DEF T!Empty
<1>3. <<>> \in Seq(given) /\ Len(<<>>) = 0
  BY EmptySeq
<1>4. rest \in [Group -> Seq(given)] /\ \A h \in Group : rest[h] = IF h = g THEN <<>> ELSE queue[h]
  BY <1>3 DEF QueueTracked
<1>5. Shape(q) /\ \A h \in Group : q[h] = T!Texts(rest[h])
  <2> HIDE DEF rest
  <2> QED BY <1>4, ShownIs
<1> HIDE DEF rest, q, r
<1>6. \A h \in Group : queue[h] \in Seq(given)
  BY DEF QueueTracked
<1>7. /\ Len(r.next) = Len(queue[g]) /\ Len(queue[g]) \in Nat
      /\ \A i \in 1..Len(queue[g]) : r.next[i] = typed[queue[g][i]]
  BY <1>2, <1>6, TextsAre
<1>8. ASSUME Distinct PROVE Away(q, r.next)
  <2> SUFFICES ASSUME NEW h \in Group, NEW k \in 1..Len(r.next), NEW j \in 1..Len(q[h]), q[h][j] = r.next[k]
               PROVE  FALSE
    BY DEF Away, T!Contains
  <2>1. rest[h] \in Seq(given)
    BY <1>4
  <2>2. Len(q[h]) = Len(rest[h]) /\ \A i \in 1..Len(rest[h]) : q[h][i] = typed[rest[h][i]]
    BY <1>5, <2>1, TextsAre
  <2>3. h # g /\ rest[h] = queue[h]
    BY <1>3, <1>4, <2>2
  <2>4. queue[h][j] \in given /\ queue[g][k] \in given
    BY <1>6, <1>7, <2>2, <2>3, ElementOfSeq
  <2>5. typed[queue[h][j]] = typed[queue[g][k]]
    BY <1>7, <2>2, <2>3
  <2>6. queue[h][j] = queue[g][k]
    BY <1>8, <2>4, <2>5 DEF Distinct, Differ, OnceTracked
  <2>7. j \in 1..Len(queue[h]) /\ k \in 1..Len(queue[g])
    BY <1>7, <2>2, <2>3
  <2> QED BY <1>8, <2>3, <2>6, <2>7 DEF Distinct, QueueTracked, Group
<1> QED BY <1>1, <1>5, <1>7, <1>8

\* What is told keeps the preview, if a batch comes with its queue.
LEMMA PreviewTold ==
  ASSUME PreviewTracked, NEW N, Out' = Out \cup N, UNCHANGED <<handled, stated, preview>>, Distinct' => Distinct,
         \A e \in N : /\ e.what = "queue" => Shape(e.queue)
                      /\ e.what = "batch" =>
                           /\ Len(e.queue.next) \in Nat
                           /\ Distinct => \E f \in N : f.what = "queue" /\ e.n = f.n + 1
                                                       /\ Away(f.queue, e.queue.next)
  PROVE  PreviewTracked'
<1>1. Distinct => BatchesFollow'
  BY DEF PreviewTracked, BatchesFollow
<1> QED BY <1>1 DEF PreviewTracked

\* The backend tells of its queue, and of nothing else the preview is about.
LEMMA PreviewBackend ==
  ASSUME TuiIInv, Fresh => OnceTracked, QueueTracked, PreviewTracked,
         T!CreateSession \/ T!AskUser \/ T!SubmitSteers \/ T!RunEnds \/ T!RunFails \/ T!Die
  PROVE  PreviewTracked'
<1>1. UNCHANGED <<taken, handled, listeners, stated, preview, typed, expired>>
  BY DEF T!CreateSession, T!AskUser, T!SubmitSteers, T!RunEnds, T!RunFails, T!Die, T!same, T!ui
<1>2. Distinct' = Distinct
  BY <1>1 DEF Distinct, Differ, Fresh
<1>3. Shape(T!Empty)
  BY DEF Shape, T!Empty, Group
<1>4. ASSUME NEW e, T!Emit(<<e>>), \A m : Nth(e, m).n = m /\ Nth(e, m).what \notin {"queue", "batch"}
      PROVE  PreviewTracked'
  <2>1. Out' = Out \cup {Nth(e, emitted + 1)}
    BY <1>1, <1>4, OneOut
  <2> DEFINE N == {Nth(e, emitted + 1)}
  <2>2. Out' = Out \cup N /\ \A x \in N : x.what # "queue" /\ x.what # "batch"
    BY <1>4, <2>1
  <2> HIDE DEF N
  <2> QED BY <1>1, <1>2, <2>2, PreviewTold
<1>5. CASE T!CreateSession
  <2>1. PICK w \in {"created", "notCreated"} : T!Emit(<<T!Event(w)>>)
    BY <1>5 DEF T!CreateSession
  <2> QED BY <1>4, <2>1, EventsAre
<1>6. CASE T!AskUser
  <2>1. PICK w \in {"approval", "question"} : T!Emit(<<T!AskEvent(w, asks + 1)>>)
    BY <1>6 DEF T!AskUser
  <2> QED BY <1>4, <2>1, EventsAre
<1>7. CASE T!Die
  BY <1>4, <1>7, EventsAre DEF T!Die
<1>8. CASE T!RunFails
  <2>1. CASE T!Emit(<<T!Event("failed")>>)
    BY <1>4, <2>1, EventsAre
  <2>2. CASE T!Emit(<<T!QueueEvent("queue", T!Empty), T!Event("failed")>>)
    <3> DEFINE e == Nth(T!QueueEvent("queue", T!Empty), emitted + 1)
               f == Nth(T!Event("failed"), emitted + 2)
    <3>1. e.what = "queue" /\ e.queue = T!Empty /\ f.what = "failed"
      BY EventsAre
    <3>2. \A m : Nth(T!QueueEvent("queue", T!Empty), m).n = m /\ Nth(T!Event("failed"), m).n = m
      BY EventsAre
    <3>3. Out' = Out \cup {e, f}
      BY <1>1, <2>2, <3>2, TwoOut
    <3> HIDE DEF e, f
    <3> DEFINE N == {e, f}
    <3>4. Out' = Out \cup N /\ \A x \in N : x.what # "batch" /\ (x.what = "queue" => Shape(x.queue))
      BY <1>3, <3>1, <3>3
    <3> HIDE DEF N
    <3> QED BY <1>1, <1>2, <3>4, PreviewTold
  <2> QED BY <1>8, <2>1, <2>2 DEF T!RunFails
<1>9. ASSUME NEW q, NEW r, NEW N, NEW k, Shape(q), Len(r.next) \in Nat, Distinct => Away(q, r.next), k \in Nat,
             N = {Nth(T!QueueEvent("queue", q), k), Nth(T!QueueEvent("batch", r), k + 1)},
             Out' = Out \cup N \/ Out' = Out \cup N \cup {Nth(T!Event("terminal"), emitted + 1)}
      PROVE  PreviewTracked'
  <2> DEFINE e == Nth(T!QueueEvent("queue", q), k)
             f == Nth(T!QueueEvent("batch", r), k + 1)
             d == Nth(T!Event("terminal"), emitted + 1)
  <2>1. /\ e.n = k /\ e.what = "queue" /\ e.queue = q
        /\ f.n = k + 1 /\ f.what = "batch" /\ f.queue = r /\ d.what = "terminal"
    BY EventsAre
  <2> HIDE DEF e, f, d
  <2>2. N = {e, f}
    BY <1>9 DEF e, f
  <2>3. PICK M : Out' = Out \cup M /\ (M = {e, f} \/ M = {e, f} \cup {d})
    <3>1. Out' = Out \cup {e, f} \/ Out' = Out \cup ({e, f} \cup {d})
      BY <1>9, <2>2 DEF d
    <3> QED BY <3>1
  <2>4. \A x \in M : /\ x.what = "queue" => Shape(x.queue)
                     /\ x.what = "batch" =>
                          /\ Len(x.queue.next) \in Nat
                          /\ Distinct => \E y \in M : y.what = "queue" /\ x.n = y.n + 1
                                                      /\ Away(y.queue, x.queue.next)
    BY <1>9, <2>1, <2>3
  <2> QED BY <1>1, <1>2, <2>3, <2>4, PreviewTold
<1>10. ASSUME NEW g \in Group, T!Emit(T!Batch(g)) \/ T!Emit(<<T!Event("terminal")>> \o T!Batch(g))
       PROVE  PreviewTracked'
  <2>1. PICK q, r : /\ T!Batch(g) = <<T!QueueEvent("queue", q), T!QueueEvent("batch", r)>>
                    /\ Shape(q) /\ Len(r.next) \in Nat
                    /\ Distinct => Away(q, r.next)
    BY BatchIs
  <2> DEFINE d == T!Event("terminal")
             e == T!QueueEvent("queue", q)
             f == T!QueueEvent("batch", r)
  <2>2. \A m : Nth(d, m).n = m /\ Nth(e, m).n = m /\ Nth(f, m).n = m
    BY EventsAre
  <2>3. emitted + 1 \in Nat /\ emitted + 2 \in Nat /\ emitted + 2 = (emitted + 1) + 1
        /\ emitted + 3 = (emitted + 2) + 1
    BY DEF TuiIInv, Numbered
  <2>4. CASE T!Emit(T!Batch(g))
    <3> HIDE DEF d, e, f
    <3>1. T!Emit(<<e, f>>)
      BY <2>1, <2>4 DEF e, f
    <3>2. Out' = Out \cup {Nth(e, emitted + 1), Nth(f, emitted + 2)}
      BY <1>1, <2>2, <3>1, TwoOut
    <3>3. Out' = Out \cup {Nth(e, emitted + 1), Nth(f, (emitted + 1) + 1)}
      BY <2>3, <3>2
    <3> QED BY <1>9, <2>1, <2>3, <3>3 DEF e, f
  <2>5. CASE T!Emit(<<T!Event("terminal")>> \o T!Batch(g))
    <3> HIDE DEF d, e, f
    <3>1. T!Emit(<<d>> \o <<e, f>>)
      BY <2>1, <2>5 DEF d, e, f
    <3>2. Out' = Out \cup {Nth(d, emitted + 1), Nth(e, emitted + 2), Nth(f, emitted + 3)}
      BY <1>1, <2>2, <3>1, ThreeOut
    <3>3. Out' = Out \cup {Nth(e, emitted + 2), Nth(f, (emitted + 2) + 1)} \cup {Nth(d, emitted + 1)}
      BY <2>3, <3>2
    <3> QED BY <1>9, <2>1, <2>3, <3>3 DEF d, e, f
  <2> QED BY <1>10, <2>4, <2>5
<1>11. CASE T!SubmitSteers
  BY <1>10, <1>11 DEF T!SubmitSteers, Group
<1>12. CASE T!RunEnds
  <2>1. CASE \E g \in Group : T!Emit(<<T!Event("terminal")>> \o T!Batch(g))
    BY <1>10, <2>1
  <2>2. CASE T!Emit(<<T!Event("terminal"), T!Event("done")>>)
    <3> DEFINE e == Nth(T!Event("terminal"), emitted + 1)
               f == Nth(T!Event("done"), emitted + 2)
    <3>1. e.what = "terminal" /\ f.what = "done"
      BY EventsAre
    <3>2. \A m : Nth(T!Event("terminal"), m).n = m /\ Nth(T!Event("done"), m).n = m
      BY EventsAre
    <3>3. Out' = Out \cup {e, f}
      BY <1>1, <2>2, <3>2, TwoOut
    <3> HIDE DEF e, f
    <3> DEFINE N == {e, f}
    <3>4. Out' = Out \cup N /\ \A x \in N : x.what # "queue" /\ x.what # "batch"
      BY <3>1, <3>3
    <3> HIDE DEF N
    <3> QED BY <1>1, <1>2, <3>4, PreviewTold
  <2> QED BY <1>12, <2>1, <2>2 DEF T!RunEnds, Group
<1> QED BY <1>5, <1>6, <1>7, <1>8, <1>11, <1>12

\* Update handles the next event: a queue is shown as it was told, and a batch
\* takes nothing out of it.
LEMMA PreviewEvent ==
  ASSUME TuiIInv, PreviewTracked, T!RunEvent
  PROVE  PreviewTracked'
<1>1. PICK e \in taken : T!EventText(e) \/ T!EventAsk(e) \/ T!EventResolved(e) \/ T!EventLast(e)
  BY DEF T!RunEvent
<1>2. /\ T!Handled(e) /\ UNCHANGED <<ch, emitted, replies, typed, expired>> /\ listeners' \in {listeners, listeners + 1}
  BY <1>1 DEF T!EventText, T!EventAsk, T!EventResolved, T!EventLast, T!quiet, T!Listen
<1>3. listeners = 0 /\ e.n = handled + 1 /\ handled \in Nat /\ \A f \in Out : f.n = e.n => f = e
  <2>1. \A f \in taken : f = e
    BY DEF TuiIInv, Numbered
  <2>2. Base = handled + 1 /\ e.n = handled + 1 /\ handled \in Nat /\ listeners = 0
    BY DEF TuiIInv, Numbered, Base
  <2>3. \A k \in DOMAIN ch : k \in 1..Len(ch) /\ Len(ch) \in Nat /\ ch[k].n = handled + 1 + k
    BY <2>2, LenProperties DEF TuiIInv, Numbered
  <2>4. \A k \in DOMAIN ch : ch[k].n # e.n
    BY <2>2, <2>3
  <2> QED BY <2>1, <2>2, <2>4 DEF Out
<1>4. handled' = handled + 1 /\ e \in Out /\ Out' = Out \ {e}
  BY <1>2, <1>3, HandledIs
<1>5. Distinct' = Distinct
  BY <1>2 DEF Distinct, Differ, Fresh
<1>6. CASE e.what = "queue"
  <2>1. preview' = e.queue /\ stated' = e.queue
    BY <1>1, <1>6 DEF T!EventText, T!EventAsk, T!EventResolved, T!EventLast
  <2>2. Shape(stated')
    BY <1>4, <1>6, <2>1 DEF PreviewTracked
  <2>3. ASSUME Distinct, NEW b \in Out', b.what = "batch"
        PROVE  \/ b.n = handled' + 1 /\ Away(stated', b.queue.next)
               \/ \E f \in Out' : f.what = "queue" /\ b.n = f.n + 1 /\ Away(f.queue, b.queue.next)
    <3>1. b \in Out /\ b # e /\ b.n # handled + 1
      BY <1>3, <1>4, <2>3
    <3>2. PICK f \in Out : f.what = "queue" /\ b.n = f.n + 1 /\ Away(f.queue, b.queue.next)
      BY <2>3, <3>1 DEF PreviewTracked, BatchesFollow
    <3>3. CASE f = e
      BY <1>3, <1>4, <2>1, <3>2, <3>3
    <3>4. CASE f # e
      BY <1>4, <3>2, <3>4
    <3> QED BY <3>3, <3>4
  <2> QED BY <1>4, <1>5, <2>1, <2>2, <2>3 DEF PreviewTracked, BatchesFollow
<1>7. CASE e.what # "queue"
  <2>1. stated' = stated
    BY <1>1, <1>7 DEF T!EventText, T!EventAsk, T!EventResolved, T!EventLast
  <2>2. ASSUME Distinct, NEW b \in Out', b.what = "batch"
        PROVE  \E f \in Out' : f.what = "queue" /\ b.n = f.n + 1 /\ Away(f.queue, b.queue.next)
    <3>1. b \in Out /\ b # e /\ b.n # handled + 1
      BY <1>3, <1>4, <2>2
    <3>2. PICK f \in Out : f.what = "queue" /\ b.n = f.n + 1 /\ Away(f.queue, b.queue.next)
      BY <2>2, <3>1 DEF PreviewTracked, BatchesFollow
    <3> QED BY <1>4, <1>7, <3>2
  <2>3. ASSUME Distinct PROVE preview' = preview
    <3>1. CASE e.what = "batch"
      <4>1. preview' = T!Without(e.queue.next)
        BY <1>1, <3>1 DEF T!EventText, T!EventAsk, T!EventResolved, T!EventLast
      <4>2. preview = stated /\ Len(e.queue.next) \in Nat /\ Shape(preview)
        BY <1>4, <2>3, <3>1 DEF PreviewTracked
      <4>3. Away(stated, e.queue.next)
        <5>1. \A f \in Out : ~(f.what = "queue" /\ e.n = f.n + 1)
          <6>1. \A f \in Out : f.n \in Nat /\ f.n >= e.n
            <7>1. \A k \in DOMAIN ch : k \in Nat /\ ch[k].n = handled + 1 + k
              BY <1>3, LenProperties DEF TuiIInv, Numbered, Base
            <7>2. \A f \in taken : f = e
              BY DEF TuiIInv, Numbered
            <7> QED BY <1>3, <7>1, <7>2 DEF Out
          <6> QED BY <1>3, <6>1
        <5> QED BY <1>4, <2>3, <3>1, <5>1 DEF PreviewTracked, BatchesFollow
      <4>4. \A g \in Group : T!RemoveQueued(preview[g], e.queue.next) = preview[g]
        BY <4>2, <4>3, NothingRemoved DEF Away
      <4>5. preview' = [g \in Group |-> T!RemoveQueued(preview[g], e.queue.next)]
        BY <4>1 DEF T!Without, Group
      <4> QED BY <4>2, <4>4, <4>5 DEF Shape
    <3>2. CASE e.what # "batch"
      BY <1>1, <1>7, <3>2 DEF T!EventText, T!EventAsk, T!EventResolved, T!EventLast
    <3> QED BY <3>1, <3>2
  <2> QED BY <1>4, <1>5, <2>1, <2>2, <2>3 DEF PreviewTracked, BatchesFollow
<1> QED BY <1>6, <1>7

\* Every step keeps the preview.
LEMMA PreviewStep ==
  ASSUME TuiIInv, TextsTracked, LateTracked, Fresh => OnceTracked, QueueTracked, PreviewTracked, [T!Next]_T!tvars
  PROVE  PreviewTracked'
<1>1. ASSUME Out' = Out, UNCHANGED <<handled, stated, preview>>, Distinct' => Distinct
      PROVE  PreviewTracked'
  <2> DEFINE N == {}
  <2>1. Out' = Out \cup N /\ \A e \in N : e.what # "queue" /\ e.what # "batch"
    BY <1>1
  <2> HIDE DEF N
  <2> QED BY <1>1, <2>1, PreviewTold
<1>2. typed' = typed => (Distinct' => Distinct)
  BY LateStep DEF Distinct, Differ
<1>3. CASE UNCHANGED T!tvars \/ T!QueuePrompt \/ T!Escape \/ T!AnswerKey \/ T!ReplyMsg
           \/ (\E r \in requests : T!Expire(r))
  <2>1. UNCHANGED <<taken, ch, handled, stated, preview, typed>>
    BY <1>3 DEF T!tvars, T!ui, T!backend, T!QueuePrompt, T!Escape, T!AnswerKey, T!ReplyMsg, T!Submitted,
                T!Enqueued, T!Interrupted, T!answered, T!Expire
  <2> QED BY <1>1, <1>2, <2>1 DEF Out
<1>4. ASSUME NEW text \in Text, T!Type(text) PROVE PreviewTracked'
  <2>1. UNCHANGED <<taken, ch, handled, stated, preview>> /\ typed' = Append(typed, text)
    BY <1>4 DEF T!Type
  <2>2. Len(typed) \in Nat /\ Len(typed') = Len(typed) + 1 /\ \A i \in 1..Len(typed) : typed'[i] = typed[i]
    BY <2>1, AppendProperties, LenProperties DEF TextsTracked
  <2>3. 1..Len(typed) \subseteq 1..Len(typed')
    BY <2>2
  <2>4. Distinct' => Distinct
    BY <2>2, <2>3, LateStep DEF Distinct, Differ
  <2> QED BY <1>1, <2>1, <2>4 DEF Out
<1>5. CASE T!SubmitPrompt
  <2>1. UNCHANGED <<handled, stated, preview, typed>> /\ ~streaming
    BY <1>5 DEF T!SubmitPrompt
  <2>2. Out' \subseteq {Nth(T!QueueEvent("queue", T!Shown(queue)), emitted + 1)} /\ Out = {}
    BY <1>5, <2>1, SubmitPromptStep DEF TuiIInv, EndTracked
  <2>3. Shape(T!Shown(queue))
    BY ShownIs DEF QueueTracked
  <2>4. \A e \in Out' : e.what = "queue" /\ e.queue = T!Shown(queue)
    BY <2>2, EventsAre
  <2> DEFINE N == Out'
  <2>5. Out' = Out \cup N /\ \A e \in N : e.what # "batch" /\ Shape(e.queue)
    BY <2>2, <2>3, <2>4
  <2> HIDE DEF N
  <2> QED BY <1>2, <2>1, <2>5, PreviewTold
<1>6. CASE T!CreateSession \/ T!AskUser \/ T!SubmitSteers \/ T!RunEnds \/ T!RunFails \/ T!Die
  BY <1>6, PreviewBackend
<1>7. ASSUME NEW r \in requests, T!HandleSubmit(r) \/ T!HandleInterrupt(r) \/ T!HandleEnqueue(r)
      PROVE  PreviewTracked'
  <2>1. UNCHANGED <<taken, handled, listeners, stated, preview, typed>>
    BY <1>7 DEF T!HandleSubmit, T!HandleInterrupt, T!HandleEnqueue, T!same, T!ui
  <2>2. CASE ch' = ch
    BY <1>1, <1>2, <2>1, <2>2 DEF Out
  <2>3. ASSUME NEW e, T!Emit(<<e>>),
               \A m : Nth(e, m).n = m /\ Nth(e, m).what # "batch" /\ (Nth(e, m).what = "queue" => Shape(Nth(e, m).queue))
        PROVE  PreviewTracked'
    <3> DEFINE N == {Nth(e, emitted + 1)}
    <3>1. Out' = Out \cup N
      BY <2>1, <2>3, OneOut
    <3>2. \A x \in N : x.what # "batch" /\ (x.what = "queue" => Shape(x.queue))
      BY <2>3
    <3> HIDE DEF N
    <3> QED BY <1>2, <2>1, <3>1, <3>2, PreviewTold
  <2>4. CASE T!Emit(<<T!AskEvent("resolved", r.ask)>>)
    BY <2>3, <2>4, EventsAre
  <2>5. CASE T!HandleEnqueue(r) /\ queue' = [queue EXCEPT ![r.what] = Append(@, r.prompt)]
             /\ T!Emit(<<T!QueueEvent("queue", T!Shown(queue'))>>)
    <3>1. queue' \in [Group -> Seq(given')]
      BY <1>7, QueueStep DEF QueueTracked, T!Next, T!Serve
    <3> DEFINE q == queue'
               A == given'
               told == T!Shown(queue')
    <3>2. Shape(told)
      <4>1. q \in [Group -> Seq(A)] /\ told = T!Shown(q)
        BY <3>1
      <4> HIDE DEF q, A, told
      <4> QED BY <4>1, ShownIs
    <3>3. T!Emit(<<T!QueueEvent("queue", told)>>)
      BY <2>5
    <3> HIDE DEF told
    <3> QED BY <2>3, <3>2, <3>3, EventsAre
  <2> QED BY <1>7, <2>2, <2>4, <2>5 DEF T!HandleSubmit, T!HandleInterrupt, T!HandleEnqueue
<1>8. CASE T!ListenAsync
  <2>1. UNCHANGED <<handled, stated, preview, typed>>
    BY <1>8 DEF T!ListenAsync
  <2> QED BY <1>1, <1>2, <1>8, <2>1, ListenStep
<1>9. CASE T!RunEvent
  BY <1>9, PreviewEvent
<1> QED BY <1>3, <1>4, <1>5, <1>6, <1>7, <1>8, <1>9 DEF T!Next, T!Serve

\* ScreenSound (Tui.tla): the overlay the user sees is one the backend waits
\* for, unless its answer is coming or was given up, or its run is gone; what
\* the user has typed is in the editor, on its way or with the backend, unless a
\* refused prompt came back over it; and the queue preview is the queue last
\* told, as long as the typed texts differ and the client gave none of them up.
THEOREM ScreenStaysSound == Spec => []ScreenSound
<1> DEFINE IInv == /\ TuiIInv /\ OverlaysTracked /\ TextsTracked
                   /\ LateTracked /\ (Fresh => OnceTracked) /\ QueueTracked /\ PreviewTracked
<1>1. Init => IInv
  <2> SUFFICES ASSUME T!Init PROVE IInv
    BY DEF Init
  <2>1. OnTheWay = {} /\ Ungiven = {} /\ Refused = {} /\ Out = {} /\ Asked = {} /\ typed = <<>>
    <3>1. DOMAIN <<>> = {}
      BY EmptySeq
    <3> QED BY <3>1 DEF T!Init, OnTheWay, Ungiven, Refused, Asked, Out
  <2>2. typed \in Seq(Text) /\ 1..Len(typed) = {}
    BY <2>1, EmptySeq
  <2>3. OverlaysTracked /\ TextsTracked /\ OnceTracked /\ LateTracked
    BY <2>1, <2>2 DEF T!Init, LateTracked, OverlaysTracked, TextsTracked, OnceTracked
  <2>4. T!Empty = [g \in Group |-> <<>>] /\ Shape(T!Empty) /\ <<>> \in Seq(given) /\ 1..Len(<<>>) = {}
    BY EmptySeq DEF T!Empty, Shape, Group
  <2>5. QueueTracked
    <3>1. queue \in [Group -> Seq(given)] /\ queue["next"] = <<>>
      BY <2>4 DEF T!Init, Group
    <3> QED BY <2>4, <3>1 DEF QueueTracked
  <2>6. PreviewTracked
    BY <2>1, <2>4 DEF T!Init, PreviewTracked, BatchesFollow
  <2> QED BY <2>3, <2>5, <2>6, TuiInit
<1>2. [Next]_vars => [T!Next]_T!tvars
  BY DEF Next, vars, tui, T!tvars, T!ui, T!backend
<1>3. IInv /\ [Next]_vars => IInv'
  <2> SUFFICES ASSUME IInv, [T!Next]_T!tvars PROVE IInv'
    BY <1>2
  <2>1. TuiIInv' /\ OverlaysTracked' /\ TextsTracked' /\ QueueTracked' /\ PreviewTracked'
    BY TuiStep, OverlaysStep, TextsStep, QueueStep, PreviewStep
  <2>2. LateTracked' /\ (Fresh' => Fresh)
    BY LateStep
  <2>3. Fresh' => OnceTracked'
    BY <2>2, OnceStep
  <2> QED BY <2>1, <2>2, <2>3
<1>4. IInv => ScreenSound
  <2> SUFFICES ASSUME IInv PROVE ScreenSound
    OBVIOUS
  <2>1. T!OverlayIsLive
    BY DEF T!OverlayIsLive, OverlaysTracked, Live, Answered
  <2>2. T!TypedTextKept
    BY DEF T!TypedTextKept, TextsTracked, OnTheWay
  <2>3. T!PreviewFollowsQueue
    <3>1. typed \in Seq(Text) /\ (Differ /\ Fresh => preview = stated)
      BY DEF TextsTracked, PreviewTracked, Distinct
    <3> HIDE DEF IInv
    <3>2. Cardinality(T!ToSet(typed)) = Len(typed) => Differ
      BY <3>1, AsManyTexts
    <3>3. T!Cardinality(T!ToSet(typed)) = Cardinality(T!ToSet(typed))
      BY DEF T!Cardinality, Cardinality
    <3> QED BY <3>1, <3>2, <3>3 DEF T!PreviewFollowsQueue, Fresh
  <2> QED BY <2>1, <2>2, <2>3 DEF ScreenSound, T!ScreenSound
<1> HIDE DEF IInv
<1> QED BY <1>1, <1>3, <1>4, PTL DEF Spec

-----------------------------------------------------------------------------
(* The login.                                                              *)

\* What the login state may be.
LoginShape == [started : BOOLEAN, waiting : BOOLEAN, flow : Nat, model : BOOLEAN, prompt : Nat]

\* While a run goes on there is no login whose end restarts the backend.
LoginIInv ==
  /\ login \in LoginShape /\ texts \in Nat /\ editor \in Nat
  /\ \A c \in calls : c.flow \in Nat
  /\ \A a \in answers : a.flow \in Nat
  /\ login.model => login.started
  /\ busy => ~login.started

\* Every step of the login keeps that, and restarts nothing under a run.
LEMMA LoginStep ==
  ASSUME LoginIInv, [L!Next]_L!lvars
  PROVE  LoginIInv' /\ (restarts' # restarts => ~busy)
<1>1. CASE UNCHANGED L!lvars
  BY <1>1 DEF L!lvars, LoginIInv
<1>2. ASSUME NEW model \in BOOLEAN, NEW prompt \in Nat, L!StartFlow(model, prompt)
      PROVE  login' \in LoginShape /\ login'.started /\ editor' = 0 /\ \A c \in calls' : c.flow \in Nat
  <2>1. login' = [started |-> TRUE, waiting |-> FALSE, flow |-> L!None, model |-> model, prompt |-> prompt]
    <3>1. L!Idle = [started |-> FALSE, waiting |-> FALSE, flow |-> L!None, model |-> FALSE, prompt |-> L!None]
      BY DEF L!Idle
    <3> DEFINE I == L!Idle
    <3>2. login' = [[[I EXCEPT !.started = TRUE] EXCEPT !.model = model] EXCEPT !.prompt = prompt]
      <4> HIDE DEF I
      <4>1. I = L!Idle
        BY DEF I
      <4> QED BY <1>2, <4>1 DEF L!StartFlow
    <3> QED BY <3>1, <3>2
  <2>2. login' \in LoginShape /\ login'.started
    BY <2>1 DEF L!None, LoginShape
  <2>3. editor' = 0 /\ calls' = calls \cup {[what |-> "start", flow |-> 0]}
    BY <1>2 DEF L!StartFlow, L!None
  <2> QED BY <2>2, <2>3 DEF LoginIInv
<1>3. ASSUME NEW rest, rest \subseteq answers, L!RestartBackend(rest)
      PROVE  calls' = {} /\ \A a \in answers' : a.flow \in Nat
  BY <1>3 DEF L!RestartBackend, LoginIInv
<1>4. CASE L!Type \/ L!Escape \/ L!RunEnds \/ \E f \in L!Flow : L!Callback(f)
  BY <1>4 DEF L!Type, L!Escape, L!RunEnds, L!Callback, LoginIInv, L!None
<1>5. CASE L!Enter
  <2>1. UNCHANGED <<selected, texts, answers, flow, restarts>> /\ editor \in Nat /\ ~busy
    BY <1>5 DEF L!Enter, LoginIInv
  <2>2. CASE /\ login.flow # L!None /\ editor' = L!None /\ UNCHANGED <<login, busy>>
             /\ calls' = calls \cup {[what |-> "complete", flow |-> login.flow]}
    <3>1. login.flow \in Nat
      BY DEF LoginIInv, LoginShape
    <3> QED BY <2>1, <2>2, <3>1 DEF LoginIInv, L!None
  <2>3. CASE L!StartFlow(TRUE, editor) /\ UNCHANGED busy
    <3>1. login' \in LoginShape /\ login'.started /\ editor' = 0 /\ \A c \in calls' : c.flow \in Nat
      BY <1>2, <2>1, <2>3
    <3> QED BY <2>1, <2>3, <3>1 DEF LoginIInv
  <2>4. CASE ~L!Blocked /\ editor' = L!None /\ UNCHANGED <<login, calls>>
    BY <2>1, <2>4 DEF L!Blocked, LoginIInv, L!None
  <2> QED BY <1>5, <2>2, <2>3, <2>4 DEF L!Enter
<1>6. CASE L!LoginCommand
  BY <1>2, <1>6 DEF L!LoginCommand, LoginIInv, L!None
<1>7. CASE L!ModelCommand
  BY <1>2, <1>3, <1>7 DEF L!ModelCommand, LoginIInv, L!None
<1>8. CASE \E c \in calls : L!ServeStart(c) \/ L!ServeComplete(c) \/ L!ServeWait(c)
  <2>1. PICK c \in calls : L!ServeStart(c) \/ L!ServeComplete(c) \/ L!ServeWait(c)
    BY <1>8
  <2>2. c.flow \in Nat
    BY DEF LoginIInv
  <2>3. /\ calls' = calls \ {c} /\ UNCHANGED <<login, editor, busy, selected, texts, restarts>>
        /\ \A a \in answers' : a \in answers \/ a.flow \in Nat
    <3>1. ASSUME NEW f \in Nat, NEW ok, L!Answer(c, f, ok)
          PROVE  /\ calls' = calls \ {c} /\ UNCHANGED <<login, editor, busy, selected, texts, restarts>>
                 /\ \A a \in answers' : a \in answers \/ a.flow \in Nat
      BY <3>1 DEF L!Answer
    <3>2. CASE L!ServeStart(c)
      <4>1. L!Answer(c, L!None, FALSE) \/ \E f \in L!Flow : L!Answer(c, f, TRUE)
        BY <3>2 DEF L!ServeStart
      <4>2. L!None \in Nat /\ L!Flow \subseteq Nat
        BY DEF L!None, L!Flow
      <4>3. CASE L!Answer(c, L!None, FALSE)
        BY <3>1, <4>2, <4>3
      <4>4. ASSUME NEW f \in L!Flow, L!Answer(c, f, TRUE)
            PROVE  /\ calls' = calls \ {c} /\ UNCHANGED <<login, editor, busy, selected, texts, restarts>>
                   /\ \A a \in answers' : a \in answers \/ a.flow \in Nat
        BY <3>1, <4>2, <4>4
      <4> QED BY <4>1, <4>3, <4>4
    <3>3. CASE L!ServeComplete(c)
      BY <2>2, <3>1, <3>3 DEF L!ServeComplete
    <3>4. CASE L!ServeWait(c)
      <4> DEFINE ok == flow[c.flow] = "stored"
      <4>1. L!Answer(c, c.flow, ok)
        BY <3>4 DEF L!ServeWait
      <4> HIDE DEF ok
      <4> QED BY <2>2, <3>1, <4>1
    <3> QED BY <2>1, <3>2, <3>3, <3>4
  <2> QED BY <2>3 DEF LoginIInv
<1>9. CASE L!Update
  <2>1. PICK a \in answers : L!StartMsg(a) \/ L!CompleteOrWaitMsg(a)
    BY <1>9 DEF L!Update
  <2>2. L!Idle \in LoginShape /\ ~L!Idle.started /\ ~L!Idle.model
    BY DEF L!Idle, LoginShape, L!None
  <2>3. CASE L!StartMsg(a) /\ a.ok
    <3>1. login' = [[login EXCEPT !.flow = a.flow] EXCEPT !.waiting = TRUE]
      BY <2>3 DEF L!StartMsg
    <3>2. login' \in LoginShape /\ login'.started = login.started /\ login'.model = login.model
      BY <3>1 DEF LoginShape, LoginIInv
    <3> QED BY <2>3, <3>2 DEF L!StartMsg, LoginIInv
  <2>4. CASE L!StartMsg(a) /\ ~a.ok
    BY <2>2, <2>4 DEF L!StartMsg, LoginIInv, L!None
  <2>5. CASE L!CompleteOrWaitMsg(a) /\ L!Ended(a)
    <3>1. L!Finish(answers \ {a}) /\ UNCHANGED <<busy, texts>>
      BY <2>5 DEF L!CompleteOrWaitMsg
    <3>2. login' = L!Idle /\ editor' = login.prompt /\ editor' \in Nat
      BY <3>1 DEF L!Finish, LoginIInv, LoginShape
    <3> QED BY <1>3, <2>2, <3>1, <3>2 DEF L!Finish, LoginIInv
  <2>6. CASE L!CompleteOrWaitMsg(a) /\ ~L!Ended(a)
    BY <2>6 DEF L!CompleteOrWaitMsg, LoginIInv
  <2> QED BY <2>1, <2>3, <2>4, <2>5, <2>6
<1> QED BY <1>1, <1>4, <1>5, <1>6, <1>7, <1>8, <1>9 DEF L!Next, L!Backend

\* RestartSparesRuns (ClientLogin.tla): the restart that follows a login never
\* takes the backend from under a run.
THEOREM RunsAreSpared == Spec => RestartSparesRuns
<1>1. Init => LoginIInv
  BY DEF Init, L!Init, L!Idle, L!None, LoginIInv, LoginShape
<1>2. [Next]_vars => [L!Next]_L!lvars
  BY DEF Next, vars, log_in, L!lvars
<1>3. LoginIInv /\ [Next]_vars => LoginIInv'
  BY <1>2, LoginStep
<1>4. LoginIInv /\ [Next]_vars => [restarts' # restarts => ~busy]_L!lvars
  BY <1>2, LoginStep
<1> QED BY <1>1, <1>3, <1>4, PTL DEF Spec, RestartSparesRuns, L!RestartSparesRuns
=============================================================================
