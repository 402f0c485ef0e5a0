-------------------------- MODULE RunControlProofs --------------------------
(***************************************************************************)
(* RunControl keeps its invariants for every set of prompts.  The          *)
(* inductive invariant is the conjunction of the four parts: conservation  *)
(* needs the queues to be sequences of batches, and none of the parts      *)
(* holds by the shape of a single action.  On top of it a second one says  *)
(* what the client was told and what a response leaves, and a third that   *)
(* no prompt stands twice in a queue, which delivery to the inbox of       *)
(* PromptInbox needs.                                                      *)
(***************************************************************************)
EXTENDS RunControl, SequenceTheorems, FiniteSetTheorems, TLAPS

IInv == TypeOK /\ Conservation /\ QueueShape /\ BoundaryDiscipline

-----------------------------------------------------------------------------
(* The queue operations of PromptQueue.                                     *)

\* Appending a prompt to a prompt sequence adds it to the set of its members.
LEMMA ToSetAppend ==
  ASSUME NEW s \in Seq(Prompt), NEW p \in Prompt
  PROVE  /\ Append(s, p) \in Seq(Prompt)
         /\ Append(s, p) # <<>>
         /\ ToSet(Append(s, p)) = ToSet(s) \cup {p}
  BY AppendProperties DEF ToSet

\* Appending a batch adds its prompts, and keeps the batches disjoint when it
\* shares no prompt with them.
LEMMA AppendBatch ==
  ASSUME NEW b \in Seq(Batch), NEW k \in Kind, NEW s \in Seq(Prompt)
  PROVE  LET t == Append(b, [kind |-> k, prompts |-> s]) IN
         /\ t \in Seq(Batch)
         /\ PromptsOf(t) = PromptsOf(b) \cup ToSet(s)
         /\ Disjoint(b) /\ PromptsOf(b) \cap ToSet(s) = {} => Disjoint(t)
<1> DEFINE e == [kind |-> k, prompts |-> s]
           t == Append(b, e)
<1>1. e \in Batch
  BY DEF Batch
<1>2. /\ t \in Seq(Batch)
      /\ DOMAIN t = DOMAIN b \cup {Len(b) + 1}
      /\ Len(b) + 1 \notin DOMAIN b
      /\ \A i \in DOMAIN b : t[i] = b[i]
      /\ t[Len(b) + 1] = e
  BY <1>1
<1>3. PromptsOf(t) = PromptsOf(b) \cup ToSet(s)
  <2> HIDE DEF t
  <2>1. {ToSet(t[i].prompts) : i \in DOMAIN t}
          = {ToSet(b[i].prompts) : i \in DOMAIN b} \cup {ToSet(s)}
    BY <1>2
  <2> QED BY <2>1 DEF PromptsOf
<1>4. ASSUME Disjoint(b), PromptsOf(b) \cap ToSet(s) = {}
      PROVE  Disjoint(t)
  <2> HIDE DEF t
  <2>1. \A i \in DOMAIN b : ToSet(b[i].prompts) \cap ToSet(s) = {}
    BY <1>4 DEF PromptsOf
  <2>2. e.prompts = s
    OBVIOUS
  <2> QED BY <1>2, <1>4, <2>1, <2>2 DEF Disjoint
<1> QED BY <1>2, <1>3, <1>4

\* Prepending drained steers moves them, and nothing else, into the batches.
LEMMA PrependLemma ==
  ASSUME NEW b \in Seq(Batch), NEW s \in Seq(Prompt)
  PROVE  /\ Prepend(b, s) \in Seq(Batch)
         /\ PromptsOf(Prepend(b, s)) = ToSet(s) \cup PromptsOf(b)
         /\ Disjoint(b) /\ ToSet(s) \cap PromptsOf(b) = {} => Disjoint(Prepend(b, s))
         /\ Shaped(b) => Shaped(Prepend(b, s))
<1>1. CASE s = <<>>
  BY <1>1 DEF Prepend, ToSet
<1>2. CASE s # <<>>
  <2> DEFINE e == [kind |-> "next", prompts |-> s]
             t == <<e>> \o b
  <2>1. e \in Batch /\ e.prompts = s /\ e.kind = "next"
    BY DEF Batch, Kind
  <2>2. /\ t \in Seq(Batch)
        /\ Len(t) = Len(b) + 1
        /\ DOMAIN t = {1} \cup {i + 1 : i \in DOMAIN b}
        /\ t[1] = e
        /\ \A i \in DOMAIN b : t[i + 1] = b[i]
        /\ \A i \in DOMAIN b : i + 1 # 1
    <3>1. /\ <<e>> \in Seq(Batch) /\ Len(<<e>>) = 1 /\ <<e>>[1] = e
      BY <2>1
    <3>2. /\ t \in Seq(Batch)
          /\ Len(t) = 1 + Len(b)
          /\ \A i \in 1 .. 1 + Len(b) : t[i] = IF i <= 1 THEN <<e>>[i] ELSE b[i - 1]
      BY <3>1, ConcatProperties
    <3>3. /\ Len(b) \in Nat /\ DOMAIN b = 1 .. Len(b)
          /\ DOMAIN t = 1 .. Len(t)
      BY <3>2
    <3> HIDE DEF t
    <3>4. DOMAIN t = {1} \cup {i + 1 : i \in DOMAIN b}
      <4>1. ASSUME NEW j \in DOMAIN t, j # 1
            PROVE  j - 1 \in DOMAIN b /\ j = (j - 1) + 1
        BY <4>1, <3>2, <3>3
      <4> QED BY <4>1, <3>2, <3>3
    <3>5. ASSUME NEW i \in DOMAIN b
          PROVE  t[i + 1] = b[i] /\ i + 1 # 1
      <4>1. i + 1 \in 1 .. 1 + Len(b) /\ ~(i + 1 <= 1) /\ (i + 1) - 1 = i
        BY <3>3
      <4> QED BY <4>1, <3>2
    <3>6. t[1] = e
      BY <3>1, <3>2, <3>3
    <3>7. Len(t) = Len(b) + 1
      BY <3>2, <3>3
    <3> QED BY <3>2, <3>4, <3>5, <3>6, <3>7
  <2>3. Prepend(b, s) = t
    BY <1>2 DEF Prepend
  <2> HIDE DEF t
  <2>4. PromptsOf(t) = ToSet(s) \cup PromptsOf(b)
    <3>1. {ToSet(t[i].prompts) : i \in DOMAIN t}
            = {ToSet(s)} \cup {ToSet(b[i].prompts) : i \in DOMAIN b}
      <4>1. ASSUME NEW j \in DOMAIN t
            PROVE  \/ ToSet(t[j].prompts) = ToSet(s)
                   \/ \E i \in DOMAIN b : ToSet(t[j].prompts) = ToSet(b[i].prompts)
        <5>1. CASE j = 1
          BY <5>1, <2>1, <2>2
        <5>2. CASE j # 1
          BY <5>2, <2>2
        <5> QED BY <5>1, <5>2
      <4>2. /\ 1 \in DOMAIN t /\ ToSet(t[1].prompts) = ToSet(s)
            /\ \A i \in DOMAIN b : /\ i + 1 \in DOMAIN t
                                   /\ ToSet(t[i + 1].prompts) = ToSet(b[i].prompts)
        BY <2>1, <2>2
      <4> QED BY <4>1, <4>2
    <3> QED BY <3>1 DEF PromptsOf
  <2>5. ASSUME Disjoint(b), ToSet(s) \cap PromptsOf(b) = {}
        PROVE  Disjoint(t)
    <3>1. \A i \in DOMAIN b : ToSet(b[i].prompts) \cap ToSet(s) = {}
      BY <2>5 DEF PromptsOf
    <3> SUFFICES ASSUME NEW i \in DOMAIN t, NEW j \in DOMAIN t, i # j
                 PROVE  ToSet(t[i].prompts) \cap ToSet(t[j].prompts) = {}
      BY DEF Disjoint
    <3>2. CASE i = 1
      <4>1. PICK n \in DOMAIN b : j = n + 1
        BY <2>2, <3>2
      <4> QED BY <4>1, <2>1, <2>2, <3>1, <3>2
    <3>3. CASE j = 1
      <4>1. PICK n \in DOMAIN b : i = n + 1
        BY <2>2, <3>3
      <4> QED BY <4>1, <2>1, <2>2, <3>1, <3>3
    <3>4. CASE i # 1 /\ j # 1
      <4>1. PICK m \in DOMAIN b : i = m + 1
        BY <2>2, <3>4
      <4>2. PICK n \in DOMAIN b : j = n + 1
        BY <2>2, <3>4
      <4> QED BY <4>1, <4>2, <2>2, <2>5 DEF Disjoint
    <3> QED BY <3>2, <3>3, <3>4
  <2>6. ASSUME Shaped(b)
        PROVE  Shaped(t)
    <3> SUFFICES ASSUME NEW i \in DOMAIN t
                 PROVE  t[i].prompts # <<>> /\ (IsLater(t[i]) => i = Len(t))
      BY DEF Shaped
    <3>1. CASE i = 1
      BY <1>2, <2>1, <2>2, <3>1 DEF IsLater
    <3>2. CASE i # 1
      <4>1. PICK n \in DOMAIN b : i = n + 1
        BY <2>2, <3>2
      <4> QED BY <4>1, <2>2, <2>6 DEF Shaped
    <3> QED BY <3>1, <3>2
  <2> QED BY <2>2, <2>3, <2>4, <2>5, <2>6
<1> QED BY <1>1, <1>2

\* A later prompt joins the last batch or opens one behind it.
LEMMA AppendLaterLemma ==
  ASSUME NEW b \in Seq(Batch), NEW p \in Prompt
  PROVE  /\ AppendLater(b, p) \in Seq(Batch)
         /\ PromptsOf(AppendLater(b, p)) = PromptsOf(b) \cup {p}
         /\ Disjoint(b) /\ p \notin PromptsOf(b) => Disjoint(AppendLater(b, p))
         /\ Shaped(b) => Shaped(AppendLater(b, p))
<1> DEFINE n == Len(b)
           merge == n > 0 /\ IsLater(b[n])
<1>0. n \in Nat /\ DOMAIN b = 1 .. n
  OBVIOUS
<1>1. CASE merge
  <2> DEFINE t == [b EXCEPT ![n].prompts = Append(@, p)]
  <2>1. n \in DOMAIN b /\ b[n] \in Batch /\ b[n].prompts \in Seq(Prompt)
    <3>1. n \in DOMAIN b
      BY <1>0, <1>1
    <3>2. b[n] \in Batch
      BY <3>1
    <3> HIDE DEF n
    <3> QED BY <3>1, <3>2 DEF Batch
  <2>2. /\ DOMAIN t = DOMAIN b
        /\ t[n] = [b[n] EXCEPT !.prompts = Append(b[n].prompts, p)]
        /\ \A i \in DOMAIN b : i # n => t[i] = b[i]
    BY <2>1
  <2>3. /\ t[n] \in Batch
        /\ t[n].prompts = Append(b[n].prompts, p)
        /\ t[n].prompts # <<>>
        /\ ToSet(t[n].prompts) = ToSet(b[n].prompts) \cup {p}
    BY <2>1, <2>2, ToSetAppend DEF Batch
  <2>4. t \in Seq(Batch) /\ Len(t) = n
    <3>1. t = [b EXCEPT ![n] = t[n]]
      BY <2>1, <2>2
    <3> QED BY <3>1, <2>1, <2>3, <1>0, ExceptSeq
  <2>5. AppendLater(b, p) = t
    BY <1>1 DEF AppendLater
  <2> HIDE DEF t, n
  <2>6. PromptsOf(t) = PromptsOf(b) \cup {p}
    <3>1. \A i \in DOMAIN b : /\ ToSet(b[i].prompts) \subseteq ToSet(t[i].prompts)
                              /\ ToSet(t[i].prompts) \subseteq ToSet(b[i].prompts) \cup {p}
      BY <2>2, <2>3
    <3>2. ToSet(t[n].prompts) = ToSet(b[n].prompts) \cup {p}
      BY <2>3
    <3>3. PromptsOf(t) \subseteq PromptsOf(b) \cup {p}
      BY <2>2, <3>1 DEF PromptsOf
    <3>4. PromptsOf(b) \subseteq PromptsOf(t)
      BY <2>2, <3>1 DEF PromptsOf
    <3>5. p \in PromptsOf(t)
      BY <2>1, <2>2, <3>2 DEF PromptsOf
    <3> QED BY <3>3, <3>4, <3>5
  <2>7. ASSUME Disjoint(b), p \notin PromptsOf(b)
        PROVE  Disjoint(t)
    <3>1. \A i \in DOMAIN b : p \notin ToSet(b[i].prompts)
      BY <2>7 DEF PromptsOf
    <3> SUFFICES ASSUME NEW i \in DOMAIN b, NEW j \in DOMAIN b, i # j
                 PROVE  ToSet(t[i].prompts) \cap ToSet(t[j].prompts) = {}
      BY <2>2 DEF Disjoint
    <3>2. ToSet(b[i].prompts) \cap ToSet(b[j].prompts) = {}
      BY <2>7 DEF Disjoint
    <3>3. CASE i = n
      BY <3>1, <3>2, <3>3, <2>2, <2>3
    <3>4. CASE j = n
      BY <3>1, <3>2, <3>4, <2>2, <2>3
    <3>5. CASE i # n /\ j # n
      BY <3>2, <3>5, <2>2
    <3> QED BY <3>3, <3>4, <3>5
  <2>8. ASSUME Shaped(b)
        PROVE  Shaped(t)
    BY <2>2, <2>3, <2>4, <2>8 DEF n, Shaped
  <2> QED BY <2>4, <2>5, <2>6, <2>7, <2>8
<1>2. CASE ~merge
  <2> DEFINE e == [kind |-> "later", prompts |-> <<p>>]
             t == Append(b, e)
  <2>1. /\ <<p>> \in Seq(Prompt) /\ ToSet(<<p>>) = {p} /\ <<p>> # <<>>
        /\ "later" \in Kind
    BY DEF ToSet, Kind
  <2>2. AppendLater(b, p) = t
    BY <1>2 DEF AppendLater
  <2>3. /\ t \in Seq(Batch)
        /\ PromptsOf(t) = PromptsOf(b) \cup {p}
        /\ Disjoint(b) /\ p \notin PromptsOf(b) => Disjoint(t)
    <3>1. /\ t \in Seq(Batch)
          /\ PromptsOf(t) = PromptsOf(b) \cup ToSet(<<p>>)
          /\ Disjoint(b) /\ PromptsOf(b) \cap ToSet(<<p>>) = {} => Disjoint(t)
      BY <2>1, AppendBatch
    <3> HIDE DEF t
    <3> QED BY <3>1, <2>1
  <2>4. ASSUME Shaped(b)
        PROVE  Shaped(t)
    <3>1. e \in Batch /\ e.prompts = <<p>>
      BY <2>1 DEF Batch
    <3>2. /\ Len(t) = n + 1
          /\ DOMAIN t = 1 .. n + 1
          /\ \A i \in 1 .. n : t[i] = b[i]
          /\ t[n + 1] = e
      BY <1>0, <3>1
    <3> HIDE DEF t, e
    <3>3. \A i \in 1 .. n : ~IsLater(b[i])
      BY <1>0, <1>2, <2>4 DEF Shaped
    <3> SUFFICES ASSUME NEW i \in DOMAIN t
                 PROVE  t[i].prompts # <<>> /\ (IsLater(t[i]) => i = Len(t))
      BY DEF Shaped
    <3>4. CASE i = n + 1
      BY <2>1, <3>1, <3>2, <3>4
    <3>5. CASE i # n + 1
      <4>1. i \in 1 .. n
        BY <1>0, <3>2, <3>5
      <4> QED BY <1>0, <2>4, <3>2, <3>3, <4>1 DEF Shaped
    <3> QED BY <3>4, <3>5
  <2> QED BY <2>2, <2>3, <2>4
<1> QED BY <1>1, <1>2

\* Taking the first batch removes its prompts and no others.
LEMMA TakeLemma ==
  ASSUME NEW b \in Seq(Batch), b # <<>>
  PROVE  /\ Head(b) \in Batch /\ Tail(b) \in Seq(Batch)
         /\ PromptsOf(b) = ToSet(Head(b).prompts) \cup PromptsOf(Tail(b))
         /\ Disjoint(b) => /\ Disjoint(Tail(b))
                           /\ ToSet(Head(b).prompts) \cap PromptsOf(Tail(b)) = {}
         /\ Shaped(b) => Shaped(Tail(b))
<1> DEFINE h == Head(b)
           t == Tail(b)
<1>1. /\ h \in Batch /\ h = b[1] /\ 1 \in DOMAIN b
      /\ t \in Seq(Batch) /\ Len(b) = Len(t) + 1 /\ Len(t) \in Nat
      /\ DOMAIN t = 1 .. Len(t) /\ DOMAIN b = 1 .. Len(b)
      /\ \A i \in DOMAIN t : t[i] = b[i + 1]
  BY HeadTailProperties, LenProperties, EmptySeq
<1> HIDE DEF h, t
<1>2. /\ \A i \in DOMAIN t : i + 1 \in DOMAIN b /\ i + 1 # 1
      /\ \A j \in DOMAIN b : j # 1 => j - 1 \in DOMAIN t /\ t[j - 1] = b[j]
      /\ \A i, j \in DOMAIN t : i # j => i + 1 # j + 1
      /\ \A i \in DOMAIN t : i + 1 = Len(b) => i = Len(t)
  BY <1>1
<1>3. PromptsOf(b) = ToSet(h.prompts) \cup PromptsOf(t)
  <2>1. {ToSet(b[i].prompts) : i \in DOMAIN b}
          = {ToSet(h.prompts)} \cup {ToSet(t[i].prompts) : i \in DOMAIN t}
    <3>1. ASSUME NEW j \in DOMAIN b
          PROVE  \/ ToSet(b[j].prompts) = ToSet(h.prompts)
                 \/ \E i \in DOMAIN t : ToSet(b[j].prompts) = ToSet(t[i].prompts)
      BY <1>1, <1>2
    <3>2. \A i \in DOMAIN t : \E j \in DOMAIN b : ToSet(b[j].prompts) = ToSet(t[i].prompts)
      BY <1>1, <1>2
    <3>3. \E j \in DOMAIN b : ToSet(b[j].prompts) = ToSet(h.prompts)
      BY <1>1
    <3> QED BY <3>1, <3>2, <3>3
  <2> QED BY <2>1 DEF PromptsOf
<1>4. ASSUME Disjoint(b)
      PROVE  Disjoint(t) /\ ToSet(h.prompts) \cap PromptsOf(t) = {}
  <2>1. \A i \in DOMAIN t : ToSet(h.prompts) \cap ToSet(t[i].prompts) = {}
    BY <1>1, <1>2, <1>4 DEF Disjoint
  <2>2. ToSet(h.prompts) \cap PromptsOf(t) = {}
    BY <2>1 DEF PromptsOf
  <2>3. Disjoint(t)
    <3> SUFFICES ASSUME NEW i \in DOMAIN t, NEW j \in DOMAIN t, i # j
                 PROVE  ToSet(t[i].prompts) \cap ToSet(t[j].prompts) = {}
      BY DEF Disjoint
    <3>1. i + 1 \in DOMAIN b /\ j + 1 \in DOMAIN b /\ i + 1 # j + 1
      BY <1>2
    <3>2. t[i] = b[i + 1] /\ t[j] = b[j + 1]
      BY <1>1
    <3> QED BY <1>4, <3>1, <3>2 DEF Disjoint
  <2> QED BY <2>2, <2>3
<1>5. ASSUME Shaped(b)
      PROVE  Shaped(t)
  BY <1>1, <1>2, <1>5 DEF Shaped
<1> QED BY <1>1, <1>3, <1>4, <1>5 DEF h, t

-----------------------------------------------------------------------------
(* Steps.                                                                   *)

\* An emitted queue state is a queue state.
LEMMA EmitLemma ==
  ASSUME DOMAIN view = {"next_prompts", "later_prompts"}, EmitIfChanged
  PROVE  DOMAIN view' = {"next_prompts", "later_prompts"}
  BY DEF EmitIfChanged, QueueState

\* The initial state.
LEMMA InitIInv == Init => IInv
<1> SUFFICES ASSUME Init PROVE IInv
  OBVIOUS
<1>1. TypeOK
  BY EmptySeq DEF Init, TypeOK, Phase, EmptyQueueState
<1>2. Conservation
  BY DEF Init, Conservation, AcceptedPrompts, SubmittedPrompts, PromptsOf, ToSet, Disjoint
<1>3. QueueShape /\ BoundaryDiscipline
  BY DEF Init, QueueShape, Shaped, BoundaryDiscipline, ToolPhase, Cleanup
<1> QED BY <1>1, <1>2, <1>3 DEF IInv

\* A step that moves no prompt has only the control state to account for.
LEMMA ControlStep ==
  ASSUME IInv, UNCHANGED <<steers, followUps, accepted, submitted>>,
         TypeOK', BoundaryDiscipline'
  PROVE  IInv'
<1>1. Conservation' /\ QueueShape'
  BY DEF IInv, Conservation, QueueShape, AcceptedPrompts, SubmittedPrompts
<1> QED BY <1>1 DEF IInv

\* run.enqueue puts a new prompt in one place.
LEMMA EnqueueStep ==
  ASSUME IInv, NEW p \in Prompt, NEW mode \in Kind, Enqueue(p, mode)
  PROVE  IInv'
<1> DEFINE entry == [mode |-> mode, prompt |-> p]
<1> USE DEF IInv
<1>1. /\ accepted' \in Seq([mode : Kind, prompt : Prompt])
      /\ AcceptedPrompts' = AcceptedPrompts \cup {p}
  <2>1. entry \in [mode : Kind, prompt : Prompt] /\ entry.prompt = p
    OBVIOUS
  <2>2. accepted \in Seq([mode : Kind, prompt : Prompt]) /\ accepted' = Append(accepted, entry)
    BY DEF TypeOK, Enqueue
  <2> HIDE DEF entry
  <2>3. /\ accepted' \in Seq([mode : Kind, prompt : Prompt])
        /\ DOMAIN accepted' = DOMAIN accepted \cup {Len(accepted) + 1}
        /\ \A i \in DOMAIN accepted : accepted'[i] = accepted[i]
        /\ accepted'[Len(accepted) + 1] = entry
    BY <2>1, <2>2
  <2> QED BY <2>1, <2>3 DEF AcceptedPrompts
<1>2. p \notin ToSet(steers) /\ p \notin PromptsOf(followUps) /\ p \notin SubmittedPrompts
  BY DEF Enqueue, Conservation
<1>3. UNCHANGED <<phase, active, boundary, cancelling, attached, submitted, reached,
                  interrupted, outcome>> /\ SubmittedPrompts' = SubmittedPrompts
  BY DEF Enqueue, SubmittedPrompts
<1>4. DOMAIN view' = {"next_prompts", "later_prompts"}
  BY EmitLemma DEF Enqueue, TypeOK
<1>5. BoundaryDiscipline'
  BY <1>3 DEF BoundaryDiscipline
<1>6. CASE mode = "next"
  <2>1. steers' = Append(steers, p) /\ followUps' = followUps
    BY <1>6 DEF Enqueue
  <2>2. steers' \in Seq(Prompt) /\ ToSet(steers') = ToSet(steers) \cup {p}
    BY <2>1, ToSetAppend DEF TypeOK
  <2>3. TypeOK'
    BY <1>1, <1>3, <1>4, <2>1, <2>2 DEF TypeOK
  <2>4. Conservation'
    BY <1>1, <1>2, <1>3, <2>1, <2>2 DEF Conservation
  <2>5. QueueShape'
    BY <2>1 DEF QueueShape
  <2> QED BY <1>5, <2>3, <2>4, <2>5
<1>7. CASE mode # "next"
  <2>1. followUps' = AppendLater(followUps, p) /\ steers' = steers
    BY <1>7 DEF Enqueue
  <2>2. /\ followUps' \in Seq(Batch)
        /\ PromptsOf(followUps') = PromptsOf(followUps) \cup {p}
        /\ Disjoint(followUps')
    BY <1>2, <2>1, AppendLaterLemma DEF TypeOK, Conservation
  <2>3. TypeOK'
    BY <1>1, <1>3, <1>4, <2>1, <2>2 DEF TypeOK
  <2>4. Conservation'
    BY <1>1, <1>2, <1>3, <2>1, <2>2 DEF Conservation
  <2>5. QueueShape'
    BY <2>1, AppendLaterLemma DEF QueueShape, TypeOK
  <2> QED BY <1>5, <2>3, <2>4, <2>5
<1> QED BY <1>6, <1>7

\* run.interrupt moves steers at most into a batch.
LEMMA InterruptStep ==
  ASSUME IInv, NEW promote \in BOOLEAN, Interrupt(promote)
  PROVE  IInv'
<1> USE DEF IInv
<1>1. /\ UNCHANGED <<phase, active, boundary, attached, accepted, submitted, reached, outcome>>
      /\ active /\ cancelling' = TRUE /\ interrupted' = TRUE
      /\ SubmittedPrompts' = SubmittedPrompts /\ AcceptedPrompts' = AcceptedPrompts
  BY DEF Interrupt, SubmittedPrompts, AcceptedPrompts
<1>2. DOMAIN view' = {"next_prompts", "later_prompts"}
  BY EmitLemma DEF Interrupt, TypeOK
<1>3. BoundaryDiscipline'
  BY <1>1 DEF BoundaryDiscipline
<1>4. CASE promote
  <2>1. steers' = <<>> /\ followUps' = Prepend(followUps, steers) /\ ToSet(<<>>) = {}
    BY <1>4 DEF Interrupt, ToSet
  <2>2. steers \in Seq(Prompt) /\ followUps \in Seq(Batch) /\ <<>> \in Seq(Prompt)
    BY DEF TypeOK
  <2>3. /\ followUps' \in Seq(Batch)
        /\ PromptsOf(followUps') = ToSet(steers) \cup PromptsOf(followUps)
        /\ Disjoint(followUps')
    BY <2>1, <2>2, PrependLemma DEF Conservation
  <2>4. TypeOK'
    BY <1>1, <1>2, <2>1, <2>2, <2>3 DEF TypeOK
  <2>5. Conservation'
    BY <1>1, <2>1, <2>3 DEF Conservation
  <2>6. QueueShape'
    BY <2>1, <2>2, PrependLemma DEF QueueShape
  <2> QED BY <1>3, <2>4, <2>5, <2>6
<1>5. CASE ~promote
  <2>1. UNCHANGED <<steers, followUps>>
    BY <1>5 DEF Interrupt
  <2>2. TypeOK'
    BY <1>1, <1>2, <2>1 DEF TypeOK
  <2> QED BY <1>1, <1>3, <2>1, <2>2, ControlStep
<1> QED BY <1>4, <1>5

\* Submitting at the boundary moves the steers to the submitted batches.
LEMMA SubmitStep ==
  ASSUME IInv, SubmitSteers, phase' \in {"submitted", "cleanupRestart"},
         phase = "tools"
  PROVE  IInv'
<1> USE DEF IInv
<1>1. /\ steers' = <<>> /\ followUps' = followUps /\ attached' = steers
      /\ UNCHANGED <<active, boundary, cancelling, accepted, reached, interrupted, outcome>>
      /\ AcceptedPrompts' = AcceptedPrompts
  BY DEF SubmitSteers, AcceptedPrompts
<1>2. /\ steers \in Seq(Prompt) /\ submitted \in Seq(Batch) /\ <<>> \in Seq(Prompt)
      /\ ToSet(<<>>) = {} /\ "next" \in Kind
  BY DEF TypeOK, ToSet, Kind
<1>3. /\ submitted' \in Seq(Batch)
      /\ SubmittedPrompts' = SubmittedPrompts \cup ToSet(steers)
      /\ Disjoint(submitted')
  <2>1. CASE steers = <<>>
    BY <1>2, <2>1 DEF SubmitSteers, SubmittedPrompts, Conservation
  <2>2. CASE steers # <<>>
    <3>1. submitted' = Append(submitted, [kind |-> "next", prompts |-> steers])
      BY <2>2 DEF SubmitSteers
    <3>2. SubmittedPrompts \cap ToSet(steers) = {} /\ Disjoint(submitted)
      BY DEF Conservation
    <3> QED BY <1>2, <3>1, <3>2, AppendBatch DEF SubmittedPrompts
  <2> QED BY <2>1, <2>2
<1>4. TypeOK'
  <2>1. DOMAIN view' = {"next_prompts", "later_prompts"}
    BY EmitLemma DEF SubmitSteers, TypeOK
  <2> QED BY <1>1, <1>2, <1>3, <2>1 DEF TypeOK, Phase, ToolPhase, Cleanup
<1>5. Conservation'
  BY <1>1, <1>2, <1>3 DEF Conservation
<1>6. QueueShape' /\ BoundaryDiscipline'
  BY <1>1 DEF QueueShape, BoundaryDiscipline, ToolPhase, Cleanup
<1> QED BY <1>4, <1>5, <1>6

\* Between two streamed runs the first waiting batch is submitted.
LEMMA TakeBatchStep ==
  ASSUME IInv, TakeBatch
  PROVE  IInv'
<1> USE DEF IInv
<1> DEFINE waiting == Prepend(followUps, steers)
           batch == Head(waiting)
<1>1. /\ steers' = <<>> /\ followUps' = Tail(waiting) /\ waiting # <<>>
      /\ attached' = batch.prompts
      /\ submitted' = Append(submitted, [kind |-> "later", prompts |-> batch.prompts])
      /\ UNCHANGED <<active, boundary, cancelling, accepted, reached, outcome>>
      /\ interrupted' = FALSE
      /\ phase = "unwind" /\ phase' = "request"
      /\ AcceptedPrompts' = AcceptedPrompts
  BY DEF TakeBatch, Moves, AcceptedPrompts
<1>2. /\ steers \in Seq(Prompt) /\ followUps \in Seq(Batch) /\ submitted \in Seq(Batch)
      /\ <<>> \in Seq(Prompt) /\ ToSet(<<>>) = {} /\ "later" \in Kind
  BY DEF TypeOK, ToSet, Kind
<1>3. /\ waiting \in Seq(Batch)
      /\ PromptsOf(waiting) = ToSet(steers) \cup PromptsOf(followUps)
      /\ Disjoint(waiting)
  BY <1>2, PrependLemma DEF Conservation
<1>4. Shaped(waiting)
  BY <1>2, PrependLemma DEF QueueShape
<1> HIDE DEF waiting
<1>5. /\ batch \in Batch /\ followUps' \in Seq(Batch)
      /\ PromptsOf(waiting) = ToSet(batch.prompts) \cup PromptsOf(followUps')
      /\ Disjoint(followUps')
      /\ ToSet(batch.prompts) \cap PromptsOf(followUps') = {}
      /\ Shaped(followUps')
  <2>1. followUps' = Tail(waiting) /\ waiting # <<>> /\ waiting \in Seq(Batch)
    BY <1>1, <1>3
  <2>2. batch \in Batch /\ Tail(waiting) \in Seq(Batch)
    BY <2>1, TakeLemma
  <2>3. PromptsOf(waiting) = ToSet(batch.prompts) \cup PromptsOf(Tail(waiting))
    BY <2>1, TakeLemma
  <2>4. /\ Disjoint(Tail(waiting))
        /\ ToSet(batch.prompts) \cap PromptsOf(Tail(waiting)) = {}
    BY <1>3, <2>1, TakeLemma
  <2>5. Shaped(Tail(waiting))
    BY <1>4, <2>1, TakeLemma
  <2> HIDE DEF batch
  <2> QED BY <2>1, <2>2, <2>3, <2>4, <2>5
<1>6. batch.prompts \in Seq(Prompt)
  BY <1>5 DEF Batch
<1> HIDE DEF batch
<1>7. /\ submitted' \in Seq(Batch)
      /\ SubmittedPrompts' = SubmittedPrompts \cup ToSet(batch.prompts)
      /\ Disjoint(submitted')
  <2>1. SubmittedPrompts \cap ToSet(batch.prompts) = {} /\ Disjoint(submitted)
    BY <1>3, <1>5 DEF Conservation
  <2> QED BY <1>1, <1>2, <1>6, <2>1, AppendBatch DEF SubmittedPrompts
<1>8. TypeOK'
  <2>1. DOMAIN view' = {"next_prompts", "later_prompts"}
    BY EmitLemma DEF TakeBatch, TypeOK
  <2> QED BY <1>1, <1>2, <1>5, <1>6, <1>7, <2>1 DEF TypeOK, Phase
<1>9. Conservation'
  <2>1. (ToSet(batch.prompts) \cup PromptsOf(followUps')) \cap SubmittedPrompts = {}
    BY <1>3, <1>5 DEF Conservation
  <2>2. AcceptedPrompts = ToSet(batch.prompts) \cup PromptsOf(followUps') \cup SubmittedPrompts
    BY <1>3, <1>5 DEF Conservation
  <2> QED BY <1>1, <1>2, <1>5, <1>7, <2>1, <2>2 DEF Conservation
<1>10. QueueShape' /\ BoundaryDiscipline'
  BY <1>1, <1>5 DEF QueueShape, BoundaryDiscipline, ToolPhase, Cleanup
<1> QED BY <1>8, <1>9, <1>10

\* The other steps of the run task and the start of a run move no prompt.
LEMMA QuietStep ==
  ASSUME IInv,
         \/ RunStart \/ SendRequest \/ CompactInRun \/ BeginTools \/ EndTools
         \/ CleanupDone \/ CancelDelivered \/ EndTurn \/ Respond \/ ErrorReturn
  PROVE  IInv'
<1> USE DEF IInv, Moves, Phase, ToolPhase, Cleanup, queues, history
<1>0. <<>> \in Seq(Prompt) /\ ToSet(attached) \in SUBSET Prompt
  BY DEF TypeOK, ToSet
<1>1. CASE RunStart
  <2>1. DOMAIN view' = {"next_prompts", "later_prompts"}
    BY <1>1 DEF RunStart, TypeOK, QueueState
  <2>2. TypeOK' /\ BoundaryDiscipline'
    BY <1>1, <2>1 DEF RunStart, TypeOK, BoundaryDiscipline
  <2> QED BY <1>1, <2>2, ControlStep DEF RunStart
<1>2. CASE SendRequest
  <2>1. TypeOK' /\ BoundaryDiscipline'
    BY <1>0, <1>2 DEF SendRequest, TypeOK, BoundaryDiscipline
  <2> QED BY <1>2, <2>1, ControlStep DEF SendRequest
<1>3. CASE CompactInRun
  <2>1. TypeOK' /\ BoundaryDiscipline'
    BY <1>0, <1>3 DEF CompactInRun, TypeOK, BoundaryDiscipline
  <2> QED BY <1>3, <2>1, ControlStep DEF CompactInRun
<1>4. CASE BeginTools
  <2>1. TypeOK' /\ BoundaryDiscipline'
    BY <1>4 DEF BeginTools, TypeOK, BoundaryDiscipline
  <2> QED BY <1>4, <2>1, ControlStep DEF BeginTools
<1>5. CASE EndTools
  <2>1. TypeOK' /\ BoundaryDiscipline'
    BY <1>5 DEF EndTools, TypeOK, BoundaryDiscipline
  <2> QED BY <1>5, <2>1, ControlStep DEF EndTools
<1>6. CASE CleanupDone
  <2>1. TypeOK' /\ BoundaryDiscipline'
    BY <1>0, <1>6 DEF CleanupDone, TypeOK, BoundaryDiscipline
  <2> QED BY <1>6, <2>1, ControlStep DEF CleanupDone
<1>7. CASE CancelDelivered
  <2>1. TypeOK' /\ BoundaryDiscipline'
    BY <1>0, <1>7 DEF CancelDelivered, TypeOK, BoundaryDiscipline
  <2> QED BY <1>7, <2>1, ControlStep DEF CancelDelivered
<1>8. CASE EndTurn
  <2>1. TypeOK' /\ BoundaryDiscipline'
    BY <1>8 DEF EndTurn, TypeOK, BoundaryDiscipline
  <2> QED BY <1>8, <2>1, ControlStep DEF EndTurn
<1>9. ASSUME Respond \/ ErrorReturn
      PROVE  IInv'
  <2>1. DOMAIN view' = {"next_prompts", "later_prompts"}
    BY <1>9 DEF Respond, ErrorReturn, Deactivate, TypeOK, EmptyQueueState
  <2>2. /\ phase' = "idle" /\ active' = FALSE /\ boundary' = FALSE /\ ~cancelling
        /\ UNCHANGED <<cancelling, steers, followUps, accepted, submitted, reached,
                       interrupted>>
        /\ attached' \in {attached, <<>>}
        /\ outcome' \in {"response", "error"}
    <3>1. CASE Respond
      BY <3>1 DEF Respond, Deactivate
    <3>2. CASE ErrorReturn
      <4>1. ~cancelling /\ phase' = "idle"
        BY <3>2 DEF ErrorReturn
      <4> QED BY <3>2, <4>1 DEF ErrorReturn, Deactivate
    <3> QED BY <1>9, <3>1, <3>2
  <2>3. TypeOK'
    BY <1>0, <2>1, <2>2 DEF TypeOK
  <2>4. BoundaryDiscipline'
    BY <2>2 DEF BoundaryDiscipline
  <2> QED BY <2>2, <2>3, <2>4, ControlStep
<1> QED BY <1>1, <1>2, <1>3, <1>4, <1>5, <1>6, <1>7, <1>8, <1>9

\* Every step preserves the inductive invariant.
LEMMA StepIInv == IInv /\ [Next]_vars => IInv'
<1> SUFFICES ASSUME IInv, [Next]_vars PROVE IInv'
  OBVIOUS
<1>1. CASE RunStart
  BY <1>1, QuietStep
<1>2. ASSUME NEW p \in Prompt, NEW mode \in Kind, Enqueue(p, mode)
      PROVE  IInv'
  BY <1>2, EnqueueStep
<1>3. ASSUME NEW promote \in BOOLEAN, Interrupt(promote)
      PROVE  IInv'
  BY <1>3, InterruptStep
<1>4. CASE RunTask
  <2>1. CASE ToolsDone \/ ToolsDoneWithRetry
    BY <2>1, SubmitStep DEF ToolsDone, ToolsDoneWithRetry, Moves
  <2>2. CASE TakeBatch
    BY <2>2, TakeBatchStep
  <2> QED BY <1>4, <2>1, <2>2, QuietStep DEF RunTask
<1>5. CASE UNCHANGED vars
  <2>1. UNCHANGED <<phase, active, boundary, cancelling, steers, followUps, view,
                    attached, accepted, submitted, reached, interrupted, outcome>>
    BY <1>5 DEF vars, queues, history
  <2>2. TypeOK' /\ BoundaryDiscipline'
    BY <2>1 DEF IInv, TypeOK, BoundaryDiscipline
  <2> QED BY <2>1, <2>2, ControlStep
<1> QED BY <1>1, <1>2, <1>3, <1>4, <1>5 DEF Next

-----------------------------------------------------------------------------
(* What the client was told, and what a response leaves.                    *)

\* Nothing waits once run.start was answered with a response; stronger than
\* DrainedOnResponse in that no run is active then either, so that no
\* enqueue is accepted before the next run.start.
Drained == outcome = "response" => ~active /\ steers = <<>> /\ followUps = <<>>

Told == IInv /\ ViewFaithful /\ Drained

\* An operation that compares the queue state before and after keeps the
\* client's view true.
LEMMA EmitKeepsView ==
  ASSUME view = QueueState(steers, followUps), EmitIfChanged
  PROVE  view' = QueueState(steers', followUps')
  BY DEF EmitIfChanged

\* Downgrading leaves nothing only if nothing waited.
LEMMA PrependEmpty ==
  ASSUME NEW b \in Seq(Batch), NEW s \in Seq(Prompt), Prepend(b, s) = <<>>
  PROVE  b = <<>> /\ s = <<>>
<1>1. CASE s = <<>>
  BY <1>1 DEF Prepend
<1>2. CASE s # <<>>
  <2> DEFINE e == [kind |-> "next", prompts |-> s]
  <2>1. e \in Batch
    BY DEF Batch, Kind
  <2>2. /\ <<e>> \in Seq(Batch) /\ Len(<<e>>) = 1
        /\ Prepend(b, s) = <<e>> \o b
    BY <1>2, <2>1 DEF Prepend
  <2>3. Len(Prepend(b, s)) = 1 + Len(b) /\ Len(b) \in Nat
    BY <2>2, ConcatProperties
  <2>4. Len(<<>>) = 0
    OBVIOUS
  <2> QED BY <2>3, <2>4
<1> QED BY <1>1, <1>2

\* A step outside the queues changes neither them nor what was told.
LEMMA SilentStep ==
  ASSUME Told, UNCHANGED <<active, steers, followUps, view>>,
         outcome' = outcome
  PROVE  ViewFaithful' /\ Drained'
  BY DEF Told, ViewFaithful, Drained

\* A queue operation of an active run.
LEMMA QueueStep ==
  ASSUME Told, active, active' = active, outcome' = outcome, EmitIfChanged
  PROVE  ViewFaithful' /\ Drained'
<1>1. view = QueueState(steers, followUps)
  BY DEF Told, ViewFaithful
<1>2. view' = QueueState(steers', followUps')
  BY <1>1, EmitKeepsView
<1> QED BY <1>2 DEF Told, ViewFaithful, Drained

\* run.start begins and ends by telling the client what the queue is.
LEMMA EdgeStep ==
  ASSUME Told, RunStart \/ Respond \/ ErrorReturn
  PROVE  ViewFaithful' /\ Drained'
<1>1. CASE RunStart
  <2>1. phase = "idle" /\ ~active /\ active' /\ outcome' = "none"
        /\ UNCHANGED <<steers, followUps>>
    BY <1>1 DEF RunStart, Moves, Told, IInv, BoundaryDiscipline
  <2>2. view = EmptyQueueState
    BY <2>1 DEF Told, ViewFaithful
  <2>3. view' = QueueState(steers, followUps)
    BY <1>1, <2>2 DEF RunStart
  <2> QED BY <2>1, <2>3 DEF ViewFaithful, Drained
<1>2. ASSUME Deactivate, active
      PROVE  ~active' /\ view' = EmptyQueueState
             /\ steers' = steers /\ followUps' = followUps
  BY <1>2 DEF Deactivate, Told, ViewFaithful
<1>3. CASE Respond
  <2>1. active
    BY <1>3 DEF Respond, Moves, Told, IInv, BoundaryDiscipline
  <2>2. steers = <<>> /\ followUps = <<>>
    BY <1>3, PrependEmpty DEF Respond, Told, IInv, TypeOK
  <2>3. Deactivate
    BY <1>3 DEF Respond
  <2> QED BY <1>2, <2>1, <2>2, <2>3 DEF ViewFaithful, Drained
<1>4. CASE ErrorReturn
  <2>1. active /\ Deactivate /\ outcome' = "error"
    BY <1>4 DEF ErrorReturn, Moves, Told, IInv, BoundaryDiscipline
  <2> QED BY <1>2, <2>1 DEF ViewFaithful, Drained
<1> QED BY <1>1, <1>3, <1>4

\* The initial state: nothing told, nothing answered.
LEMMA InitTold == Init => Told
<1> SUFFICES ASSUME Init PROVE Told
  OBVIOUS
<1>1. IInv
  BY InitIInv
<1>2. ViewFaithful /\ Drained
  BY DEF Init, ViewFaithful, Drained
<1> QED BY <1>1, <1>2 DEF Told

\* Every step keeps it: the run task's steps outside the queues are silent,
\* the others are queue operations or the edges of run.start.
LEMMA StepTold == Told /\ [Next]_vars => Told'
<1> SUFFICES ASSUME Told, [Next]_vars PROVE Told'
  OBVIOUS
<1>1. IInv'
  BY StepIInv DEF Told
<1> SUFFICES ViewFaithful' /\ Drained'
  BY <1>1 DEF Told
<1>2. active <=> phase # "idle"
  BY DEF Told, IInv, BoundaryDiscipline
<1>3. ASSUME NEW p \in Prompt, NEW mode \in Kind, Enqueue(p, mode)
      PROVE  ViewFaithful' /\ Drained'
  BY <1>3, QueueStep DEF Enqueue
<1>4. ASSUME NEW promote \in BOOLEAN, Interrupt(promote)
      PROVE  ViewFaithful' /\ Drained'
  BY <1>4, QueueStep DEF Interrupt
<1>5. CASE ToolsDone \/ ToolsDoneWithRetry
  BY <1>2, <1>5, QueueStep DEF ToolsDone, ToolsDoneWithRetry, SubmitSteers, Moves
<1>6. CASE TakeBatch
  BY <1>2, <1>6, QueueStep DEF TakeBatch, Moves
<1>7. CASE RunStart \/ Respond \/ ErrorReturn
  BY <1>7, EdgeStep
<1>8. CASE \/ SendRequest \/ CompactInRun \/ BeginTools \/ EndTools
           \/ CleanupDone \/ CancelDelivered \/ EndTurn
  <2>1. UNCHANGED <<active, steers, followUps, view>> /\ outcome' = outcome
    BY <1>8 DEF SendRequest, CompactInRun, BeginTools, EndTools, CleanupDone,
                CancelDelivered, EndTurn, queues, history
  <2> QED BY <2>1, SilentStep
<1>9. CASE UNCHANGED vars
  BY <1>9, SilentStep DEF vars, queues, history
<1> QED BY <1>3, <1>4, <1>5, <1>6, <1>7, <1>8, <1>9 DEF Next, RunTask

\* The four parts of the invariant hold in every reachable state.
THEOREM Invariance == Spec => []IInv
<1> QED BY InitIInv, StepIInv, PTL DEF Spec

\* Type correctness of the session's control state.
THEOREM TypeCorrect == Spec => []TypeOK
<1>1. IInv => TypeOK
  BY DEF IInv
<1> QED BY Invariance, <1>1, PTL

\* For every set of prompts: no accepted prompt is lost or duplicated by the
\* queue operations of rpc/state.py and the drain loop of run.start.
THEOREM PromptsConserved == Spec => []Conservation
<1>1. IInv => Conservation
  BY DEF IInv
<1> QED BY Invariance, <1>1, PTL

\* Promoted and downgraded prompts precede the single batch of later prompts.
THEOREM QueueShaped == Spec => []QueueShape
<1>1. IInv => QueueShape
  BY DEF IInv
<1> QED BY Invariance, <1>1, PTL

\* The steer boundary is open exactly during tool phases.
THEOREM BoundaryKept == Spec => []BoundaryDiscipline
<1>1. IInv => BoundaryDiscipline
  BY DEF IInv
<1> QED BY Invariance, <1>1, PTL

\* For every set of prompts: the batches keep their order, the boundary is
\* open exactly during tool phases, the client's preview is the queue of the
\* active run, and a response leaves nothing waiting.
THEOREM QueuesDisciplined == Spec => []QueueDiscipline
<1>1. Told => QueueDiscipline
  BY DEF Told, IInv, QueueDiscipline, Drained, DrainedOnResponse
<1> QED BY InitTold, StepTold, <1>1, PTL DEF Spec
-----------------------------------------------------------------------------
(* The queue is an inbox.                                                   *)

\* No prompt is twice in the steers, or in a batch.
Distinct(s) == \A i, j \in DOMAIN s : i # j => s[i] # s[j]
AllDistinct(batches) == \A i \in DOMAIN batches : Distinct(batches[i].prompts)
OnceEach == Distinct(steers) /\ AllDistinct(followUps)

\* The groups in which the batches deliver their prompts.
Groups(batches) == [i \in DOMAIN batches |-> batches[i].prompts]

\* A sequence without repetition is one of the orders of its set.
LEMMA OrderOf ==
  ASSUME NEW s \in Seq(Prompt), Distinct(s)
  PROVE  s \in SetToSeqs(ToSet(s))
<1> DEFINE n == Len(s)
           S == ToSet(s)
<1>1. n \in Nat /\ DOMAIN s = 1..n /\ s \in [1..n -> S]
  <2>1. n \in Nat /\ DOMAIN s = 1..n /\ s \in [1..n -> Prompt]
    BY LenProperties
  <2> QED BY <2>1 DEF ToSet
<1>2. s \in Bijection(1..n, S)
  BY <1>1 DEF Bijection, Injection, Surjection, IsInjective, Distinct, ToSet
<1>3. IsFiniteSet(1..n) /\ Cardinality(1..n) = n
  BY <1>1, FS_Interval
<1>4. Cardinality(S) = n
  BY <1>2, <1>3, FS_Bijection DEF ExistsBijection
<1> HIDE DEF S, n
<1>5. s \in {f \in [1..n -> S] : \A i, j \in 1..n : i # j => f[i] # f[j]}
  BY <1>1 DEF Distinct
<1> QED BY <1>4, <1>5 DEF SetToSeqs, S

\* One more batch is one more group.
LEMMA GroupsAppend ==
  ASSUME NEW b \in Seq(Batch), NEW e \in Batch
  PROVE  Groups(Append(b, e)) = Append(Groups(b), e.prompts)
<1> DEFINE t == Append(b, e)
           g == Groups(b)
<1>1. /\ t \in Seq(Batch) /\ Len(t) = Len(b) + 1 /\ \A i \in 1..Len(b) : t[i] = b[i]
      /\ t[Len(b) + 1] = e /\ Len(b) \in Nat /\ DOMAIN b = 1..Len(b) /\ DOMAIN t = 1..(Len(b) + 1)
  BY AppendProperties, LenProperties
<1>2. g \in Seq(Seq(Prompt)) /\ Len(g) = Len(b) /\ \A i \in 1..Len(b) : g[i] = b[i].prompts
  <2>1. \A i \in 1..Len(b) : b[i].prompts \in Seq(Prompt)
    <3>1. \A i \in 1..Len(b) : b[i] \in Batch
      BY <1>1
    <3> QED BY <3>1 DEF Batch
  <2>2. g \in [1..Len(b) -> Seq(Prompt)]
    BY <1>1, <2>1 DEF Groups
  <2>3. g \in Seq(Seq(Prompt)) /\ Len(g) = Len(b)
    BY <1>1, <2>2, SeqDef
  <2> QED BY <1>1, <2>3 DEF Groups
<1>3. e.prompts \in Seq(Prompt)
  BY DEF Batch
<1> DEFINE a == Append(g, e.prompts)
<1>4. /\ a \in Seq(Seq(Prompt)) /\ Len(a) = Len(g) + 1 /\ \A i \in 1..Len(g) : a[i] = g[i]
      /\ a[Len(g) + 1] = e.prompts
  BY <1>2, <1>3, AppendProperties
<1>5. a \in [1..(Len(b) + 1) -> Seq(Prompt)]
  <2> HIDE DEF a, g
  <2> QED BY <1>1, <1>2, <1>4
<1>6. \A i \in 1..(Len(b) + 1) : a[i] = t[i].prompts
  <2> HIDE DEF a, g, t
  <2> SUFFICES ASSUME NEW i \in 1..(Len(b) + 1) PROVE a[i] = t[i].prompts
    OBVIOUS
  <2>1. CASE i = Len(b) + 1
    BY <1>1, <1>2, <1>4, <2>1
  <2>2. CASE i # Len(b) + 1
    <3>1. i \in 1..Len(b)
      BY <1>1, <2>2
    <3> QED BY <1>1, <1>2, <1>4, <3>1
  <2> QED BY <2>1, <2>2
<1> HIDE DEF a, t
<1>7. Groups(t) = a
  BY <1>1, <1>5, <1>6 DEF Groups
<1> QED BY <1>7 DEF a, t, g

\* Where the batches of a queue are once another one is put in front.
LEMMA PrependIs ==
  ASSUME NEW b \in Seq(Batch), NEW s \in Seq(Prompt), s # <<>>
  PROVE  LET t == Prepend(b, s) IN
         /\ t \in Seq(Batch) /\ Len(t) = Len(b) + 1 /\ DOMAIN t = 1..(Len(b) + 1)
         /\ t[1].kind = "next" /\ t[1].prompts = s
         /\ \A i \in DOMAIN b : i + 1 \in DOMAIN t /\ t[i + 1] = b[i]
         /\ \A i \in DOMAIN t : i # 1 => \E j \in DOMAIN b : i = j + 1
<1> DEFINE e == [kind |-> "next", prompts |-> s]
           t == <<e>> \o b
<1>1. e \in Batch
  BY DEF Batch, Kind
<1>2. /\ <<e>> \in Seq(Batch) /\ Len(<<e>>) = 1 /\ <<e>>[1] = e
  BY <1>1
<1> HIDE DEF e
<1>3. /\ t \in Seq(Batch) /\ Len(t) = 1 + Len(b)
      /\ \A i \in 1..(1 + Len(b)) : t[i] = IF i <= 1 THEN <<e>>[i] ELSE b[i - 1]
  BY <1>2, ConcatProperties
<1>4. /\ Len(b) \in Nat /\ DOMAIN b = 1..Len(b) /\ DOMAIN t = 1..Len(t)
  BY <1>3, LenProperties
<1>5. Prepend(b, s) = t
  BY DEF Prepend, e
<1> HIDE DEF t
<1>6. t[1] = e
  BY <1>2, <1>3, <1>4
<1>7. \A i \in DOMAIN b : i + 1 \in DOMAIN t /\ t[i + 1] = b[i]
  BY <1>3, <1>4
<1>8. \A i \in DOMAIN t : i # 1 => \E j \in DOMAIN b : i = j + 1
  <2> SUFFICES ASSUME NEW i \in DOMAIN t, i # 1 PROVE i - 1 \in DOMAIN b /\ i = (i - 1) + 1
    OBVIOUS
  <2> QED BY <1>3, <1>4
<1>9. e.kind = "next" /\ e.prompts = s
  BY DEF e
<1> QED BY <1>3, <1>4, <1>5, <1>6, <1>7, <1>8, <1>9

\* Putting the steers in front of the batches moves "next" prompts only.
LEMMA PrependMaps ==
  ASSUME NEW b \in Seq(Batch), NEW s \in Seq(Prompt)
  PROVE  /\ NextPrompts(Prepend(b, s)) = ToSet(s) \cup NextPrompts(b)
         /\ LaterPrompts(Prepend(b, s)) = LaterPrompts(b)
         /\ Distinct(s) /\ AllDistinct(b) => AllDistinct(Prepend(b, s))
<1>1. CASE s = <<>>
  BY <1>1 DEF Prepend, ToSet
<1>2. CASE s # <<>>
  <2> DEFINE t == Prepend(b, s)
  <2>1. /\ t \in Seq(Batch) /\ Len(t) = Len(b) + 1 /\ DOMAIN t = 1..(Len(b) + 1)
        /\ t[1].kind = "next" /\ t[1].prompts = s
        /\ \A i \in DOMAIN b : i + 1 \in DOMAIN t /\ t[i + 1] = b[i]
        /\ \A i \in DOMAIN t : i # 1 => \E j \in DOMAIN b : i = j + 1
    BY <1>2, PrependIs
  <2> HIDE DEF t
  <2>2. Len(b) \in Nat /\ DOMAIN b = 1..Len(b) /\ 1 \in DOMAIN t /\ ToSet(s) \subseteq Prompt
    BY <2>1, LenProperties DEF ToSet
  <2>3. NextPrompts(t) = ToSet(s) \cup NextPrompts(b)
    <3>1. \A p \in NextPrompts(t) : p \in ToSet(s) \/ p \in NextPrompts(b)
      BY <2>1 DEF NextPrompts, IsNext
    <3>2. \A p \in ToSet(s) : p \in NextPrompts(t)
      BY <2>1, <2>2 DEF NextPrompts, IsNext
    <3>3. \A p \in NextPrompts(b) : p \in NextPrompts(t)
      BY <2>1 DEF NextPrompts, IsNext
    <3> QED BY <3>1, <3>2, <3>3
  <2>4. LaterPrompts(t) = LaterPrompts(b)
    <3>1. CASE Len(b) = 0
      BY <2>1, <3>1 DEF LaterPrompts, IsLater
    <3>2. CASE Len(b) # 0
      <4>1. Len(b) \in DOMAIN b /\ t[Len(t)] = b[Len(b)] /\ Len(t) > 0 /\ Len(b) > 0
        BY <2>1, <2>2, <3>2
      <4> QED BY <4>1 DEF LaterPrompts
    <3> QED BY <3>1, <3>2
  <2>5. ASSUME Distinct(s), AllDistinct(b) PROVE AllDistinct(t)
    BY <2>1, <2>5 DEF AllDistinct
  <2> QED BY <2>3, <2>4, <2>5 DEF t
<1> QED BY <1>1, <1>2

\* A prompt a sequence did not hold leaves it without repetition.
LEMMA DistinctAppend ==
  ASSUME NEW s \in Seq(Prompt), NEW p \in Prompt, Distinct(s), p \notin ToSet(s)
  PROVE  Distinct(Append(s, p))
<1> DEFINE t == Append(s, p)
<1>1. /\ DOMAIN t = DOMAIN s \cup {Len(s) + 1} /\ Len(s) + 1 \notin DOMAIN s
      /\ \A i \in DOMAIN s : t[i] = s[i]
      /\ t[Len(s) + 1] = p
  OBVIOUS
<1>2. \A i \in DOMAIN s : s[i] # p
  BY DEF ToSet
<1> HIDE DEF t
<1>3. Distinct(t)
  BY <1>1, <1>2 DEF Distinct
<1> QED BY <1>3 DEF t

\* A "later" prompt is appended to the later prompts, and to nothing else.
LEMMA AppendLaterMaps ==
  ASSUME NEW b \in Seq(Batch), NEW p \in Prompt
  PROVE  /\ NextPrompts(AppendLater(b, p)) = NextPrompts(b)
         /\ LaterPrompts(AppendLater(b, p)) = Append(LaterPrompts(b), p)
         /\ AllDistinct(b) /\ p \notin PromptsOf(b) => AllDistinct(AppendLater(b, p))
<1> DEFINE n == Len(b)
           merge == n > 0 /\ IsLater(b[n])
           t == AppendLater(b, p)
<1>0. n \in Nat /\ DOMAIN b = 1 .. n
  OBVIOUS
<1>1. CASE merge
  <2>1. n \in DOMAIN b /\ b[n] \in Batch /\ b[n].prompts \in Seq(Prompt)
    <3>1. n \in DOMAIN b
      BY <1>0, <1>1
    <3>2. b[n] \in Batch
      BY <3>1
    <3> HIDE DEF n
    <3> QED BY <3>1, <3>2 DEF Batch
  <2>2. t = [b EXCEPT ![n].prompts = Append(@, p)]
    BY <1>1 DEF AppendLater
  <2> HIDE DEF t
  <2>3. /\ DOMAIN t = DOMAIN b
        /\ t[n] = [b[n] EXCEPT !.prompts = Append(b[n].prompts, p)]
        /\ \A i \in DOMAIN b : i # n => t[i] = b[i]
    BY <2>1, <2>2
  <2>4. t[n].kind = b[n].kind /\ t[n].prompts = Append(b[n].prompts, p)
    BY <2>1, <2>3 DEF Batch
  <2>5. Len(t) = n
    <3>1. t \in Seq(Batch)
      BY AppendLaterLemma DEF t
    <3> QED BY <1>0, <2>3, <3>1
  <2>6. b[n].kind = "later"
    BY <1>1 DEF IsLater
  <2>7. NextPrompts(t) = NextPrompts(b)
    <3>1. \A i \in DOMAIN b : t[i].kind = "next" => i # n
      BY <2>4, <2>6
    <3>2. \A i \in DOMAIN b : b[i].kind = "next" => i # n
      BY <2>6
    <3> HIDE DEF n
    <3> QED BY <2>3, <3>1, <3>2 DEF NextPrompts, IsNext
  <2>8. LaterPrompts(t) = Append(LaterPrompts(b), p)
    <3>1. LaterPrompts(t) = t[n].prompts
      BY <1>1, <2>4, <2>5, <2>6 DEF LaterPrompts, IsLater
    <3>2. LaterPrompts(b) = b[n].prompts
      BY <1>1 DEF LaterPrompts
    <3> QED BY <2>4, <3>1, <3>2
  <2>9. ASSUME AllDistinct(b), p \notin PromptsOf(b) PROVE AllDistinct(t)
    <3>1. Distinct(b[n].prompts) /\ p \notin ToSet(b[n].prompts)
      BY <2>1, <2>9 DEF AllDistinct, PromptsOf
    <3>2. Distinct(t[n].prompts)
      BY <2>1, <2>4, <3>1, DistinctAppend
    <3> HIDE DEF n
    <3> QED BY <2>3, <2>9, <3>2 DEF AllDistinct
  <2> QED BY <2>7, <2>8, <2>9 DEF t
<1>2. CASE ~merge
  <2> DEFINE e == [kind |-> "later", prompts |-> <<p>>]
  <2>1. e \in Batch /\ e.kind = "later" /\ e.prompts = <<p>>
    BY DEF Batch, Kind
  <2>2. t = Append(b, e)
    BY <1>2 DEF AppendLater
  <2> HIDE DEF t, e
  <2>3. /\ DOMAIN t = DOMAIN b \cup {n + 1} /\ n + 1 \notin DOMAIN b /\ Len(t) = n + 1
        /\ \A i \in DOMAIN b : t[i] = b[i]
        /\ t[n + 1] = e
    BY <1>0, <2>1, <2>2
  <2>4. NextPrompts(t) = NextPrompts(b)
    <3> HIDE DEF n
    <3> QED BY <2>1, <2>3 DEF NextPrompts, IsNext
  <2>5. LaterPrompts(t) = Append(LaterPrompts(b), p)
    <3>1. LaterPrompts(t) = <<p>>
      BY <1>0, <2>1, <2>3 DEF LaterPrompts, IsLater
    <3>2. LaterPrompts(b) = <<>>
      BY <1>2 DEF LaterPrompts
    <3> QED BY <3>1, <3>2
  <2>6. ASSUME AllDistinct(b) PROVE AllDistinct(t)
    <3>1. Distinct(<<p>>)
      BY DEF Distinct
    <3> HIDE DEF n
    <3> QED BY <2>1, <2>3, <2>6, <3>1 DEF AllDistinct
  <2> QED BY <2>4, <2>5, <2>6 DEF t
<1> QED BY <1>1, <1>2

\* Every prompt of a queue stands in one of its batches.
LEMMA WaitingIsQueued ==
  ASSUME NEW b \in Seq(Batch)
  PROVE  /\ NextPrompts(b) \subseteq PromptsOf(b)
         /\ ToSet(LaterPrompts(b)) \subseteq PromptsOf(b)
<1>1. NextPrompts(b) \subseteq PromptsOf(b)
  BY DEF NextPrompts, PromptsOf
<1>2. CASE Len(b) > 0 /\ IsLater(b[Len(b)])
  <2>1. Len(b) \in DOMAIN b /\ LaterPrompts(b) = b[Len(b)].prompts
    BY <1>2 DEF LaterPrompts
  <2> QED BY <1>1, <2>1 DEF PromptsOf
<1>3. CASE ~(Len(b) > 0 /\ IsLater(b[Len(b)]))
  <2>1. LaterPrompts(b) = <<>> /\ ToSet(<<>>) = {}
    BY <1>3 DEF LaterPrompts, ToSet
  <2> QED BY <1>1, <2>1
<1> QED BY <1>2, <1>3

\* The first batch of a queue, taken: a "next" batch leaves the other next
\* prompts and the later ones; a "later" batch is all there was.
LEMMA TakeMaps ==
  ASSUME NEW b \in Seq(Batch), b # <<>>, Shaped(b), Disjoint(b), AllDistinct(b)
  PROVE  LET group == Head(b).prompts IN
         /\ group \in Seq(Prompt) /\ group # <<>> /\ Distinct(group) /\ AllDistinct(Tail(b))
         /\ \/ /\ ToSet(group) \subseteq NextPrompts(b)
               /\ NextPrompts(Tail(b)) = NextPrompts(b) \ ToSet(group)
               /\ LaterPrompts(Tail(b)) = LaterPrompts(b)
            \/ /\ NextPrompts(b) = {} /\ NextPrompts(Tail(b)) = {}
               /\ LaterPrompts(b) = group /\ LaterPrompts(Tail(b)) = <<>>
<1> DEFINE t == Tail(b)
           h == Head(b)
<1>1. /\ Len(b) \in Nat /\ Len(b) > 0 /\ DOMAIN b = 1..Len(b) /\ 1 \in DOMAIN b /\ h = b[1] /\ b[1] \in Batch
  BY EmptySeq, HeadTailProperties, LenProperties
<1>2. /\ t \in Seq(Batch) /\ Len(t) = Len(b) - 1 /\ DOMAIN t = 1..(Len(b) - 1)
      /\ \A i \in 1..(Len(b) - 1) : t[i] = b[i + 1]
  BY <1>1, HeadTailProperties, LenProperties
<1> HIDE DEF t, h
<1>3. /\ \A i \in DOMAIN t : i + 1 \in DOMAIN b /\ i + 1 # 1 /\ t[i] = b[i + 1]
      /\ \A i \in DOMAIN b : i # 1 => \E j \in DOMAIN t : i = j + 1
  <2>1. \A i \in DOMAIN t : i + 1 \in DOMAIN b /\ i + 1 # 1 /\ t[i] = b[i + 1]
    BY <1>1, <1>2
  <2>2. ASSUME NEW i \in DOMAIN b, i # 1 PROVE i - 1 \in DOMAIN t /\ i = (i - 1) + 1
    BY <1>1, <1>2, <2>2
  <2> QED BY <2>1, <2>2
<1>4. h.prompts \in Seq(Prompt) /\ h.kind \in Kind /\ h.prompts # <<>> /\ Distinct(h.prompts)
  <2>1. b[1].prompts \in Seq(Prompt) /\ b[1].kind \in Kind
    BY <1>1 DEF Batch
  <2> QED BY <1>1, <2>1 DEF Shaped, AllDistinct
<1>5. AllDistinct(t)
  BY <1>3 DEF AllDistinct
<1>6. CASE h.kind = "next"
  <2>1. ToSet(h.prompts) \subseteq NextPrompts(b)
    BY <1>1, <1>4, <1>6 DEF NextPrompts, IsNext, ToSet
  <2>2. \A i \in DOMAIN t : ToSet(t[i].prompts) \cap ToSet(h.prompts) = {}
    BY <1>1, <1>3 DEF Disjoint
  <2>3. NextPrompts(t) = NextPrompts(b) \ ToSet(h.prompts)
    <3>1. \A p \in NextPrompts(t) : p \in NextPrompts(b) /\ p \notin ToSet(h.prompts)
      BY <1>3, <2>2 DEF NextPrompts, IsNext
    <3>2. \A p \in NextPrompts(b) : p \in ToSet(h.prompts) \/ p \in NextPrompts(t)
      BY <1>1, <1>3 DEF NextPrompts, IsNext
    <3> QED BY <3>1, <3>2
  <2>4. LaterPrompts(t) = LaterPrompts(b)
    <3>1. CASE Len(t) = 0
      <4>1. LaterPrompts(t) = <<>>
        BY <3>1 DEF LaterPrompts
      <4>2. Len(b) = 1
        BY <1>1, <1>2, <3>1
      <4>3. ~IsLater(b[Len(b)])
        BY <1>1, <1>6, <4>2 DEF IsLater
      <4> QED BY <4>1, <4>3 DEF LaterPrompts
    <3>2. CASE Len(t) # 0
      <4>1. Len(t) > 0 /\ t[Len(t)] = b[Len(b)]
        BY <1>1, <1>2, <3>2
      <4> QED BY <1>1, <4>1 DEF LaterPrompts
    <3> QED BY <3>1, <3>2
  <2> QED BY <1>4, <1>5, <2>1, <2>3, <2>4 DEF t, h
<1>7. CASE h.kind = "later"
  <2>1. Len(b) = 1
    BY <1>1, <1>7 DEF Shaped, IsLater
  <2>2. DOMAIN b = {1} /\ DOMAIN t = {} /\ Len(t) = 0
    BY <1>1, <1>2, <2>1
  <2>3. NextPrompts(b) = {} /\ NextPrompts(t) = {}
    BY <1>1, <1>7, <2>2 DEF NextPrompts, IsNext
  <2>4. LaterPrompts(b) = h.prompts /\ LaterPrompts(t) = <<>>
    BY <1>1, <1>7, <2>1, <2>2 DEF LaterPrompts, IsLater
  <2> QED BY <1>4, <1>5, <2>3, <2>4 DEF t, h
<1> QED BY <1>4, <1>6, <1>7 DEF Kind


-----------------------------------------------------------------------------
(* Step by step.                                                            *)

Queued == IInv /\ OnceEach

\* What the state must be for the lemmas above.
LEMMA QueuedTyped ==
  ASSUME Queued
  PROVE  /\ steers \in Seq(Prompt) /\ followUps \in Seq(Batch) /\ submitted \in Seq(Batch)
         /\ Shaped(followUps) /\ Disjoint(followUps) /\ ToSet(steers) \cap PromptsOf(followUps) = {}
         /\ Distinct(steers) /\ AllDistinct(followUps)
  BY DEF Queued, IInv, TypeOK, Conservation, QueueShape, OnceEach

\* The operators on sequences mean the same in the inbox.
LEMMA SameMembers ==
  ASSUME NEW s PROVE Inbox!ToSet(s) = ToSet(s)
  BY DEF Inbox!ToSet, ToSet

\* The orders of a set are the inbox's too.
LEMMA SameOrders ==
  ASSUME NEW S PROVE Inbox!SetToSeqs(S) = SetToSeqs(S)
<1>1. Inbox!Cardinality(S) = Cardinality(S)
  BY DEF Inbox!Cardinality, Cardinality
<1> QED BY <1>1 DEF Inbox!SetToSeqs, SetToSeqs

\* A prompt nobody queued yet is unknown to the inbox.
LEMMA NewIsUnknown ==
  ASSUME Queued, NEW p \in Prompt, p \notin AcceptedPrompts
  PROVE  p \in Inbox!Unknown
<1>1. /\ p \notin ToSet(steers) /\ p \notin PromptsOf(followUps) /\ p \notin PromptsOf(submitted)
  BY DEF Queued, IInv, Conservation, SubmittedPrompts
<1>2. p \notin NextPrompts(followUps) /\ p \notin ToSet(LaterPrompts(followUps))
  BY <1>1, WaitingIsQueued, QueuedTyped
<1>3. p \notin Inbox!Delivered
  <2>1. Inbox!Delivered = UNION {ToSet(Groups(submitted)[i]) : i \in DOMAIN Groups(submitted)}
    BY SameMembers DEF Inbox!Delivered, Groups
  <2>2. \A i \in DOMAIN Groups(submitted) : i \in DOMAIN submitted /\ Groups(submitted)[i] = submitted[i].prompts
    BY DEF Groups
  <2> QED BY <1>1, <2>1, <2>2 DEF PromptsOf
<1> QED BY <1>1, <1>2, <1>3, SameMembers DEF Inbox!Unknown

\* A prompt accepted as "next" joins the steers ...
LEMMA NextIsAccepted ==
  ASSUME Queued, NEW p \in Prompt, Enqueue(p, "next")
  PROVE  OnceEach' /\ Inbox!AcceptNext(p)
<1>1. p \in Inbox!Unknown
  BY NewIsUnknown DEF Enqueue
<1>2. /\ steers' = Append(steers, p) /\ followUps' = followUps /\ submitted' = submitted
  BY DEF Enqueue
<1>3. ToSet(steers') = ToSet(steers) \cup {p}
  BY <1>2, QueuedTyped, ToSetAppend
<1>4. p \notin ToSet(steers)
  BY DEF Queued, IInv, Conservation, Enqueue
<1>5. Distinct(steers')
  BY <1>2, <1>4, QueuedTyped, DistinctAppend
<1>6. OnceEach'
  BY <1>2, <1>5, QueuedTyped DEF OnceEach
<1> QED BY <1>1, <1>2, <1>3, <1>6 DEF Inbox!AcceptNext

\* ... and one accepted as "later" the last batch.
LEMMA LaterIsAccepted ==
  ASSUME Queued, NEW p \in Prompt, Enqueue(p, "later")
  PROVE  OnceEach' /\ Inbox!AcceptLater(p)
<1>1. p \in Inbox!Unknown
  BY NewIsUnknown DEF Enqueue
<1>2. /\ steers' = steers /\ followUps' = AppendLater(followUps, p) /\ submitted' = submitted
  BY DEF Enqueue
<1>3. p \notin PromptsOf(followUps)
  BY DEF Queued, IInv, Conservation, Enqueue
<1>4. /\ NextPrompts(followUps') = NextPrompts(followUps)
      /\ LaterPrompts(followUps') = Append(LaterPrompts(followUps), p)
      /\ AllDistinct(followUps')
  BY <1>2, <1>3, QueuedTyped, AppendLaterMaps
<1>5. OnceEach'
  BY <1>2, <1>4, QueuedTyped DEF OnceEach
<1> QED BY <1>1, <1>2, <1>4, <1>5 DEF Inbox!AcceptLater

\* A group of distinct prompts, all waiting as next ones, is delivered.
LEMMA GroupIsDelivered ==
  ASSUME Queued, NEW s \in Seq(Prompt), s # <<>>, Distinct(s), NEW k \in Kind,
         submitted' = Append(submitted, [kind |-> k, prompts |-> s])
  PROVE  /\ ToSet(s) # {}
         /\ \E order \in Inbox!SetToSeqs(ToSet(s)) :
              [i \in DOMAIN submitted |-> submitted[i].prompts]' = Append([i \in DOMAIN submitted |-> submitted[i].prompts], order)
         /\ [i \in DOMAIN submitted |-> submitted[i].prompts]' = Append([i \in DOMAIN submitted |-> submitted[i].prompts], s)
<1> DEFINE e == [kind |-> k, prompts |-> s]
<1>1. e \in Batch /\ e.prompts = s
  BY DEF Batch
<1>2. Groups(Append(submitted, e)) = Append(Groups(submitted), s)
  BY <1>1, GroupsAppend, QueuedTyped
<1>3. [i \in DOMAIN submitted |-> submitted[i].prompts]' = Append([i \in DOMAIN submitted |-> submitted[i].prompts], s)
  BY <1>2 DEF Groups
<1>4. s \in Inbox!SetToSeqs(ToSet(s))
  BY OrderOf, SameOrders
<1>5. ToSet(s) # {}
  <2>1. 1 \in DOMAIN s
    BY EmptySeq, LenProperties
  <2> QED BY <2>1 DEF ToSet
<1> QED BY <1>3, <1>4, <1>5

\* At the boundary the steers are delivered together, if there are any.
LEMMA SteersAreDelivered ==
  ASSUME Queued, SubmitSteers
  PROVE  OnceEach' /\ [Inbox!Next]_(Inbox!inboxVars)
<1>1. steers' = <<>> /\ followUps' = followUps /\ Distinct(<<>>) /\ ToSet(<<>>) = {}
  BY DEF SubmitSteers, Distinct, ToSet
<1>2. OnceEach'
  BY <1>1, QueuedTyped DEF OnceEach
<1>3. CASE steers = <<>>
  <2>1. submitted' = submitted
    BY <1>3 DEF SubmitSteers
  <2> QED BY <1>1, <1>2, <1>3, <2>1 DEF Inbox!inboxVars
<1>4. CASE steers # <<>>
  <2>1. submitted' = Append(submitted, [kind |-> "next", prompts |-> steers])
    BY <1>4 DEF SubmitSteers
  <2>2. ToSet(steers) \cap NextPrompts(followUps) = {}
    BY QueuedTyped, WaitingIsQueued
  <2>3. Inbox!DeliverNext(ToSet(steers))
    BY <1>1, <1>4, <2>1, <2>2, QueuedTyped, GroupIsDelivered DEF Inbox!DeliverNext, Kind
  <2>4. ToSet(steers) \in SUBSET (ToSet(steers) \cup NextPrompts(followUps))
    OBVIOUS
  <2>5. \E s \in SUBSET (ToSet(steers) \cup NextPrompts(followUps)) : Inbox!DeliverNext(s)
    BY <2>3, <2>4 DEF Inbox!DeliverNext
  <2> QED BY <1>2, <2>5 DEF Inbox!Next
<1> QED BY <1>3, <1>4

\* Between two streamed runs the first batch is delivered: a "next" batch while
\* others wait, the "later" batch when nothing else does.
LEMMA BatchIsDelivered ==
  ASSUME Queued, TakeBatch
  PROVE  OnceEach' /\ [Inbox!Next]_(Inbox!inboxVars)
<1> DEFINE b == Prepend(followUps, steers)
           group == Head(b).prompts
<1>1. /\ b # <<>> /\ steers' = <<>> /\ followUps' = Tail(b)
      /\ submitted' = Append(submitted, [kind |-> "later", prompts |-> group])
      /\ ToSet(<<>>) = {} /\ Distinct(<<>>)
  BY DEF TakeBatch, ToSet, Distinct
<1>2. b \in Seq(Batch) /\ Shaped(b) /\ Disjoint(b)
  BY QueuedTyped, PrependLemma
<1>3. /\ NextPrompts(b) = ToSet(steers) \cup NextPrompts(followUps)
      /\ LaterPrompts(b) = LaterPrompts(followUps) /\ AllDistinct(b)
  BY QueuedTyped, PrependMaps
<1> HIDE DEF b
<1>4. /\ group \in Seq(Prompt) /\ group # <<>> /\ Distinct(group) /\ AllDistinct(Tail(b))
      /\ \/ /\ ToSet(group) \subseteq NextPrompts(b)
            /\ NextPrompts(Tail(b)) = NextPrompts(b) \ ToSet(group)
            /\ LaterPrompts(Tail(b)) = LaterPrompts(b)
         \/ /\ NextPrompts(b) = {} /\ NextPrompts(Tail(b)) = {}
            /\ LaterPrompts(b) = group /\ LaterPrompts(Tail(b)) = <<>>
  BY <1>1, <1>2, <1>3, TakeMaps
<1> HIDE DEF group
<1>5. OnceEach'
  BY <1>1, <1>4 DEF OnceEach
<1>6. /\ ToSet(group) # {}
      /\ \E order \in Inbox!SetToSeqs(ToSet(group)) :
           [i \in DOMAIN submitted |-> submitted[i].prompts]' = Append([i \in DOMAIN submitted |-> submitted[i].prompts], order)
      /\ [i \in DOMAIN submitted |-> submitted[i].prompts]' = Append([i \in DOMAIN submitted |-> submitted[i].prompts], group)
  BY <1>1, <1>4, GroupIsDelivered DEF Kind
<1>7. CASE /\ ToSet(group) \subseteq NextPrompts(b)
           /\ NextPrompts(Tail(b)) = NextPrompts(b) \ ToSet(group)
           /\ LaterPrompts(Tail(b)) = LaterPrompts(b)
  <2>1. Inbox!DeliverNext(ToSet(group))
    BY <1>1, <1>3, <1>6, <1>7 DEF Inbox!DeliverNext
  <2>2. ToSet(group) \in SUBSET (ToSet(steers) \cup NextPrompts(followUps))
    BY <1>3, <1>7
  <2>3. \E s \in SUBSET (ToSet(steers) \cup NextPrompts(followUps)) : Inbox!DeliverNext(s)
    BY <2>1, <2>2 DEF Inbox!DeliverNext
  <2> QED BY <1>5, <2>3 DEF Inbox!Next
<1>8. CASE /\ NextPrompts(b) = {} /\ NextPrompts(Tail(b)) = {}
           /\ LaterPrompts(b) = group /\ LaterPrompts(Tail(b)) = <<>>
  <2>1. Inbox!DeliverLater
    BY <1>1, <1>3, <1>4, <1>6, <1>8 DEF Inbox!DeliverLater
  <2> QED BY <1>5, <2>1 DEF Inbox!Next
<1> QED BY <1>4, <1>7, <1>8

\* An interrupt may move steers into a batch: the inbox sees nothing.
LEMMA InterruptIsUnseen ==
  ASSUME Queued, NEW promote \in BOOLEAN, Interrupt(promote)
  PROVE  OnceEach' /\ [Inbox!Next]_(Inbox!inboxVars)
<1>1. submitted' = submitted /\ ToSet(<<>>) = {} /\ Distinct(<<>>)
  BY DEF Interrupt, ToSet, Distinct
<1>2. CASE promote
  <2>1. steers' = <<>> /\ followUps' = Prepend(followUps, steers)
    BY <1>2 DEF Interrupt
  <2>2. /\ NextPrompts(followUps') = ToSet(steers) \cup NextPrompts(followUps)
        /\ LaterPrompts(followUps') = LaterPrompts(followUps) /\ AllDistinct(followUps')
    BY <2>1, QueuedTyped, PrependMaps
  <2> QED BY <1>1, <2>1, <2>2 DEF OnceEach, Inbox!inboxVars
<1>3. CASE ~promote
  <2>1. UNCHANGED <<steers, followUps>>
    BY <1>3 DEF Interrupt
  <2> QED BY <1>1, <2>1, QueuedTyped DEF OnceEach, Inbox!inboxVars
<1> QED BY <1>2, <1>3

\* Every step of the session is a step of the inbox, or none.
LEMMA StepIsInboxStep == Queued /\ [Next]_vars => Queued' /\ [Inbox!Next]_(Inbox!inboxVars)
<1> SUFFICES ASSUME Queued, [Next]_vars
             PROVE  Queued' /\ [Inbox!Next]_(Inbox!inboxVars)
  OBVIOUS
<1>1. IInv'
  BY StepIInv DEF Queued
<1> SUFFICES OnceEach' /\ [Inbox!Next]_(Inbox!inboxVars)
  BY <1>1 DEF Queued
<1>2. ASSUME NEW p \in Prompt, NEW mode \in Kind, Enqueue(p, mode)
      PROVE  OnceEach' /\ [Inbox!Next]_(Inbox!inboxVars)
  <2>1. CASE mode = "next"
    BY <1>2, <2>1, NextIsAccepted DEF Inbox!Next
  <2>2. CASE mode = "later"
    BY <1>2, <2>2, LaterIsAccepted DEF Inbox!Next
  <2> QED BY <2>1, <2>2 DEF Kind
<1>3. ASSUME NEW promote \in BOOLEAN, Interrupt(promote)
      PROVE  OnceEach' /\ [Inbox!Next]_(Inbox!inboxVars)
  BY <1>3, InterruptIsUnseen
<1>4. CASE ToolsDone \/ ToolsDoneWithRetry
  BY <1>4, SteersAreDelivered DEF ToolsDone, ToolsDoneWithRetry
<1>5. CASE TakeBatch
  BY <1>5, BatchIsDelivered
<1>6. ASSUME UNCHANGED <<steers, followUps, submitted>>
      PROVE  OnceEach' /\ [Inbox!Next]_(Inbox!inboxVars)
  BY <1>6, QueuedTyped DEF OnceEach, Inbox!inboxVars
<1>7. CASE \/ RunStart \/ SendRequest \/ CompactInRun \/ BeginTools \/ EndTools
           \/ CleanupDone \/ CancelDelivered \/ EndTurn
  <2>1. UNCHANGED <<steers, followUps, submitted>>
    BY <1>7 DEF RunStart, SendRequest, CompactInRun, BeginTools, EndTools, CleanupDone,
                CancelDelivered, EndTurn, queues, history
  <2> QED BY <1>6, <2>1
<1>8. CASE Respond \/ ErrorReturn
  <2>1. UNCHANGED <<steers, followUps, submitted>>
    BY <1>8 DEF Respond, ErrorReturn, Deactivate
  <2> QED BY <1>6, <2>1
<1>9. CASE UNCHANGED vars
  <2>1. UNCHANGED <<steers, followUps, submitted>>
    BY <1>9 DEF vars, queues, history
  <2> QED BY <1>6, <2>1
<1> QED BY <1>2, <1>3, <1>4, <1>5, <1>7, <1>8, <1>9 DEF Next, RunTask

\* The session starts with an empty inbox.
LEMMA InitIsInboxInit == Init => Queued /\ Inbox!Init
<1> SUFFICES ASSUME Init PROVE Queued /\ Inbox!Init
  OBVIOUS
<1>1. IInv
  BY InitIInv
<1>2. steers = <<>> /\ followUps = <<>> /\ submitted = <<>> /\ ToSet(<<>>) = {}
  BY DEF Init, ToSet
<1>3. OnceEach
  BY <1>2 DEF OnceEach, Distinct, AllDistinct
<1>4. NextPrompts(<<>>) = {} /\ LaterPrompts(<<>>) = <<>>
  BY DEF NextPrompts, LaterPrompts
<1>5. Groups(<<>>) = <<>>
  BY DEF Groups
<1>6. [i \in DOMAIN submitted |-> submitted[i].prompts] = <<>>
  BY <1>2, <1>5 DEF Groups
<1> QED BY <1>1, <1>2, <1>3, <1>4, <1>6 DEF Queued, Inbox!Init

\* For every set of prompts: the queues of rpc/state.py, drained by the loop of
\* run.start, are an inbox.  Every prompt is delivered at most once, "later"
\* prompts together and in order of acceptance, never while a "next" one waits.
THEOREM QueueIsInbox == Spec => ImplementsInbox
<1> QED BY InitIsInboxInit, StepIsInboxStep, PTL DEF Spec, ImplementsInbox, Inbox!Spec
=============================================================================
