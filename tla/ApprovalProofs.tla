--------------------------- MODULE ApprovalProofs ---------------------------
(***************************************************************************)
(* What approvals promise, for any calls, actions, roots and commands, any *)
(* number of runs and of permission.set requests: no tool waits for an     *)
(* answer that cannot come, grants stay in force, and decisions hold.      *)
(***************************************************************************)
EXTENDS Approval, FiniteSetTheorems, TLAPS

Members(q) == {q[i] : i \in DOMAIN q}

HistoryTyped ==
  /\ told \in [Call -> {"none"} \cup Decision]
  /\ refusals \subseteq Action \X BOOLEAN
  /\ granted \subseteq Root \cup Network

\* A call is in the queue or asked about, once, as long as nobody answered it;
\* it may have been stopped there.
Lined ==
  /\ IsInjective(queue) /\ asked \notin Members(queue)
  /\ \A c \in Members(queue) : tool[c] \in {"queued", "over"}
  /\ asked # NoCall => tool[asked] \in {"queued", "over"}
  /\ \A c \in Call : tool[c] = "queued" => c \in Members(queue) \cup {asked}

\* Between two runs every call has ended or has not begun.
Quiet ==
  phase = "idle" =>
    queue = <<>> /\ ~cancelling /\ \A c \in Call : tool[c] \in {"new", "over"}

\* What a future holds is what the user said of this call; only a call that asks
\* for a need it lacks gets it for the session.
Answered ==
  /\ verdict # "none" => told[asked] = verdict
  /\ verdict = "session" => asked \in asking
  /\ \A c \in Call : tool[c] \in {"once", "session"} => told[c] = tool[c]
  /\ \A c \in Call : tool[c] = "session" => c \in asking
  /\ \A c \in asking : tool[c] # "new" /\ Needs[action[c]] \in Root \cup Network

\* The run knows every denial the user gave in it, or is about to.
Refused ==
  phase # "idle" =>
    refusals \subseteq denied \cup (IF verdict = "denied" THEN {Fingerprint(asked)} ELSE {})

\* Grants are in memory during a run and in the file between two.
Granted == granted \subseteq IF phase = "idle" THEN UNION saved ELSE memory

IInv == TypeOK /\ HistoryTyped /\ Lined /\ Quiet /\ Answered /\ Refused /\ Granted

-----------------------------------------------------------------------------
(* Queues without repetition.                                              *)

\* What is left of the queue when its head is taken.
LEMMA TailKeepsMembers ==
  ASSUME NEW S, NEW q \in Seq(S), q # <<>>, IsInjective(q)
  PROVE  /\ Tail(q) \in Seq(S) /\ IsInjective(Tail(q))
         /\ Head(q) \in S /\ Head(q) \in Members(q) /\ Head(q) \notin Members(Tail(q))
         /\ Members(q) = Members(Tail(q)) \cup {Head(q)}
<1>1. /\ Len(q) \in Nat \ {0} /\ DOMAIN q = 1 .. Len(q) /\ Head(q) = q[1] /\ Tail(q) \in Seq(S)
      /\ Len(Tail(q)) = Len(q) - 1 /\ DOMAIN Tail(q) = 1 .. Len(q) - 1
      /\ \A k \in 1 .. Len(q) - 1 : Tail(q)[k] = q[k + 1]
  OBVIOUS
<1>2. \A k \in 2 .. Len(q) : k - 1 \in 1 .. Len(q) - 1 /\ Tail(q)[k - 1] = q[k]
  BY <1>1
<1>3. IsInjective(Tail(q))
  BY <1>1 DEF IsInjective
<1>4. Head(q) \in S /\ Head(q) \in Members(q)
  BY <1>1 DEF Members
<1>5. Head(q) \notin Members(Tail(q))
  BY <1>1 DEF Members, IsInjective
<1>6. Members(q) \subseteq Members(Tail(q)) \cup {Head(q)}
  <2> SUFFICES ASSUME NEW k \in 1 .. Len(q) PROVE q[k] \in Members(Tail(q)) \cup {Head(q)}
    BY <1>1 DEF Members
  <2>1. CASE k = 1
    BY <1>1, <2>1
  <2>2. CASE k # 1
    <3>1. k - 1 \in DOMAIN Tail(q) /\ Tail(q)[k - 1] = q[k]
      BY <1>1, <1>2, <2>2
    <3> QED BY <3>1 DEF Members
  <2> QED BY <2>1, <2>2
<1>7. Members(Tail(q)) \subseteq Members(q)
  BY <1>1 DEF Members
<1> QED BY <1>1, <1>3, <1>4, <1>5, <1>6, <1>7

\* What a queue holds after one more is put behind it.
LEMMA AppendKeepsMembers ==
  ASSUME NEW S, NEW q \in Seq(S), NEW c \in S, IsInjective(q), c \notin Members(q)
  PROVE  /\ Append(q, c) \in Seq(S) /\ IsInjective(Append(q, c))
         /\ Members(Append(q, c)) = Members(q) \cup {c}
<1>1. /\ Len(q) \in Nat /\ DOMAIN q = 1 .. Len(q) /\ Append(q, c) \in Seq(S)
      /\ DOMAIN Append(q, c) = 1 .. Len(q) + 1 /\ Append(q, c)[Len(q) + 1] = c
      /\ \A k \in 1 .. Len(q) : Append(q, c)[k] = q[k]
  OBVIOUS
<1>2. IsInjective(Append(q, c))
  BY <1>1 DEF IsInjective, Members
<1>3. Members(Append(q, c)) = Members(q) \cup {c}
  BY <1>1 DEF Members
<1> QED BY <1>1, <1>2, <1>3

\* An empty queue holds nothing, twice nothing included.
LEMMA EmptyHasNoMembers == Members(<<>>) = {} /\ IsInjective(<<>>)
BY DEF Members, IsInjective

\* Asking about a call that is not in the queue puts it first in the line.
LEMMA LineInjective ==
  ASSUME NEW S, NEW q \in Seq(S), NEW c, IsInjective(q), c \notin Members(q)
  PROVE  /\ IsInjective(<<c>> \o q)
         /\ {(<<c>> \o q)[i] : i \in DOMAIN (<<c>> \o q)} = Members(q) \cup {c}
<1> DEFINE line == <<c>> \o q
<1>1. /\ Len(q) \in Nat /\ DOMAIN q = 1 .. Len(q)
      /\ DOMAIN line = 1 .. Len(q) + 1 /\ line[1] = c
      /\ \A k \in 2 .. Len(q) + 1 : line[k] = q[k - 1]
  OBVIOUS
<1>2. IsInjective(line)
  BY <1>1 DEF IsInjective, Members
<1>3. \A k \in 1 .. Len(q) : k + 1 \in DOMAIN line /\ line[k + 1] = q[k]
  BY <1>1
<1>4. {line[i] : i \in DOMAIN line} = Members(q) \cup {c}
  <2> HIDE DEF line
  <2>1. \A i \in DOMAIN line : line[i] \in Members(q) \cup {c}
    <3> SUFFICES ASSUME NEW i \in 1 .. Len(q) + 1 PROVE line[i] \in Members(q) \cup {c}
      BY <1>1
    <3>1. CASE i = 1
      BY <1>1, <3>1
    <3>2. CASE i # 1
      <4>1. i \in 2 .. Len(q) + 1 /\ i - 1 \in DOMAIN q
        BY <1>1, <3>2
      <4> QED BY <1>1, <4>1 DEF Members
    <3> QED BY <3>1, <3>2
  <2>2. \A m \in Members(q) : \E i \in DOMAIN line : line[i] = m
    BY <1>1, <1>3 DEF Members
  <2>3. 1 \in DOMAIN line /\ line[1] = c
    BY <1>1
  <2> QED BY <2>1, <2>2, <2>3
<1> QED BY <1>2, <1>4


\* The invariant gives the two properties of states.
LEMMA InvGivesProperties == IInv => NobodyWaitsInVain /\ GrantsKept
<1> SUFFICES ASSUME IInv PROVE NobodyWaitsInVain /\ GrantsKept
  OBVIOUS
<1>1. queue \in Seq(Call) /\ IsInjective(queue) /\ asked \notin Members(queue)
  BY DEF IInv, TypeOK, Lined
<1>2. CASE asked = NoCall
  BY <1>1, <1>2, ApprovalAssumption DEF IInv, TypeOK, NobodyWaitsInVain, Lined, Quiet, Waiting,
     Granted, GrantsKept, Members
<1>3. CASE asked # NoCall
  <2>1. /\ IsInjective(<<asked>> \o queue)
        /\ {(<<asked>> \o queue)[k] : k \in DOMAIN (<<asked>> \o queue)} = Members(queue) \cup {asked}
    BY <1>1, LineInjective
  <2> QED BY <1>3, <2>1 DEF IInv, TypeOK, NobodyWaitsInVain, Lined, Quiet, Waiting, Granted,
             GrantsKept
<1> QED BY <1>2, <1>3

-----------------------------------------------------------------------------
(* Every action keeps the invariant.                                       *)

\* The invariant holds at first.
LEMMA InitIInv == Init => IInv
<1> SUFFICES ASSUME Init PROVE IInv
  OBVIOUS
<1>1. Cardinality(saved) <= 1
  BY FS_EmptySet DEF Init
<1>2. TypeOK
  <2>1. mode \in Mode /\ runMode \in Mode /\ memory = {} /\ saved = {}
    BY DEF Init, Mode
  <2>2. queue \in Seq(Call) /\ asked = NoCall /\ verdict = "none" /\ phase = "idle"
    BY DEF Init
  <2>3. /\ tool \in [Call -> {"new", "queued", "running", "over"} \cup Decision]
        /\ action \in [Call -> Action] /\ asking = {} /\ denied = {}
        /\ broken \in BOOLEAN /\ cancelling \in BOOLEAN
    BY DEF Init
  <2>4. runs \in 0 .. MaxRuns /\ changes \in 0 .. MaxChanges
    BY ApprovalAssumption DEF Init
  <2> QED BY <1>1, <2>1, <2>2, <2>3, <2>4 DEF TypeOK
<1>3. HistoryTyped /\ Quiet /\ Answered /\ Refused /\ Granted
  BY DEF Init, HistoryTyped, Quiet, Answered, Refused, Granted, Decision
<1>4. Lined
  BY EmptyHasNoMembers, ApprovalAssumption DEF Init, Lined
<1> QED BY <1>2, <1>3, <1>4 DEF IInv

\* A run begins with an empty queue, and with the grants in force.
LEMMA StartRunIInv == IInv /\ StartRun => IInv'
<1> SUFFICES ASSUME IInv, StartRun PROVE IInv'
  OBVIOUS
<1>1. memory' \subseteq Root \cup Network
  BY DEF IInv, TypeOK, StartRun
<1>2. TypeOK'
  BY <1>1, ApprovalAssumption DEF IInv, TypeOK, StartRun, calls, plans
<1>3. Lined' /\ HistoryTyped'
  BY DEF IInv, Lined, HistoryTyped, StartRun, calls, plans, Members
<1>4. Quiet' /\ Answered' /\ Refused'
  BY DEF IInv, TypeOK, Quiet, Answered, Refused, StartRun, calls, plans
<1>5. Granted'
  BY DEF IInv, Granted, StartRun
<1> QED BY <1>2, <1>3, <1>4, <1>5 DEF IInv

\* A request leaves the queue: its call is answered, or asked about.
LEMMA TakeRequestIInv == IInv /\ TakeRequest => IInv'
<1> SUFFICES ASSUME IInv, TakeRequest PROVE IInv'
  OBVIOUS
<1> DEFINE c == Head(queue)
<1>1. /\ queue' \in Seq(Call) /\ IsInjective(queue') /\ c \in Call
      /\ c \in Members(queue) /\ c \notin Members(queue')
      /\ Members(queue) = Members(queue') \cup {c}
  BY TailKeepsMembers DEF IInv, TypeOK, Lined, TakeRequest
<1>2. asked = NoCall /\ verdict = "none" /\ phase = "streaming"
  BY DEF IInv, TypeOK, TakeRequest
<1>3. NoCall \notin Call /\ Members(queue) \subseteq Call
  BY ApprovalAssumption DEF IInv, TypeOK, Members
<1>4. /\ UNCHANGED <<mode, memory, saved, runMode, verdict, denied, broken, cancelling, plans,
                     bounds, told, refusals, granted>>
      /\ \/ tool' = [tool EXCEPT ![c] = "denied"] /\ UNCHANGED <<phase, asked>>
         \/ phase' = "asking" /\ asked' = c /\ UNCHANGED tool
  BY DEF TakeRequest
<1> HIDE DEF c
<1>5. TypeOK'
  BY <1>1, <1>2, <1>3, <1>4 DEF IInv, TypeOK, plans, bounds, Decision
<1>6. Lined'
  BY <1>1, <1>2, <1>3, <1>4 DEF IInv, TypeOK, Lined
<1>7. HistoryTyped' /\ Quiet' /\ Granted'
  BY <1>2, <1>4 DEF IInv, HistoryTyped, Quiet, Granted
<1>8. Refused'
  BY <1>2, <1>4 DEF IInv, Refused
<1>9. tool[c] # "new"
  BY <1>1 DEF IInv, Lined
<1>10. Answered'
  BY <1>1, <1>2, <1>4, <1>9 DEF IInv, TypeOK, Answered, plans
<1> QED BY <1>5, <1>6, <1>7, <1>8, <1>10 DEF IInv

\* A fingerprint is one of those the types list.
LEMMA FingerprintTyped ==
  ASSUME TypeOK, NEW c \in Call
  PROVE  Fingerprint(c) \in Action \X BOOLEAN
<1>1. action[c] \in Action
  BY DEF TypeOK
<1>2. (c \in asking) \in BOOLEAN
  OBVIOUS
<1> QED BY <1>1, <1>2, Zenon DEF Fingerprint

\* The tool gets what the user said of its call.
LEMMA ResolveIInv == IInv /\ Resolve => IInv'
<1> SUFFICES ASSUME IInv, Resolve PROVE IInv'
  OBVIOUS
<1>1. /\ phase = "asking" /\ asked \in Call /\ verdict \in Decision /\ phase' = "streaming"
      /\ asked' = NoCall /\ verdict' = "none" /\ tool' = [tool EXCEPT ![asked] = verdict]
      /\ UNCHANGED <<mode, memory, saved, runMode, queue, broken, cancelling, plans, bounds,
                     told, refusals, granted>>
      /\ asked \notin Members(queue)
  BY DEF IInv, TypeOK, Resolve, Lined
<1>2. Fingerprint(asked) \in Action \X BOOLEAN
  BY <1>1, FingerprintTyped DEF IInv
<1>3. NoCall \notin Members(queue)
  BY ApprovalAssumption DEF IInv, TypeOK, Members
<1>4. TypeOK'
  BY <1>1, <1>2 DEF IInv, TypeOK, Resolve, plans, bounds, Decision
<1>5. Lined'
  BY <1>1, <1>3 DEF IInv, TypeOK, Lined, Decision
<1>6. HistoryTyped' /\ Quiet' /\ Granted'
  BY <1>1 DEF IInv, HistoryTyped, Quiet, Granted
<1>7. Refused'
  BY <1>1 DEF IInv, Refused, Resolve
<1>8. Answered'
  BY <1>1 DEF IInv, TypeOK, Answered, plans, Decision
<1> QED BY <1>4, <1>5, <1>6, <1>7, <1>8 DEF IInv

\* Stopped calls are not queued and hold no decision.
LEMMA StoppedCalls ==
  ASSUME TypeOK
  PROVE  /\ Stopped \in [Call -> {"new", "queued", "running", "over"} \cup Decision]
         /\ \A c \in Call : /\ Stopped[c] \in {"new", "over"}
                            /\ Stopped[c] = "new" <=> tool[c] = "new"
BY DEF TypeOK, Stopped

\* A new process keeps what is granted on disk and forgets the rest.
LEMMA RestartIInv == IInv /\ Restart => IInv'
<1> SUFFICES ASSUME IInv, Restart PROVE IInv'
  OBVIOUS
<1>1. /\ phase = "streaming" /\ asked = NoCall /\ verdict = "none"
      /\ tool' = Stopped /\ queue' = <<>>
      /\ UNCHANGED <<mode, memory, saved, phase, runMode, asked, verdict, denied, broken,
                     cancelling, plans, bounds, told, refusals, granted>>
  BY DEF IInv, TypeOK, Restart
<1>2. TypeOK'
  BY <1>1, StoppedCalls DEF IInv, TypeOK, plans, bounds
<1>3. Lined'
  BY <1>1, StoppedCalls, EmptyHasNoMembers DEF IInv, Lined
<1>4. HistoryTyped' /\ Quiet' /\ Granted'
  BY <1>1 DEF IInv, HistoryTyped, Quiet, Granted
<1>5. Refused' /\ Answered'
  BY <1>1, StoppedCalls DEF IInv, TypeOK, Refused, Answered, plans
<1> QED BY <1>2, <1>3, <1>4, <1>5 DEF IInv

\* A run ends with its grants in the file.
LEMMA EndRunIInv == IInv /\ phase # "idle" /\ EndRun => IInv'
<1> SUFFICES ASSUME IInv, phase # "idle", EndRun PROVE IInv'
  OBVIOUS
<1>1. /\ phase' = "idle" /\ tool' = Stopped /\ queue' = <<>> /\ asked' = NoCall
      /\ verdict' = "none" /\ broken' = FALSE /\ cancelling' = FALSE /\ saved' = {memory}
      /\ UNCHANGED <<mode, memory, runMode, denied, plans, bounds, told, refusals, granted>>
  BY DEF EndRun
<1>2. TypeOK'
  <2>1. Cardinality(saved') <= 1
    <3>1. Cardinality({memory}) = 1
      BY FS_Singleton
    <3> QED BY <1>1, <3>1
  <2>2. saved' \subseteq SUBSET (Root \cup Network)
    BY <1>1 DEF IInv, TypeOK
  <2> HIDE DEF IInv
  <2>3. <<>> \in Seq(Call)
    OBVIOUS
  <2> QED BY <1>1, <2>1, <2>2, <2>3, StoppedCalls DEF IInv, TypeOK, plans, bounds
<1>3. Lined'
  BY <1>1, StoppedCalls, EmptyHasNoMembers DEF IInv, Lined
<1>4. HistoryTyped' /\ Quiet' /\ Refused' /\ Answered'
  BY <1>1, StoppedCalls DEF IInv, TypeOK, HistoryTyped, Quiet, Refused, Answered, plans
<1>5. Granted'
  <2>1. granted' \subseteq memory /\ UNION saved' = memory /\ phase' = "idle"
    BY <1>1 DEF IInv, Granted
  <2> QED BY <2>1 DEF Granted
<1> QED BY <1>2, <1>3, <1>4, <1>5 DEF IInv

\* A tool begins under the policy of its run: it asks, runs or is refused.
LEMMA BeginToolIInv == ASSUME IInv, NEW c \in Call, BeginTool(c) PROVE IInv'
<1> DEFINE n == Needs[action[c]]
<1>1. /\ phase # "idle" /\ tool[c] = "new" /\ n \in Need
      /\ UNCHANGED <<mode, memory, saved, phase, runMode, asked, verdict, denied, broken,
                     cancelling, action, bounds, told, refusals, granted>>
  BY ApprovalAssumption DEF IInv, TypeOK, BeginTool
<1>2. c \notin Members(queue) /\ c # asked /\ c \notin asking
  BY <1>1, ApprovalAssumption DEF IInv, Lined, Answered
<1>3. CASE /\ tool' = [tool EXCEPT ![c] = "queued"] /\ queue' = Append(queue, c)
           /\ asking' = IF Covered(n) THEN asking ELSE asking \cup {c}
  <2>1. /\ queue' \in Seq(Call) /\ IsInjective(queue')
        /\ Members(queue') = Members(queue) \cup {c}
    BY <1>2, <1>3, AppendKeepsMembers DEF IInv, TypeOK, Lined
  <2>2. TypeOK'
    BY <1>1, <1>3, <2>1 DEF IInv, TypeOK, bounds
  <2>3. Lined'
    BY <1>1, <1>2, <1>3, <2>1 DEF IInv, TypeOK, Lined
  <2>4. HistoryTyped' /\ Quiet' /\ Granted'
    BY <1>1 DEF IInv, HistoryTyped, Quiet, Granted
  <2>5. \A d \in asking' : tool'[d] # "new" /\ Needs[action'[d]] \in Root \cup Network
    BY <1>1, <1>3 DEF IInv, TypeOK, Answered, Covered, Need
  <2>6. Answered'
    BY <1>1, <1>2, <1>3, <2>5 DEF IInv, TypeOK, Answered
  <2>7. Refused'
    BY <1>1, <1>2, <1>3 DEF IInv, TypeOK, Refused, Fingerprint
  <2> QED BY <2>2, <2>3, <2>4, <2>6, <2>7 DEF IInv
<1>4. CASE \E to \in {"running", "over"} :
             tool' = [tool EXCEPT ![c] = to] /\ UNCHANGED <<queue, asking>>
  <2>1. PICK to \in {"running", "over"} :
          tool' = [tool EXCEPT ![c] = to] /\ UNCHANGED <<queue, asking>>
    BY <1>4
  <2>2. TypeOK'
    BY <1>1, <2>1 DEF IInv, TypeOK, bounds
  <2>3. Lined'
    BY <1>1, <1>2, <2>1 DEF IInv, TypeOK, Lined
  <2>4. HistoryTyped' /\ Quiet' /\ Granted'
    BY <1>1 DEF IInv, HistoryTyped, Quiet, Granted
  <2>5. Answered'
    BY <1>1, <1>2, <2>1 DEF IInv, TypeOK, Answered
  <2>6. Refused'
    BY <1>1, <2>1 DEF IInv, Refused, Fingerprint
  <2> QED BY <2>2, <2>3, <2>4, <2>5, <2>6 DEF IInv
<1> QED BY <1>3, <1>4 DEF BeginTool

\* A tool goes on with its decision: a session grant joins the memory.
LEMMA ResumeIInv == ASSUME IInv, NEW c \in Call, Resume(c) PROVE IInv'
<1> DEFINE grants == IF tool[c] = "session" THEN {Needs[action[c]]} ELSE {}
<1>1. /\ tool[c] \in Decision
      /\ tool' = [tool EXCEPT ![c] = IF tool[c] = "denied" THEN "over" ELSE "running"]
      /\ memory' = memory \cup grants /\ granted' = granted \cup grants
      /\ told' = [told EXCEPT ![c] = "none"]
      /\ UNCHANGED <<mode, saved, run, plans, bounds, refusals>>
  BY DEF Resume
<1>2. grants \subseteq Root \cup Network
  BY DEF IInv, Answered
<1>3. /\ c \notin Members(queue) /\ c # asked /\ phase # "idle"
      /\ UNCHANGED <<phase, runMode, queue, asked, verdict, denied, broken, cancelling>>
  BY <1>1, ApprovalAssumption DEF IInv, Lined, Quiet, Decision, run
<1>4. TypeOK'
  BY <1>1, <1>2, <1>3 DEF IInv, TypeOK, plans, bounds, Decision
<1>5. HistoryTyped'
  BY <1>1, <1>2 DEF IInv, HistoryTyped
<1>6. Lined'
  BY <1>1, <1>3 DEF IInv, TypeOK, Lined
<1>7. Quiet' /\ Granted'
  BY <1>1, <1>3 DEF IInv, Quiet, Granted
<1>8. Answered'
  BY <1>1, <1>3 DEF IInv, TypeOK, HistoryTyped, Answered, plans
<1>9. Refused'
  BY <1>1, <1>3 DEF IInv, Refused, Fingerprint, plans
<1> QED BY <1>4, <1>5, <1>6, <1>7, <1>8, <1>9 DEF IInv

\* A tool ends, or breaks the stream and stops all others.
LEMMA EndToolIInv == ASSUME IInv, NEW c \in Call, EndTool(c) \/ BreakTool(c) PROVE IInv'
<1>1. /\ tool[c] = "running"
      /\ tool' \in [Call -> {"new", "queued", "running", "over"} \cup Decision]
      /\ \A d \in Call : tool'[d] = tool[d] \/ (tool[d] # "new" /\ tool'[d] = "over")
      /\ broken' \in BOOLEAN
      /\ UNCHANGED <<mode, memory, saved, phase, runMode, queue, asked, verdict, denied,
                     cancelling, plans, bounds, told, refusals, granted>>
  BY StoppedCalls DEF IInv, TypeOK, EndTool, BreakTool, Stopped, run
<1>2. phase # "idle" /\ Members(queue) \subseteq Call
  BY <1>1 DEF IInv, TypeOK, Quiet, Members
<1>3. TypeOK'
  BY <1>1 DEF IInv, TypeOK, plans, bounds
<1>4. Lined'
  BY <1>1, <1>2 DEF IInv, TypeOK, Lined
<1>5. HistoryTyped' /\ Quiet' /\ Granted'
  BY <1>1, <1>2 DEF IInv, HistoryTyped, Quiet, Granted
<1>6. Answered' /\ Refused'
  BY <1>1 DEF IInv, TypeOK, Answered, Refused, Fingerprint, plans
<1> QED BY <1>3, <1>4, <1>5, <1>6 DEF IInv

\* The client answers the pending approval, with a decision it may give.
LEMMA SubmitIInv == ASSUME IInv, NEW d, Submit(d) PROVE IInv'
<1>1. /\ phase = "asking" /\ verdict = "none" /\ asked \in Call
      /\ verdict' = Normalized(asked, d) /\ told' = [told EXCEPT ![asked] = verdict']
      /\ refusals' = IF verdict' = "denied" THEN refusals \cup {Fingerprint(asked)} ELSE refusals
      /\ UNCHANGED <<mode, memory, saved, phase, runMode, queue, asked, denied, broken,
                     cancelling, calls, bounds, granted>>
  BY DEF IInv, TypeOK, Submit
<1>2. verdict' \in Decision /\ (verdict' = "session" => asked \in asking)
  BY <1>1 DEF Submit, Submitted, Normalized, Decision
<1>3. Fingerprint(asked) \in Action \X BOOLEAN /\ Fingerprint(asked)' = Fingerprint(asked)
  BY <1>1, FingerprintTyped DEF IInv, Fingerprint, calls, plans
<1>4. TypeOK'
  BY <1>1, <1>2 DEF IInv, TypeOK, calls, plans, bounds
<1>5. HistoryTyped'
  BY <1>1, <1>2, <1>3 DEF IInv, HistoryTyped
<1>6. Lined' /\ Quiet' /\ Granted'
  BY <1>1 DEF IInv, Lined, Quiet, Granted, calls
<1>7. Answered'
  BY <1>1, <1>2 DEF IInv, TypeOK, HistoryTyped, Lined, Answered, calls, plans, Decision
<1>8. Refused'
  BY <1>1, <1>3 DEF IInv, Refused
<1> QED BY <1>4, <1>5, <1>6, <1>7, <1>8 DEF IInv

\* permission.set, an interrupt, a new backend: grants are taken back, or wait
\* in the file for the next run.
LEMMA ClientIInv ==
  ASSUME IInv, (\E m \in Mode : PermissionSet(m)) \/ Interrupt \/ RestartBackend
  PROVE  IInv'
<1>1. CASE \E m \in Mode : PermissionSet(m)
  <2>1. /\ mode' \in Mode /\ memory' = {} /\ granted' = {} /\ changes < MaxChanges
        /\ changes' = changes + 1 /\ UNCHANGED <<saved, run, calls, runs, told, refusals>>
    BY <1>1 DEF PermissionSet
  <2>2. TypeOK' /\ HistoryTyped'
    BY <2>1, ApprovalAssumption DEF IInv, TypeOK, HistoryTyped, run, calls, plans
  <2>3. Lined' /\ Quiet' /\ Answered' /\ Refused' /\ Granted'
    BY <2>1 DEF IInv, Lined, Quiet, Answered, Refused, Granted, Fingerprint, run, calls, plans
  <2> QED BY <2>2, <2>3 DEF IInv
<1>2. CASE Interrupt
  <2>1. TypeOK' /\ HistoryTyped'
    BY <1>2 DEF Interrupt, IInv, TypeOK, HistoryTyped, calls, plans, bounds
  <2>2. Lined' /\ Quiet' /\ Answered' /\ Refused' /\ Granted'
    BY <1>2 DEF Interrupt, IInv, Lined, Quiet, Answered, Refused, Granted, Fingerprint, calls, plans
  <2> QED BY <2>1, <2>2 DEF IInv
<1>3. CASE RestartBackend
  <2>1. TypeOK' /\ HistoryTyped'
    BY <1>3 DEF RestartBackend, IInv, TypeOK, HistoryTyped, run, calls, plans, bounds, Mode
  <2>2. Lined' /\ Quiet' /\ Answered' /\ Refused' /\ Granted'
    BY <1>3 DEF RestartBackend, IInv, Lined, Quiet, Answered, Refused, Granted, Fingerprint, run,
       calls, plans
  <2> QED BY <2>1, <2>2 DEF IInv
<1> QED BY <1>1, <1>2, <1>3

\* A step of nothing.
LEMMA StutterIInv == IInv /\ UNCHANGED vars => IInv'
BY DEF IInv, TypeOK, HistoryTyped, Lined, Quiet, Answered, Refused, Granted, Fingerprint, vars, run,
   calls, plans, bounds

\* Every step keeps the invariant.
LEMMA StepIInv == IInv /\ [Next]_vars => IInv'
<1> SUFFICES ASSUME IInv, [Next]_vars PROVE IInv'
  OBVIOUS
<1>1. CASE StartRun
  BY <1>1, StartRunIInv
<1>2. CASE TakeRequest
  BY <1>2, TakeRequestIInv
<1>3. CASE Resolve
  BY <1>3, ResolveIInv
<1>4. CASE Restart
  BY <1>4, RestartIInv
<1>5. CASE Succeed \/ Fail \/ Cancel
  <2>1. phase # "idle" /\ EndRun
    BY <1>5 DEF Succeed, Fail, Cancel, IInv, Quiet
  <2> QED BY <2>1, EndRunIInv
<1>6. ASSUME NEW c \in Call, Tool(c) PROVE IInv'
  BY <1>6, BeginToolIInv, ResumeIInv, EndToolIInv DEF Tool
<1>7. CASE Client
  BY <1>7, SubmitIInv, ClientIInv DEF Client
<1>8. CASE UNCHANGED vars
  BY <1>8, StutterIInv
<1> QED BY <1>1, <1>2, <1>3, <1>4, <1>5, <1>6, <1>7, <1>8 DEF Next, RunTask

-----------------------------------------------------------------------------
\* In every run of every session: the invariant, and with it the types.
THEOREM ApprovalInvariance == Spec => []IInv
<1> QED BY InitIInv, StepIInv, PTL DEF Spec

\* However calls, restarts, failures, answers and interrupts interleave, no tool
\* waits for an answer that cannot come (runtime/run.py, rpc/stdio.py).
THEOREM NobodyWaits == Spec => []NobodyWaitsInVain
<1>1. IInv => NobodyWaitsInVain
  BY InvGivesProperties
<1> QED BY <1>1, ApprovalInvariance, PTL

\* A grant for the session stays in force until permission.set, through ends of
\* runs and new backends (runtime/session.py, tools/_approval_flow.py).
THEOREM GrantsStay == Spec => []GrantsKept
<1>1. IInv => GrantsKept
  BY InvGivesProperties
<1> QED BY <1>1, ApprovalInvariance, PTL

\* What was denied is not asked again in its run, and a call that begins to run
\* is covered, or was approved itself (tools/_permissions.py, _approval_flow.py).
THEOREM DecisionsAlwaysHold == Spec => DecisionsHold
<1>1. IInv /\ [Next]_vars =>
        (phase # "asking" /\ phase' = "asking" => Fingerprint(asked') \notin refusals)
  <2> SUFFICES ASSUME IInv, [Next]_vars, phase # "asking", phase' = "asking"
               PROVE  Fingerprint(asked') \notin refusals
    OBVIOUS
  <2>1. TakeRequest
    BY DEF Next, RunTask, Tool, Client, StartRun, TakeRequest, Resolve, Restart, Succeed, Fail,
       Cancel, EndRun, BeginTool, Resume, EndTool, BreakTool, Submit, PermissionSet, Interrupt,
       RestartBackend, vars, run
  <2>2. phase = "streaming" /\ verdict = "none" /\ asked' = Head(queue)
        /\ Fingerprint(Head(queue)) \notin denied
    BY <2>1 DEF TakeRequest, IInv, TypeOK
  <2> QED BY <2>2 DEF IInv, Refused
<1>2. IInv /\ [Next]_vars =>
        \A c \in Call : tool[c] # "running" /\ tool'[c] = "running" =>
          \/ tool[c] = "new" /\ runMode # "always" /\ Covered(Needs[action[c]])
          \/ told[c] \in {"once", "session"}
  <2> SUFFICES ASSUME IInv, [Next]_vars, NEW c \in Call, tool[c] # "running", tool'[c] = "running"
               PROVE  \/ tool[c] = "new" /\ runMode # "always" /\ Covered(Needs[action[c]])
                      \/ told[c] \in {"once", "session"}
    OBVIOUS
  <2>1. BeginTool(c) \/ Resume(c)
    <3>1. tool \in [Call -> {"new", "queued", "running", "over"} \cup Decision]
      BY DEF IInv, TypeOK
    <3>2. CASE RunTask
      BY <3>1, <3>2, StoppedCalls DEF IInv, TypeOK, RunTask, StartRun, TakeRequest, Resolve,
         Restart, Succeed, Fail, Cancel, EndRun, calls, Decision
    <3>3. ASSUME NEW d \in Call, Tool(d) PROVE d = c /\ (BeginTool(c) \/ Resume(c))
      BY <3>1, <3>3, StoppedCalls DEF IInv, Tool, BeginTool, Resume, EndTool, BreakTool
    <3>4. CASE Client \/ UNCHANGED vars
      BY <3>4 DEF Client, Submit, PermissionSet, Interrupt, RestartBackend, vars, calls
    <3> QED BY <3>2, <3>3, <3>4 DEF Next
  <2>2. CASE BeginTool(c)
    BY <2>2 DEF BeginTool, Disposition, IInv, TypeOK
  <2>3. CASE Resume(c)
    BY <2>3 DEF Resume, IInv, TypeOK, Answered, Decision
  <2> QED BY <2>1, <2>2, <2>3
<1> QED BY <1>1, <1>2, ApprovalInvariance, PTL DEF Spec, DecisionsHold, NoRepeatedPrompt, RunsOnlyIfAllowed
=============================================================================
