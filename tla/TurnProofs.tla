----------------------------- MODULE TurnProofs ------------------------------
(***************************************************************************)
(* What a call of the session leaves behind, what its consumer sees, what  *)
(* the model is told, which MCP calls are made and what the client shows,  *)
(* for every number of servers, calls, failures, settings, tools and kept  *)
(* runs.  The invariant of the session says, for each place of the call,   *)
(* which events were shown and which servers are open; that of the turn    *)
(* context, that nothing is enabled between runs; that of the tools, that  *)
(* mounted names and admitted tools correspond one to one; that of the     *)
(* transcript, that its indexes and intervals fit its cells and that what  *)
(* is not marked as dirty is as it was rendered.                           *)
(***************************************************************************)
EXTENDS MCTurn, SequenceTheorems, FiniteSetTheorems, TLAPS

Event == {"compaction_started", "compaction_completed", "mcp_failed", "status", "started",
          "tool_started", "tool_ended", "succeeded", "failed"}
Place == {"idle", "compacting", "config", "starting", "listing", "framing", "running", "closing"}
BeforeRun == {"compacting", "config", "starting", "listing", "framing"}

SessionTyped ==
  /\ pc \in Place /\ shown \in Seq(Event) /\ running \in BOOLEAN /\ loadable \in BOOLEAN
  /\ log \in Seq({"failed", "ok", "byhand"})
  /\ closing \in [left : SUBSET open,
                  then : {"none", "mcp_failed", "raised", "returned", "cancelled", "dropped"}]

\* What the consumer has seen of the call, and whether the end of the run is there.
Seen == {shown[i] : i \in DOMAIN shown}
Over == S!Terminal \cap Seen # {}
LastOnly == \A i \in DOMAIN shown : shown[i] \in S!Terminal => i = Len(shown)

\* The servers that are open while the call goes on, and those still to be closed.
OpenTracked ==
  /\ pc \in {"compacting", "config"} => open = {}
  /\ pc = "closing" => open = closing.left

\* Before the run nothing of it is shown or in the file, and the file is loadable.
Unbegun == "started" \notin Seen /\ "failed" \notin Seen
RunTracked ==
  /\ pc \in BeforeRun => Unbegun
  /\ pc = "closing" /\ closing.then = "mcp_failed" => Unbegun
  /\ Unbegun => file = "none" /\ ~Over
  /\ "started" \notin Seen => "tool_started" \notin Seen /\ (pc = "running" => ~Over)
  /\ pc # "idle" => ended = "none" /\ (loadable \/ ~Unbegun)

\* The end of a run is shown once and last, with every tool call answered before.
EndTracked ==
  /\ LastOnly
  /\ pc = "running" /\ "tool_started" \in Seen => running \/ "tool_ended" \in Seen
  /\ Over /\ "tool_started" \in Seen => "tool_ended" \in Seen
  /\ pc = "closing" /\ "started" \in Seen /\ ~Over => closing.then = "dropped"
  /\ pc = "idle" /\ "started" \in Seen /\ ~Over /\ ended # "none" => ended \in {"dropped", "close_failed"}

\* Failures are counted from the latest success on.
CountTracked ==
  /\ failures = Cardinality(S!Earned)
  /\ ended = "blocked" => failures >= MaxFailures

\* What is promised of a call that is over, by what was seen.
ServersGone ==
  pc = "idle" /\ open # {} =>
    ended \in {"close_failed", "unframed"} \/ (ended \in {"cancelled", "dropped"} /\ "started" \notin Seen)
NoRunLeft ==
  pc = "idle" /\ Unbegun => file = "none" /\ (loadable \/ ended = "unloadable")

SessionIInv ==
  /\ SessionTyped /\ OpenTracked /\ RunTracked /\ EndTracked /\ CountTracked
  /\ ServersGone /\ NoRunLeft

-----------------------------------------------------------------------------
\* The questions the actions ask, by what was seen.
LEMMA SeenIs ==
  /\ \A e : S!Saw(e) <=> e \in Seen
  /\ S!RunSeen <=> "started" \in Seen
  /\ (\E how \in S!Terminal : S!Saw(how)) <=> Over
  /\ S!Running <=> pc = "running" /\ ~Over
BY DEF S!Saw, Seen, S!RunSeen, S!Running, Over

\* One more event is shown, while no end was.
LEMMA TellOne ==
  ASSUME shown \in Seq(Event), LastOnly, ~Over, NEW e \in Event, S!Shown(e)
  PROVE  shown' \in Seq(Event) /\ Seen' = Seen \cup {e} /\ LastOnly'
<1>1. /\ shown' \in Seq(Event) /\ Len(shown') = Len(shown) + 1 /\ DOMAIN shown' = 1..(Len(shown) + 1)
      /\ Len(shown) \in Nat /\ DOMAIN shown = 1..Len(shown)
      /\ \A i \in 1..Len(shown) : shown'[i] = shown[i]
      /\ shown'[Len(shown) + 1] = e
  BY AppendProperties, LenProperties DEF S!Shown
<1>2. \A i \in DOMAIN shown : shown[i] \notin S!Terminal
  BY DEF Over, Seen
<1>3. LastOnly'
  BY <1>1, <1>2 DEF LastOnly
<1>4. Seen' \subseteq Seen \cup {e}
  BY <1>1 DEF Seen
<1>5. Seen \subseteq Seen' /\ e \in Seen'
  BY <1>1 DEF Seen
<1> QED BY <1>1, <1>3, <1>4, <1>5

\* The run is told as failed, with the tool call that is still unanswered.
LEMMA TellFailures ==
  ASSUME shown \in Seq(Event), LastOnly, ~Over, shown' = shown \o S!Failures
  PROVE  /\ shown' \in Seq(Event) /\ LastOnly'
         /\ Seen' = Seen \cup (IF running THEN {"tool_ended"} ELSE {}) \cup {"failed"}
<1> DEFINE fs == S!Failures
<1>1. <<"tool_ended">> \in Seq(Event) /\ <<"failed">> \in Seq(Event) /\ <<>> \in Seq(Event)
  BY DEF Event
<1>2. /\ fs \in Seq(Event) /\ Len(fs) \in {1, 2} /\ fs[Len(fs)] = "failed"
      /\ Len(fs) = 2 <=> running
      /\ Len(fs) = 2 => fs[1] = "tool_ended"
  <2>1. CASE running
    <3>1. fs = <<"tool_ended">> \o <<"failed">>
      BY <2>1 DEF S!Failures
    <3> QED BY <1>1, <2>1, <3>1, ConcatProperties
  <2>2. CASE ~running
    <3>1. fs = <<"failed">>
      BY <1>1, <2>2, ConcatEmptySeq DEF S!Failures
    <3> QED BY <1>1, <2>2, <3>1
  <2> QED BY <2>1, <2>2
<1> HIDE DEF fs
<1>3. shown' = shown \o fs
  BY DEF fs
<1>4. /\ shown' \in Seq(Event) /\ Len(shown) \in Nat /\ DOMAIN shown = 1..Len(shown)
      /\ Len(shown') = Len(shown) + Len(fs) /\ DOMAIN shown' = 1..Len(shown')
      /\ \A i \in 1..Len(shown) : shown'[i] = shown[i]
      /\ \A i \in 1..Len(fs) : shown'[Len(shown) + i] = fs[i]
  <2>1. Len(shown) \in Nat /\ DOMAIN shown = 1..Len(shown)
    BY LenProperties
  <2>2. /\ shown \o fs \in Seq(Event) /\ Len(shown \o fs) = Len(shown) + Len(fs)
        /\ \A i \in 1..(Len(shown) + Len(fs)) :
             (shown \o fs)[i] = IF i <= Len(shown) THEN shown[i] ELSE fs[i - Len(shown)]
    BY <1>2, ConcatProperties
  <2>3. DOMAIN shown' = 1..Len(shown')
    BY <1>3, <2>2, LenProperties
  <2> QED BY <1>2, <1>3, <2>1, <2>2, <2>3
<1>5. \A i \in DOMAIN shown : shown[i] \notin S!Terminal
  BY DEF Over, Seen
<1>6. \A i \in DOMAIN shown' : \/ i \in DOMAIN shown
                               \/ i = Len(shown') /\ shown'[i] = "failed"
                               \/ running /\ i = Len(shown) + 1 /\ shown'[i] = "tool_ended"
  <2> SUFFICES ASSUME NEW i \in DOMAIN shown', i \notin DOMAIN shown
               PROVE  \/ i = Len(shown') /\ shown'[i] = "failed"
                      \/ running /\ i = Len(shown) + 1 /\ shown'[i] = "tool_ended"
    OBVIOUS
  <2>1. i \in Nat /\ i > Len(shown) /\ i <= Len(shown) + Len(fs)
    BY <1>2, <1>4
  <2>2. CASE Len(fs) = 1
    <3>1. i = Len(shown) + 1
      BY <1>4, <2>1, <2>2
    <3> QED BY <1>2, <1>4, <2>2, <3>1
  <2>3. CASE Len(fs) = 2
    <3>1. i = Len(shown) + 1 \/ i = Len(shown) + 2
      BY <1>4, <2>1, <2>3
    <3> QED BY <1>2, <1>4, <2>3, <3>1
  <2> QED BY <1>2, <2>2, <2>3
<1>7. LastOnly'
  BY <1>4, <1>5, <1>6 DEF LastOnly, S!Terminal
<1>8. Seen' \subseteq Seen \cup (IF running THEN {"tool_ended"} ELSE {}) \cup {"failed"}
  BY <1>4, <1>6 DEF Seen
<1>9. Seen \subseteq Seen'
  BY <1>2, <1>4 DEF Seen
<1>10. "failed" \in Seen'
  <2>1. Len(shown') \in DOMAIN shown' /\ shown'[Len(shown')] = "failed"
    BY <1>2, <1>4
  <2> QED BY <2>1 DEF Seen
<1>11. running => "tool_ended" \in Seen'
  <2>1. running => Len(shown) + 1 \in DOMAIN shown' /\ shown'[Len(shown) + 1] = "tool_ended"
    BY <1>2, <1>4
  <2> QED BY <2>1 DEF Seen
<1> QED BY <1>4, <1>7, <1>8, <1>9, <1>10, <1>11

\* The same cardinality, by the name it has in the instance.
LEMMA CardinalityIs == \A s : S!Cardinality(s) = Cardinality(s)
BY DEF S!Cardinality, Cardinality

\* What an entry of the log does to the failures that count.
LEMMA LogOne ==
  ASSUME log \in Seq({"failed", "ok", "byhand"}), NEW e \in {"failed", "ok", "byhand"},
         log' = Append(log, e)
  PROVE  /\ log' \in Seq({"failed", "ok", "byhand"})
         /\ e = "failed" => Cardinality(S!Earned') = Cardinality(S!Earned) + 1
         /\ e = "ok" => Cardinality(S!Earned') = 0
         /\ e = "byhand" => Cardinality(S!Earned') = Cardinality(S!Earned)
         /\ Cardinality(S!Earned) \in Nat
<1>1. /\ log' \in Seq({"failed", "ok", "byhand"}) /\ Len(log') = Len(log) + 1 /\ Len(log) \in Nat
      /\ DOMAIN log' = 1..(Len(log) + 1) /\ DOMAIN log = 1..Len(log)
      /\ \A i \in 1..Len(log) : log'[i] = log[i]
      /\ log'[Len(log) + 1] = e
  BY AppendProperties, LenProperties
<1>2. IsFiniteSet(S!Earned) /\ Cardinality(S!Earned) \in Nat
  <2>1. S!Earned \subseteq 1..Len(log)
    BY <1>1 DEF S!Earned
  <2>2. IsFiniteSet(1..Len(log))
    BY <1>1, FS_Interval
  <2>3. IsFiniteSet(S!Earned)
    BY <2>1, <2>2, FS_Subset
  <2> QED BY <2>3, FS_CardinalityType
<1>3. CASE e = "failed"
  <2>1. S!Earned' = S!Earned \cup {Len(log) + 1}
    BY <1>1, <1>3 DEF S!Earned
  <2>2. Len(log) + 1 \notin S!Earned
    BY <1>1 DEF S!Earned
  <2> QED BY <1>1, <1>2, <1>3, <2>1, <2>2, FS_AddElement
<1>4. CASE e = "ok"
  <2>1. S!Earned' = {}
    BY <1>1, <1>4 DEF S!Earned
  <2> QED BY <1>1, <1>2, <1>4, <2>1, FS_EmptySet
<1>5. CASE e = "byhand"
  <2>1. S!Earned' = S!Earned
    BY <1>1, <1>5 DEF S!Earned
  <2> QED BY <1>1, <1>2, <1>5, <2>1
<1> QED BY <1>3, <1>4, <1>5

\* A step that shows nothing.
LEMMA ToldSame == UNCHANGED shown => Seen' = Seen /\ LastOnly' = LastOnly
BY DEF Seen, LastOnly

\* Nothing is shown, logged or open at first.
LEMMA SessionInit == S!Init => SessionIInv
<1> SUFFICES ASSUME S!Init PROVE SessionIInv
  OBVIOUS
<1>1. shown = <<>> /\ log = <<>> /\ <<>> \in Seq(Event) /\ <<>> \in Seq({"failed", "ok", "byhand"})
  BY EmptySeq DEF S!Init
<1>2. Seen = {} /\ LastOnly
  BY <1>1 DEF Seen, LastOnly
<1>3. Cardinality(S!Earned) = 0
  <2>1. S!Earned = {}
    BY <1>1 DEF S!Earned
  <2> QED BY <2>1, FS_EmptySet
<1> QED BY <1>1, <1>2, <1>3 DEF S!Init, SessionIInv, SessionTyped, Place, OpenTracked, RunTracked, Unbegun, EndTracked,
         CountTracked, ServersGone, NoRunLeft, Over

\* The parts that a step of the run or of the servers does not touch.
LEMMA LogSame == UNCHANGED <<failures, log>> /\ (ended' = ended \/ ended' # "blocked") /\ CountTracked => CountTracked'
BY DEF CountTracked, S!Earned

\* The call begins and compacts the session before it.
LEMMA PrepareStep == SessionIInv /\ S!Prepare => SessionIInv'
<1> SUFFICES ASSUME SessionIInv, S!Prepare PROVE SessionIInv'
  OBVIOUS
<1> USE DEF SessionIInv, S!mcp, S!run, S!session, S!Ends, Place, BeforeRun
<1>1. CASE S!BeginCall
  <2>1. Seen' = {} /\ LastOnly' /\ shown' \in Seq(Event)
    <3>1. shown' = <<>>
      BY <1>1 DEF S!BeginCall
    <3> QED BY <3>1, EmptySeq DEF Seen, LastOnly
  <2>2. CountTracked'
    BY <1>1 DEF S!BeginCall, CountTracked, S!Earned
  <2> QED BY <1>1, <2>1, <2>2 DEF S!BeginCall, SessionTyped, OpenTracked, RunTracked, Unbegun, EndTracked,
           ServersGone, NoRunLeft, Over
<1>2. CASE S!Announce
  <2>1. shown' \in Seq(Event) /\ Seen' = Seen \cup {"compaction_started"} /\ LastOnly'
    BY <1>2, TellOne DEF S!Announce, SessionTyped, RunTracked, Unbegun, EndTracked, Event
  <2> QED BY <1>2, <2>1, LogSame DEF S!Announce, SessionTyped, OpenTracked, RunTracked, Unbegun, EndTracked,
           ServersGone, NoRunLeft, Over, S!Terminal
<1>3. CASE S!CompactionFails
  <2>1. Seen' = Seen /\ LastOnly'
    BY <1>3, ToldSame DEF S!CompactionFails, EndTracked
  <2>2. CountTracked' /\ log' \in Seq({"failed", "ok", "byhand"})
    BY <1>3, LogOne DEF S!CompactionFails, CountTracked, SessionTyped
  <2> QED BY <1>3, <2>1, <2>2 DEF S!CompactionFails, SessionTyped, OpenTracked, RunTracked, Unbegun, EndTracked,
           ServersGone, NoRunLeft, Over
<1>4. CASE S!Compacted
  <2>1. shown' \in Seq(Event) /\ Seen' = Seen \cup {"compaction_completed"} /\ LastOnly'
    BY <1>4, TellOne DEF S!Compacted, SessionTyped, RunTracked, Unbegun, EndTracked, Event
  <2>2. CountTracked' /\ log' \in Seq({"failed", "ok", "byhand"})
    BY <1>4, LogOne DEF S!Compacted, CountTracked, SessionTyped, RunTracked
  <2> QED BY <1>4, <2>1, <2>2 DEF S!Compacted, SessionTyped, OpenTracked, RunTracked, Unbegun, EndTracked,
           ServersGone, NoRunLeft, Over, S!Terminal
<1>5. CASE S!CompactByHand
  <2>1. Seen' = Seen /\ LastOnly'
    BY <1>5, ToldSame DEF S!CompactByHand, EndTracked
  <2>2. CountTracked' /\ log' \in Seq({"failed", "ok", "byhand"})
    BY <1>5, LogOne DEF S!CompactByHand, CountTracked, SessionTyped
  <2> QED BY <1>5, <2>1, <2>2 DEF S!CompactByHand, SessionTyped, OpenTracked, RunTracked, Unbegun, EndTracked,
           ServersGone, NoRunLeft, Over
<1> QED BY <1>1, <1>2, <1>3, <1>4, <1>5 DEF S!Prepare

\* The configuration is read, the servers start and the request is framed.
LEMMA StartStep == SessionIInv /\ S!Start => SessionIInv'
<1> SUFFICES ASSUME SessionIInv, S!Start PROVE SessionIInv'
  OBVIOUS
<1> USE DEF SessionIInv, S!mcp, S!run, S!session, S!Ends, Place, BeforeRun
<1>1. CASE S!Mounted /\ tokens > 0
  <2>1. shown' \in Seq(Event) /\ Seen' = Seen \cup {"status"} /\ LastOnly'
    BY <1>1, TellOne DEF S!Mounted, SessionTyped, RunTracked, Unbegun, EndTracked, Event
  <2>2. CountTracked'
    BY <1>1, LogSame DEF S!Mounted
  <2> QED BY <1>1, <2>1, <2>2 DEF S!Mounted, SessionTyped, OpenTracked, RunTracked, Unbegun, EndTracked,
           ServersGone, NoRunLeft, Over, S!Terminal
<1>2. CASE ~(S!Mounted /\ tokens > 0)
  <2>1. UNCHANGED <<shown, failures, log>> /\ ended' \in {ended, "raised", "unframed"}
    BY <1>2 DEF S!Start, S!BadConfig, S!Configured, S!Enters, S!ListFails, S!Lists, S!Mounted, S!StartFails,
                S!FramingFails, S!AgentFails, S!AgentBuilt
  <2>2. Seen' = Seen /\ LastOnly' /\ CountTracked'
    BY <2>1, ToldSame, LogSame DEF EndTracked
  <2>3. CASE S!BadConfig
    BY <2>1, <2>2, <2>3 DEF S!BadConfig, SessionTyped, OpenTracked, RunTracked, Unbegun, EndTracked,
       ServersGone, NoRunLeft, Over
  <2>7. CASE S!FramingFails
    BY <2>1, <2>2, <2>7 DEF S!FramingFails, SessionTyped, OpenTracked, RunTracked, Unbegun, EndTracked, ServersGone,
       NoRunLeft, Over
  <2>6. CASE S!Configured \/ S!AgentBuilt \/ S!Lists \/ S!Mounted
    <3>1. /\ pc \in BeforeRun /\ pc' \in {"starting", "framing", "running"}
          /\ UNCHANGED <<open, closing, running, file, loadable, ended>>
      BY <1>2, <2>6 DEF S!Configured, S!AgentBuilt, S!Lists, S!Mounted
    <3>2. SessionTyped'
      BY <2>1, <2>6, <3>1 DEF SessionTyped, S!Configured, S!AgentBuilt, S!Lists, S!Mounted
    <3> QED BY <2>2, <3>1, <3>2 DEF OpenTracked, RunTracked, Unbegun, EndTracked, ServersGone, NoRunLeft, Over
  <2>4. CASE S!Enters
    BY <2>1, <2>2, <2>4 DEF S!Enters, SessionTyped,
       OpenTracked, RunTracked, Unbegun, EndTracked, ServersGone, NoRunLeft, Over
  <2>5. CASE S!ListFails \/ S!StartFails \/ S!AgentFails
    <3>1. PICK how \in {"mcp_failed", "raised"} :
            /\ pc \in BeforeRun /\ pc' = "closing" /\ closing' = [left |-> open, then |-> how]
            /\ UNCHANGED <<open, running, file, loadable, ended>>
      BY <2>5 DEF S!ListFails, S!StartFails, S!AgentFails
    <3>2. SessionTyped'
      BY <2>1, <3>1 DEF SessionTyped
    <3>3. OpenTracked' /\ ServersGone' /\ NoRunLeft'
      BY <3>1 DEF OpenTracked, ServersGone, NoRunLeft
    <3>4. RunTracked'
      BY <2>2, <3>1 DEF RunTracked, Unbegun, Over
    <3>5. EndTracked'
      BY <2>2, <3>1 DEF EndTracked, RunTracked, Unbegun, Over
    <3> QED BY <2>2, <3>2, <3>3, <3>4, <3>5
  <2> QED BY <2>3, <2>4, <2>5, <2>6, <2>7 DEF S!Start
<1> QED BY <1>1, <1>2

\* While the run goes on, and it has begun.
LEMMA StreamStep == SessionIInv /\ S!Stream => SessionIInv'
<1> SUFFICES ASSUME SessionIInv, S!Stream PROVE SessionIInv'
  OBVIOUS
<1> USE SeenIs DEF SessionIInv, S!mcp, S!run, S!session, Place, BeforeRun
<1>1. CASE S!RunStarted
  <2>1. shown' \in Seq(Event) /\ Seen' = Seen \cup {"started"} /\ LastOnly'
    BY <1>1, TellOne DEF S!RunStarted, SessionTyped, EndTracked, Event
  <2>2. CountTracked'
    BY <1>1, LogSame DEF S!RunStarted
  <2> QED BY <1>1, <2>1, <2>2 DEF S!RunStarted, SessionTyped, OpenTracked, RunTracked, Unbegun, EndTracked,
           ServersGone, NoRunLeft, Over, S!Terminal
<1>2. CASE S!ToolStarted
  <2>1. shown' \in Seq(Event) /\ Seen' = Seen \cup {"tool_started"} /\ LastOnly'
    BY <1>2, TellOne DEF S!ToolStarted, SessionTyped, EndTracked, Event
  <2>2. CountTracked'
    BY <1>2, LogSame DEF S!ToolStarted
  <2> QED BY <1>2, <2>1, <2>2 DEF S!ToolStarted, SessionTyped, OpenTracked, RunTracked, Unbegun, EndTracked,
           ServersGone, NoRunLeft, Over, S!Terminal
<1>3. CASE S!ToolEnded
  <2>1. shown' \in Seq(Event) /\ Seen' = Seen \cup {"tool_ended"} /\ LastOnly'
    BY <1>3, TellOne DEF S!ToolEnded, SessionTyped, EndTracked, Event
  <2>2. CountTracked'
    BY <1>3, LogSame DEF S!ToolEnded
  <2> QED BY <1>3, <2>1, <2>2 DEF S!ToolEnded, SessionTyped, OpenTracked, RunTracked, Unbegun, EndTracked,
           ServersGone, NoRunLeft, Over, S!Terminal
<1>4. ASSUME NEW how \in S!Terminal, S!RunEnds(how) PROVE SessionIInv'
  <2>1. shown' \in Seq(Event) /\ Seen' = Seen \cup {how} /\ LastOnly'
    BY <1>4, TellOne DEF S!RunEnds, SessionTyped, EndTracked, Event, S!Terminal
  <2>2. CountTracked'
    BY <1>4, LogSame DEF S!RunEnds
  <2> QED BY <1>4, <2>1, <2>2 DEF S!RunEnds, SessionTyped, OpenTracked, RunTracked, Unbegun, EndTracked,
           ServersGone, NoRunLeft, Over, S!Terminal
<1>5. CASE S!StreamEnds
  <2>1. Seen' = Seen /\ LastOnly' /\ CountTracked'
    BY <1>5, ToldSame, LogSame DEF S!StreamEnds, S!Finishing, EndTracked
  <2>2. PICK how \in {"returned", "raised"} :
          /\ pc = "running" /\ Over /\ pc' = "closing" /\ closing' = [left |-> open, then |-> how]
          /\ UNCHANGED <<open, running, shown, ended, log>>
          /\ loadable' \in BOOLEAN
    BY <1>5 DEF S!StreamEnds, S!Finishing, S!Finalized, SessionTyped
  <2>3. SessionTyped'
    BY <2>2 DEF SessionTyped
  <2> QED BY <2>1, <2>2, <2>3 DEF OpenTracked, RunTracked, Unbegun, EndTracked, ServersGone, NoRunLeft, Over
<1>6. CASE S!LoopFails
  <2>1. CountTracked'
    BY <1>6, LogSame DEF S!LoopFails, S!Finishing
  <2>2. /\ pc = "running" /\ ~Over /\ pc' = "closing" /\ closing' = [left |-> open, then |-> "raised"]
        /\ running' = FALSE /\ UNCHANGED <<open, file, ended, log>>
        /\ loadable' = (loadable /\ "started" \notin Seen)
    BY <1>6 DEF S!LoopFails, S!Finishing
  <2>3. CASE "started" \in Seen
    <3>1. shown' \in Seq(Event) /\ LastOnly'
          /\ Seen' = Seen \cup (IF running THEN {"tool_ended"} ELSE {}) \cup {"failed"}
      BY <1>6, <2>2, <2>3, TellFailures DEF S!LoopFails, SessionTyped, EndTracked
    <3>2. SessionTyped'
      BY <2>2, <3>1 DEF SessionTyped
    <3> QED BY <2>1, <2>2, <2>3, <3>1, <3>2
            DEF OpenTracked, RunTracked, Unbegun, EndTracked, ServersGone, NoRunLeft, Over, S!Terminal, SessionTyped
  <2>4. CASE "started" \notin Seen
    <3>1. UNCHANGED shown /\ Seen' = Seen /\ LastOnly'
      BY <1>6, <2>4, ToldSame DEF S!LoopFails, EndTracked
    <3>2. SessionTyped'
      BY <2>2, <3>1 DEF SessionTyped
    <3> QED BY <2>1, <2>2, <2>4, <3>1, <3>2
            DEF OpenTracked, RunTracked, Unbegun, EndTracked, ServersGone, NoRunLeft, Over
  <2> QED BY <2>3, <2>4
<1>7. CASE S!RunStartFails
  <2>1. shown' \in Seq(Event) /\ Seen' = Seen \cup {"failed"} /\ LastOnly'
    BY <1>7, TellOne DEF S!RunStartFails, SessionTyped, EndTracked, Event
  <2>2. CountTracked'
    BY <1>7, LogSame DEF S!RunStartFails
  <2>3. /\ pc = "running" /\ ~Over /\ "started" \notin Seen
        /\ pc' = "closing" /\ closing' = [left |-> open, then |-> "raised"]
        /\ UNCHANGED <<open, running, ended, log>> /\ loadable' \in BOOLEAN
    BY <1>7 DEF S!RunStartFails, S!Finishing, SessionTyped
  <2>4. SessionTyped'
    BY <2>1, <2>3 DEF SessionTyped
  <2> QED BY <2>1, <2>2, <2>3, <2>4 DEF OpenTracked, RunTracked, Unbegun, EndTracked, ServersGone, NoRunLeft, Over,
           S!Terminal
<1> QED BY <1>1, <1>2, <1>3, <1>4, <1>5, <1>6, <1>7 DEF S!Stream

\* The caller stops the call, or its end closes the servers one by one.
LEMMA StopStep == SessionIInv /\ S!Stops => SessionIInv'
<1> SUFFICES ASSUME SessionIInv, S!Stops PROVE SessionIInv'
  OBVIOUS
<1> USE SeenIs DEF SessionIInv, S!mcp, S!run, S!session, S!Ends, Place, BeforeRun
<1>1. CASE S!CancelStart \/ S!DropStart
  <2>1. Seen' = Seen /\ LastOnly' /\ CountTracked'
    BY <1>1, ToldSame, LogSame DEF S!CancelStart, S!DropStart, EndTracked
  <2>2. PICK how \in {"cancelled", "dropped"} :
          /\ pc \in BeforeRun /\ pc' = "idle" /\ ended' = how
          /\ UNCHANGED <<shown, open, closing, running, file, loadable, log>>
    BY <1>1 DEF S!CancelStart, S!DropStart, S!Waits, S!Yields
  <2> QED BY <2>1, <2>2 DEF SessionTyped, OpenTracked, RunTracked, Unbegun, EndTracked, ServersGone, NoRunLeft, Over
<1>2. CASE S!CancelRun
  <2>1. CountTracked'
    BY <1>2, LogSame DEF S!CancelRun, S!Finishing
  <2>2. /\ pc = "running" /\ pc' = "closing" /\ closing' = [left |-> open, then |-> "cancelled"]
        /\ running' = FALSE /\ UNCHANGED <<open, ended, log>>
        /\ loadable' \in BOOLEAN
        /\ "started" \notin Seen => UNCHANGED <<file, loadable>>
    BY <1>2 DEF S!CancelRun, S!Finishing, S!Finalized, SessionTyped
  <2>3. CASE "started" \in Seen /\ ~Over
    <3>1. shown' \in Seq(Event) /\ LastOnly'
          /\ Seen' = Seen \cup (IF running THEN {"tool_ended"} ELSE {}) \cup {"failed"}
      BY <1>2, <2>2, <2>3, TellFailures DEF S!CancelRun, SessionTyped, EndTracked
    <3>2. SessionTyped'
      BY <2>2, <3>1 DEF SessionTyped
    <3> QED BY <2>1, <2>2, <2>3, <3>1, <3>2
            DEF OpenTracked, RunTracked, Unbegun, EndTracked, ServersGone, NoRunLeft, Over, S!Terminal, SessionTyped
  <2>4. CASE "started" \notin Seen \/ Over
    <3>1. UNCHANGED shown /\ Seen' = Seen /\ LastOnly'
      BY <1>2, <2>2, <2>4, ToldSame DEF S!CancelRun, EndTracked
    <3>2. SessionTyped'
      BY <2>2, <3>1 DEF SessionTyped
    <3> QED BY <2>1, <2>2, <2>4, <3>1, <3>2
            DEF OpenTracked, RunTracked, Unbegun, EndTracked, ServersGone, NoRunLeft, Over
  <2> QED BY <2>3, <2>4
<1>3. CASE S!DropRun
  <2>1. Seen' = Seen /\ LastOnly' /\ CountTracked'
    BY <1>3, ToldSame, LogSame DEF S!DropRun, S!Finishing, EndTracked
  <2>2. /\ pc = "running" /\ pc' = "closing" /\ closing' = [left |-> open, then |-> "dropped"]
        /\ running' = FALSE /\ UNCHANGED <<open, ended, log, shown>> /\ "started" \in Seen
        /\ loadable' \in BOOLEAN
    BY <1>3 DEF S!DropRun, S!Finishing, S!Finalized, SessionTyped
  <2>3. SessionTyped'
    BY <2>2 DEF SessionTyped
  <2> QED BY <2>1, <2>2, <2>3 DEF OpenTracked, RunTracked, Unbegun, EndTracked, ServersGone, NoRunLeft, Over
<1>4. CASE S!Close
  <2>1. Seen' = Seen /\ LastOnly' /\ CountTracked'
    BY <1>4, ToldSame, LogSame DEF S!Close, EndTracked
  <2>2. PICK last : open' = open \ {last} /\ closing' = [closing EXCEPT !.left = @ \ {last}]
    BY <1>4 DEF S!Close
  <2>3. closing' = [left |-> closing.left \ {last}, then |-> closing.then]
    BY <2>2 DEF SessionTyped
  <2>4. pc = "closing" /\ UNCHANGED <<pc, shown, running, file, loadable, ended, log>>
    BY <1>4 DEF S!Close
  <2>5. SessionTyped'
    BY <2>2, <2>3, <2>4 DEF SessionTyped
  <2> QED BY <2>1, <2>2, <2>3, <2>4, <2>5 DEF OpenTracked, RunTracked, Unbegun, EndTracked, ServersGone, NoRunLeft, Over
<1>5. CASE S!CloseStops
  <2>1. Seen' = Seen /\ LastOnly' /\ CountTracked'
    BY <1>5, ToldSame, LogSame DEF S!CloseStops, EndTracked
  <2>2. closing' = [left |-> {}, then |-> closing.then]
    BY <1>5 DEF S!CloseStops, SessionTyped
  <2>3. SessionTyped'
    BY <1>5, <2>2 DEF S!CloseStops, SessionTyped
  <2> QED BY <1>5, <2>1, <2>2, <2>3 DEF S!CloseStops, OpenTracked, RunTracked, Unbegun, EndTracked,
           ServersGone, NoRunLeft, Over
<1>6. CASE S!Closed /\ closing.then = "mcp_failed"
  <2>1. shown' \in Seq(Event) /\ Seen' = Seen \cup {"mcp_failed"} /\ LastOnly'
    BY <1>6, TellOne DEF S!Closed, SessionTyped, RunTracked, Unbegun, EndTracked, Event
  <2>2. CountTracked'
    BY <1>6, LogSame DEF S!Closed
  <2> QED BY <1>6, <2>1, <2>2 DEF S!Closed, SessionTyped, OpenTracked, RunTracked, Unbegun, EndTracked,
           ServersGone, NoRunLeft, Over, S!Terminal
<1>7. CASE S!Closed /\ closing.then # "mcp_failed"
  <2>1. Seen' = Seen /\ LastOnly'
    BY <1>7, ToldSame DEF S!Closed, EndTracked
  <2>2. CountTracked'
    BY <1>7, LogSame DEF S!Closed, SessionTyped
  <2> QED BY <1>7, <2>1, <2>2 DEF S!Closed, SessionTyped, OpenTracked, RunTracked, Unbegun, EndTracked,
           ServersGone, NoRunLeft, Over
<1> QED BY <1>1, <1>2, <1>3, <1>4, <1>5, <1>6, <1>7 DEF S!Stops

\* Every step of the session keeps the invariant.
LEMMA SessionStep == SessionIInv /\ [S!Next]_S!vars => SessionIInv'
<1>1. SessionIInv /\ UNCHANGED S!vars => SessionIInv'
  BY ToldSame, LogSame DEF S!vars, S!mcp, S!run, S!session, SessionIInv, SessionTyped, OpenTracked, RunTracked,
     Unbegun, EndTracked, ServersGone, NoRunLeft, Over
<1> QED BY <1>1, PrepareStep, StartStep, StreamStep, StopStep DEF S!Next

\* What the invariant promises of a call that is over.
LEMMA SessionGives == SessionIInv => S!CallLeavesNothing /\ S!ConsumerSeesEnd
<1> SUFFICES ASSUME SessionIInv PROVE S!CallLeavesNothing /\ S!ConsumerSeesEnd
  OBVIOUS
<1>1. S!ServersClosed /\ S!FailedStartLeavesNoRun
  BY SeenIs DEF S!ServersClosed, S!FailedStartLeavesNoRun, SessionIInv, ServersGone, NoRunLeft, Unbegun
<1>2. S!BlockedAfterFailures
  BY CardinalityIs DEF S!BlockedAfterFailures, SessionIInv, CountTracked
<1>3. S!ConsumerSeesEnd
  <2> SUFFICES ASSUME pc = "idle", S!RunSeen, ended # "none"
               PROVE  LET ends == {i \in DOMAIN shown : shown[i] \in S!Terminal} IN
                        /\ S!Cardinality(ends) <= 1
                        /\ ends # {} => ends = {Len(shown)} /\ (S!Saw("tool_started") => S!Saw("tool_ended"))
                        /\ ends = {} => ended \in {"dropped", "close_failed"}
    BY DEF S!ConsumerSeesEnd
  <2> DEFINE ends == {i \in DOMAIN shown : shown[i] \in S!Terminal}
  <2>1. ends # {} <=> Over
    BY DEF Over, Seen
  <2>2. ends # {} => ends = {Len(shown)}
    BY DEF SessionIInv, EndTracked, LastOnly
  <2>3. Cardinality(ends) <= 1
    <3>1. CASE ends = {}
      BY <3>1, FS_EmptySet
    <3>2. CASE ends = {Len(shown)}
      <4>1. Cardinality({Len(shown)}) = 1
        BY FS_Singleton
      <4> HIDE DEF ends
      <4> QED BY <3>2, <4>1
    <3> QED BY <2>2, <3>1, <3>2
  <2>4. Over => (S!Saw("tool_started") => S!Saw("tool_ended"))
    BY SeenIs DEF SessionIInv, EndTracked
  <2>5. ~Over => ended \in {"dropped", "close_failed"}
    BY SeenIs DEF SessionIInv, EndTracked
  <2> QED BY <2>1, <2>2, <2>3, <2>4, <2>5, CardinalityIs
<1> QED BY <1>1, <1>2, <1>3 DEF S!CallLeavesNothing

-----------------------------------------------------------------------------
(* The turn context.                                                       *)

\* The settings have values, and a persisted entry has the shape of a framing.
ContextTyped ==
  /\ now \in [C!Setting -> Value]
  /\ entry \in [settings : [C!Setting -> Value \cup {C!Unsaid}],
               mcp : [tools : SUBSET Tool, active : SUBSET Tool]]
  /\ servers \subseteq Tool /\ enabled \subseteq Tool
  /\ phase \in {"idle", "running"}

\* Nothing is enabled before a run, and in a run the model has been told.
ContextIInv == ContextTyped /\ (phase = "idle" => enabled = {}) /\ C!ModelIsToldCurrent

\* The plan of a run tells the current settings in each of its three forms.
LEMMA RunStartTells == ContextIInv /\ C!RunStart => ContextIInv'
<1> SUFFICES ASSUME ContextIInv, C!RunStart PROVE ContextIInv'
  OBVIOUS
<1> DEFINE fresh == [tools |-> servers, active |-> {}]
<1>1. /\ enabled = {} /\ C!Inventory = fresh /\ C!Framing = [settings |-> now, mcp |-> fresh]
      /\ UNCHANGED <<now, servers, enabled, entry>> /\ phase' = "running"
      /\ [C!Inventory EXCEPT !.active = {}]' = fresh
  BY DEF ContextIInv, C!RunStart, C!Inventory, C!Framing
<1>2. \A s \in C!Setting : now[s] \in Value /\ now[s] # C!Unsaid
  BY UnsaidIsNoValue DEF ContextIInv, ContextTyped, C!Unsaid
<1>3. CASE C!Baseline \in {"missing", "reused"}
  <2>1. prefix' = [settings |-> now, mcp |-> fresh]
    BY <1>1, <1>3 DEF C!RunStart, C!Plan, C!Baseline
  <2>2. update' = C!Silent /\ status' # "cleared"
    BY <1>3 DEF C!RunStart, C!Plan
  <2>3. \A s \in C!Setting : C!Believed(s)' = now[s]
    BY <2>1, <2>2 DEF C!Believed, C!Silent
  <2> QED BY <1>1, <2>1, <2>2, <2>3 DEF ContextIInv, ContextTyped, C!ModelIsToldCurrent
<1>4. CASE C!Baseline = "cleared"
  <2>1. /\ prefix' = entry /\ update' = C!UpdateText /\ noted' = C!Notes
        /\ entry # [settings |-> now, mcp |-> fresh]
    BY <1>1, <1>4 DEF C!RunStart, C!Plan, C!Baseline
  <2>2. \A s \in C!Setting : C!Believed(s)' = now[s]
    BY <1>2, <2>1 DEF C!Believed, C!UpdateText
  <2>3. entry.mcp = fresh \/ "mcp" \in noted'
    BY <1>1, <2>1 DEF C!Notes
  <2>4. CASE entry.mcp # fresh
    BY <1>1, <2>1, <2>2, <2>3, <2>4 DEF ContextIInv, ContextTyped, C!ModelIsToldCurrent
  <2>5. CASE entry.mcp = fresh
    <3>1. entry.settings # now
      BY <2>1, <2>5 DEF ContextIInv, ContextTyped
    <3>2. PICK s \in C!Setting : entry.settings[s] # now[s]
      BY <3>1 DEF ContextIInv, ContextTyped
    <3>3. update'[s] # C!Silent[s]
      BY <1>2, <2>1, <3>2 DEF C!UpdateText, C!Silent
    <3>4. update' # C!Silent'
      BY <3>3 DEF C!Silent
    <3> QED BY <1>1, <2>1, <2>2, <2>3, <3>4 DEF ContextIInv, ContextTyped, C!ModelIsToldCurrent
  <2> QED BY <2>4, <2>5
<1> QED BY <1>3, <1>4 DEF C!Baseline

\* The other steps: a search, the end of a run, and what changes between runs.
LEMMA ContextStep == ContextIInv /\ [C!Next]_C!vars => ContextIInv'
<1> SUFFICES ASSUME ContextIInv, [C!Next]_C!vars PROVE ContextIInv'
  OBVIOUS
<1> USE DEF ContextIInv, ContextTyped
<1>1. CASE C!RunEnds
  BY <1>1 DEF C!RunEnds, C!Framing, C!Inventory, C!ModelIsToldCurrent
<1>2. CASE C!Compact
  <2>1. C!NoEntry \in [settings : [C!Setting -> Value \cup {C!Unsaid}],
                      mcp : [tools : SUBSET Tool, active : SUBSET Tool]]
    BY DEF C!NoEntry
  <2> QED BY <1>2, <2>1 DEF C!Compact, C!ModelIsToldCurrent
<1>3. ASSUME NEW found \in Tool, C!Search(found) PROVE ContextIInv'
  BY <1>3, SMTT(30) DEF C!Search, C!told, C!ModelIsToldCurrent, C!Inventory, C!Believed, C!Silent
<1>4. ASSUME NEW s \in C!Setting, NEW v \in Value, C!Change(s, v) PROVE ContextIInv'
  BY <1>4 DEF C!Change, C!ModelIsToldCurrent
<1>5. ASSUME NEW ts \in SUBSET Tool, C!ChangeServers(ts) PROVE ContextIInv'
  BY <1>5 DEF C!ChangeServers, C!ModelIsToldCurrent
<1>6. CASE UNCHANGED C!vars
  BY <1>6 DEF C!vars, C!ModelIsToldCurrent, C!Inventory, C!Believed, C!Silent
<1> QED BY <1>1, <1>2, <1>3, <1>4, <1>5, <1>6, RunStartTells DEF C!Next

\* No entry is persisted and nothing is enabled at first.
LEMMA ContextInit == C!Init => ContextIInv
BY DEF C!Init, ContextIInv, ContextTyped, C!NoEntry, C!ModelIsToldCurrent

-----------------------------------------------------------------------------
(* The MCP tools of a run.                                                  *)

\* What a name the model uses, and the place of a call, may be.
ModelNames == {Name(raw) : raw \in Server \X Raw} \cup {NoTool}
Places == {"unused", "asking", "calling", "denied", "done", "failed"}

ToolsTyped ==
  /\ call \in [Call -> [tool : ModelNames, at : Places]]
  /\ answers \in [Call -> {"none", "yes", "no"}]

\* Mounted names and admitted tools correspond one to one.
MountedOnce ==
  mounted.state = "up" =>
    /\ Tools = {Name(raw) : raw \in Candidates}
    /\ \A n \in Tools : mounted.tools[n] \in Candidates /\ Name(mounted.tools[n]) = n
    /\ \A r, s \in Candidates : Name(r) = Name(s) => r = s

\* A call begins with a tool the model saw, and keeps it; it is answered once.
BegunWithTool ==
  \A c \in Call :
    /\ call[c].at \in {"unused", "asking"} => answers[c] = "none"
    /\ call[c].at # "unused" =>
         mounted.state = "up" /\ call[c].tool \in Tools /\ call[c].tool \in Visible

\* A call that needs an answer of its own is made only with it; what is
\* approved for the rest was approved in a call.
Answered ==
  /\ \A c \in Call : Made(c) =>
       /\ Mode(call[c].tool) = "prompt" => answers[c] = "yes"
       /\ Mode(call[c].tool) = "approve" => answers[c] = "yes" \/ call[c].tool \in approved
  /\ \A n \in approved : \E d \in Call : call[d].tool = n /\ answers[d] = "yes"

ToolsIInv == ToolsTyped /\ MountedOnce /\ BegunWithTool /\ Answered

\* The invariant gives the property: names correspond to tools, and an approval
\* to the call it was given in.
LEMMA InvGivesCallsAllowed == ToolsIInv => CallsAllowed
<1> SUFFICES ASSUME ToolsIInv PROVE CallsAllowed
  OBVIOUS
<1>1. CallReachesItsTool
  <2> SUFFICES ASSUME NEW c \in Call, Made(c)
               PROVE  /\ mounted.tools[call[c].tool] \in Candidates
                      /\ \A other \in Candidates :
                           Name(other) = call[c].tool => other = mounted.tools[call[c].tool]
    BY DEF CallReachesItsTool
  <2>1. mounted.state = "up" /\ call[c].tool \in Tools
    BY DEF ToolsIInv, BegunWithTool, Made
  <2> QED BY <2>1 DEF ToolsIInv, MountedOnce
<1>2. NoCallWithoutConsent
  <2> SUFFICES ASSUME NEW c \in Call, Made(c)
               PROVE  /\ Mode(call[c].tool) = "prompt" => answers[c] = "yes"
                      /\ Mode(call[c].tool) = "approve" =>
                           \E d \in Call : call[d].tool = call[c].tool /\ answers[d] = "yes"
                      /\ call[c].tool \in Deferred => call[c].tool \in active
    BY DEF NoCallWithoutConsent
  <2>1. call[c].tool \in Deferred => call[c].tool \in active
    BY DEF ToolsIInv, BegunWithTool, Made, Visible, Deferred
  <2>2. Mode(call[c].tool) = "approve" =>
          \E d \in Call : call[d].tool = call[c].tool /\ answers[d] = "yes"
    BY DEF ToolsIInv, Answered
  <2> QED BY <2>1, <2>2 DEF ToolsIInv, Answered
<1> QED BY <1>1, <1>2 DEF CallsAllowed

\* Nothing is mounted, called or approved at first.
LEMMA ToolsInit == Init => ToolsIInv
<1> SUFFICES ASSUME Init PROVE ToolsIInv
  OBVIOUS
<1>1. ToolsTyped
  BY DEF Init, ToolsTyped, ModelNames, Places
<1>2. MountedOnce /\ BegunWithTool /\ Answered
  BY DEF Init, MountedOnce, BegunWithTool, Answered, Made
<1> QED BY <1>1, <1>2 DEF ToolsIInv

\* A mount that succeeds gives every candidate a name of its own.  No call has
\* begun before it.
LEMMA MountIInv == ToolsIInv /\ Mount => ToolsIInv'
<1> SUFFICES ASSUME ToolsIInv, Mount PROVE ToolsIInv'
  OBVIOUS
<1>1. \A c \in Call : call[c].at = "unused"
  BY DEF ToolsIInv, BegunWithTool, Mount
<1>2. ToolsTyped'
  BY DEF ToolsIInv, ToolsTyped, Mount
<1>3. MountedOnce'
  <2> SUFFICES ASSUME mounted'.state = "up"
               PROVE  /\ Tools' = {Name(raw) : raw \in Candidates}
                      /\ \A n \in Tools' :
                           mounted'.tools[n] \in Candidates /\ Name(mounted'.tools[n]) = n
                      /\ \A r, s \in Candidates : Name(r) = Name(s) => r = s
    <3>1. Candidates' = Candidates
      BY DEF Mount, Candidates, fixed
    <3>2. \A raw : Name(raw)' = Name(raw)
      BY DEF Name
    <3> QED BY <3>1, <3>2 DEF MountedOnce
  <2>1. \A r, s \in Candidates : Name(r) = Name(s) => r = s
    BY DEF Mount
  <2>2. mounted'.tools = [n \in {Name(raw) : raw \in Candidates} |->
                            CHOOSE raw \in Candidates : Name(raw) = n]
    BY <2>1 DEF Mount
  <2>3. Tools' = {Name(raw) : raw \in Candidates}
    BY <2>2 DEF Tools
  <2>4. ASSUME NEW n \in Tools'
        PROVE  mounted'.tools[n] \in Candidates /\ Name(mounted'.tools[n]) = n
    <3>1. PICK raw \in Candidates : Name(raw) = n
      BY <2>3, <2>4
    <3> QED BY <2>2, <2>3, <2>4, <3>1
  <2> QED BY <2>1, <2>3, <2>4
<1>4. BegunWithTool' /\ Answered'
  BY <1>1 DEF ToolsIInv, BegunWithTool, Answered, Made, Mount
<1> QED BY <1>2, <1>3, <1>4 DEF ToolsIInv

\* Steps that mount nothing leave names and modes alone.
LEMMA SameMount ==
  ASSUME UNCHANGED <<fixed, mounted>>
  PROVE  /\ Tools' = Tools /\ Candidates' = Candidates /\ Direct' = Direct
         /\ Deferred' = Deferred /\ MountedOnce' = MountedOnce
         /\ \A n : Mode(n)' = Mode(n)
  BY DEF fixed, Tools, Candidates, Direct, Deferred, MountedOnce, Mode

\* A search only adds to what is visible.
LEMMA SearchIInv == ToolsIInv /\ Search => ToolsIInv'
<1> SUFFICES ASSUME ToolsIInv, Search PROVE ToolsIInv'
  OBVIOUS
<1>1. UNCHANGED <<fixed, mounted, approved, call, answers>> /\ active \subseteq active'
  BY DEF Search
<1>2. /\ Tools' = Tools /\ Direct' = Direct /\ MountedOnce' = MountedOnce
      /\ \A n : Mode(n)' = Mode(n)
  BY <1>1, SameMount
<1>3. ToolsTyped'
  BY <1>1 DEF ToolsIInv, ToolsTyped
<1>4. BegunWithTool'
  BY <1>1, <1>2 DEF ToolsIInv, BegunWithTool, Visible
<1>5. Answered'
  BY <1>1, <1>2 DEF ToolsIInv, Answered, Made, Mode, fixed
<1> QED BY <1>2, <1>3, <1>4, <1>5 DEF ToolsIInv

\* A call that begins without asking has no need to, or its name is approved.
LEMMA RequestIInv ==
  ASSUME ToolsIInv, NEW c \in Call, NEW tool \in Tools, Request(c, tool)
  PROVE  ToolsIInv'
<1> DEFINE place == IF NeedsAnswer(tool) THEN "asking" ELSE "calling"
<1>1. /\ UNCHANGED <<fixed, mounted, active, approved, answers>>
      /\ mounted.state = "up" /\ call[c].at = "unused" /\ tool \in Visible
      /\ call' = [call EXCEPT ![c] = [tool |-> tool, at |-> place]]
  BY DEF Request
<1>2. /\ Tools' = Tools /\ Direct' = Direct /\ MountedOnce' = MountedOnce /\ Visible' = Visible
  BY <1>1, SameMount DEF Visible
<1>3. tool \in ModelNames
  BY <1>1 DEF ToolsIInv, MountedOnce, ModelNames, Candidates
<1>4. ToolsTyped'
  BY <1>1, <1>3 DEF ToolsIInv, ToolsTyped, Places
<1>5. /\ call'[c] = [tool |-> tool, at |-> place]
      /\ \A d \in Call \ {c} : call'[d] = call[d]
  BY <1>1 DEF ToolsIInv, ToolsTyped
<1>6. BegunWithTool'
  BY <1>1, <1>2, <1>5 DEF ToolsIInv, BegunWithTool
<1>7. Answered'
  <2>1. answers[c] = "none"
    BY <1>1 DEF ToolsIInv, BegunWithTool
  <2>2. \A n \in approved : \E d \in Call : call'[d].tool = n /\ answers[d] = "yes"
    BY <1>5, <2>1 DEF ToolsIInv, Answered
  <2>3. ASSUME NEW d \in Call, Made(d)'
        PROVE  /\ Mode(call'[d].tool) = "prompt" => answers[d] = "yes"
               /\ Mode(call'[d].tool) = "approve" =>
                    answers[d] = "yes" \/ call'[d].tool \in approved
    <3>1. CASE d = c
      <4>1. ~NeedsAnswer(tool)
        BY <1>5, <2>3, <3>1 DEF Made
      <4> QED BY <1>5, <3>1, <4>1 DEF NeedsAnswer
    <3>2. CASE d # c
      BY <1>5, <2>3, <3>2 DEF ToolsIInv, Answered, Made
    <3> QED BY <3>1, <3>2
  <2> QED BY <1>1, <2>2, <2>3 DEF Answered, Mode, fixed
<1> QED BY <1>2, <1>4, <1>6, <1>7 DEF ToolsIInv

\* An answer is the call's own; with the mode approve it is also kept.
LEMMA AnswerIInv ==
  ASSUME ToolsIInv, NEW c \in Call, NEW yes \in BOOLEAN, Answer(c, yes)
  PROVE  ToolsIInv'
<1>1. /\ UNCHANGED <<fixed, mounted, active>> /\ call[c].at = "asking"
      /\ answers' = [answers EXCEPT ![c] = IF yes THEN "yes" ELSE "no"]
      /\ call' = [call EXCEPT ![c].at = IF yes THEN "calling" ELSE "denied"]
      /\ approved' = IF yes /\ Mode(call[c].tool) = "approve"
                     THEN approved \cup {call[c].tool} ELSE approved
  BY DEF Answer
<1>2. /\ Tools' = Tools /\ Direct' = Direct /\ MountedOnce' = MountedOnce /\ Visible' = Visible
  BY <1>1, SameMount DEF Visible
<1>3. ToolsTyped'
  BY <1>1 DEF ToolsIInv, ToolsTyped, Places
<1>4. /\ call'[c].tool = call[c].tool /\ call'[c].at = (IF yes THEN "calling" ELSE "denied")
      /\ answers'[c] = (IF yes THEN "yes" ELSE "no")
      /\ \A d \in Call \ {c} : call'[d] = call[d] /\ answers'[d] = answers[d]
  BY <1>1 DEF ToolsIInv, ToolsTyped
<1>5. BegunWithTool'
  BY <1>1, <1>2, <1>4 DEF ToolsIInv, BegunWithTool
<1>6. ASSUME NEW d \in Call, Made(d)'
      PROVE  /\ Mode(call'[d].tool) = "prompt" => answers'[d] = "yes"
             /\ Mode(call'[d].tool) = "approve" =>
                  answers'[d] = "yes" \/ call'[d].tool \in approved'
  <2>1. CASE d = c
    BY <1>4, <1>6, <2>1 DEF Made
  <2>2. CASE d # c
    BY <1>1, <1>4, <1>6, <2>2 DEF ToolsIInv, Answered, Made
  <2> QED BY <2>1, <2>2
<1>7. ASSUME NEW n \in approved'
      PROVE  \E d \in Call : call'[d].tool = n /\ answers'[d] = "yes"
  <2>1. CASE n \in approved
    <3>1. PICK d \in Call : call[d].tool = n /\ answers[d] = "yes"
      BY <2>1 DEF ToolsIInv, Answered
    <3>2. d # c
      BY <1>1, <3>1 DEF ToolsIInv, BegunWithTool
    <3> QED BY <1>4, <3>1, <3>2
  <2>2. CASE n \notin approved
    BY <1>1, <1>4, <1>7, <2>2
  <2> QED BY <2>1, <2>2
<1>8. Answered'
  BY <1>1, <1>6, <1>7 DEF Answered, Mode, fixed
<1> QED BY <1>2, <1>3, <1>5, <1>8 DEF ToolsIInv

\* A call that returns stays made.
LEMMA ReturnIInv ==
  ASSUME ToolsIInv, NEW c \in Call, Return(c)
  PROVE  ToolsIInv'
<1>1. PICK outcome \in {"done", "failed"} : call' = [call EXCEPT ![c].at = outcome]
  BY DEF Return
<1>2. UNCHANGED <<fixed, mounted, active, approved, answers>> /\ call[c].at = "calling"
  BY DEF Return
<1>3. /\ Tools' = Tools /\ Direct' = Direct /\ MountedOnce' = MountedOnce /\ Visible' = Visible
  BY <1>2, SameMount DEF Visible
<1>4. ToolsTyped'
  BY <1>1, <1>2 DEF ToolsIInv, ToolsTyped, Places
<1>5. /\ call'[c].tool = call[c].tool /\ call'[c].at = outcome
      /\ \A d \in Call \ {c} : call'[d] = call[d]
  BY <1>1 DEF ToolsIInv, ToolsTyped
<1>6. BegunWithTool'
  BY <1>2, <1>3, <1>5 DEF ToolsIInv, BegunWithTool
<1>7. \A d \in Call : call'[d].tool = call[d].tool /\ (Made(d)' => Made(d))
  BY <1>2, <1>5 DEF Made
<1>8. Answered'
  BY <1>2, <1>7 DEF ToolsIInv, Answered, Mode, fixed
<1> QED BY <1>3, <1>4, <1>6, <1>8 DEF ToolsIInv

\* Steps that change nothing keep it.
LEMMA ToolsStutter == ToolsIInv /\ UNCHANGED vars => ToolsIInv'
BY DEF vars, fixed, ToolsIInv, ToolsTyped, MountedOnce, BegunWithTool, Answered, Tools, Candidates,
       Visible, Direct, Made, Mode

\* Every step of the tools keeps it.
LEMMA ToolsStep == ToolsIInv /\ [Next]_vars => ToolsIInv'
<1> SUFFICES ASSUME ToolsIInv, [Next]_vars PROVE ToolsIInv'
  OBVIOUS
<1>1. CASE Mount
  BY <1>1, MountIInv
<1>2. CASE Search
  BY <1>2, SearchIInv
<1>3. ASSUME NEW c \in Call, Return(c) PROVE ToolsIInv'
  BY <1>3, ReturnIInv
<1>4. ASSUME NEW c \in Call, NEW tool \in Tools, Request(c, tool) PROVE ToolsIInv'
  BY <1>4, RequestIInv
<1>5. ASSUME NEW c \in Call, NEW yes \in BOOLEAN, Answer(c, yes) PROVE ToolsIInv'
  BY <1>5, AnswerIInv
<1>6. CASE UNCHANGED vars
  BY <1>6, ToolsStutter
<1> QED BY <1>1, <1>2, <1>3, <1>4, <1>5, <1>6 DEF Next

-----------------------------------------------------------------------------
(* The transcript: what a screen x is, and what each handler makes of it.  *)

Block == [kind : V!Kind, text : Nat]
CompletedRun == [start : Nat, end : Nat, from : Nat, to : V!Kind]
Screen == [blocks : V!Cells, live : Nat, current : Nat, omission : Nat,
           runs : Seq(CompletedRun), tools : Nat, dirty : Nat, cache : V!Cells, cached : 0..1,
           omitted : Nat, prompts : Nat]

\* The indexes point at the cells they were set for, which have no other like them.
Points(x) ==
  /\ x.live \in 0 .. Len(x.blocks) /\ x.omission \in 0 .. Len(x.blocks)
  /\ x.current \in 0 .. Len(x.blocks)
  /\ \A i \in 1 .. Len(x.blocks) : /\ x.blocks[i].kind = "live" <=> x.live = i
                                   /\ x.blocks[i].kind = "omitted" <=> x.omission = i
  /\ x.omission # 0 => x.blocks[x.omission].text = x.omitted
  /\ x.current # 0 => x.blocks[x.current].kind = "user"
  /\ x.live = 0 \/ x.tools = 0

\* The kept runs are whole, in order, behind the omission cell and before what
\* is still open.
RunKept(x, run) ==
  /\ x.omission < run.start /\ run.start < run.end /\ run.end <= Len(x.blocks) + 1
  /\ x.blocks[run.start].kind = "user" /\ x.blocks[run.start].text = run.from
  /\ x.blocks[run.end - 1].kind = run.to
  /\ x.live # 0 => run.end <= x.live
  /\ x.current # 0 => run.end <= x.current
Kept(x) ==
  /\ \A r \in 1 .. Len(x.runs) : RunKept(x, x.runs[r])
  /\ \A q, r \in 1 .. Len(x.runs) : q < r => x.runs[q].end <= x.runs[r].start
  /\ x.current # 0 => x.omission < x.current

\* The cells before the first dirty one are as they were rendered.
Reusable(x) ==
  /\ x.cached = 0 => x.dirty # 0
  /\ x.dirty <= Len(x.blocks) + 1
  /\ x.cached = 1 => \A i \in 1 .. Len(x.blocks) : x.dirty = 0 \/ i < x.dirty =>
                       i \in 1 .. Len(x.cache) /\ x.cache[i] = x.blocks[i]

Sound(x) == x \in Screen /\ Points(x) /\ Kept(x) /\ Reusable(x) /\ Len(x.runs) <= MaxCompleted

\* What is not marked as dirty was not changed.
Marks(x, y) ==
  y.dirty = 0 => /\ x.dirty = 0 /\ y.blocks = x.blocks /\ y.tools = x.tools /\ y.cache = x.cache

\* All but the blocks and what is dirty.
SameBut(x, y) ==
  /\ y.live = x.live /\ y.current = x.current /\ y.omission = x.omission /\ y.runs = x.runs
  /\ y.tools = x.tools /\ y.cache = x.cache /\ y.cached = x.cached /\ y.omitted = x.omitted
  /\ y.prompts = x.prompts

\* The types of the parts of a screen.
LEMMA ScreenIs ==
  ASSUME NEW x \in Screen
  PROVE  /\ x.blocks \in Seq(Block) /\ x.cache \in Seq(Block) /\ x.runs \in Seq(CompletedRun)
         /\ x.live \in Nat /\ x.current \in Nat /\ x.omission \in Nat /\ x.tools \in Nat
         /\ x.dirty \in Nat /\ x.cached \in 0 .. 1 /\ x.omitted \in Nat /\ x.prompts \in Nat
         /\ Len(x.blocks) \in Nat /\ Len(x.runs) \in Nat /\ Len(x.cache) \in Nat
         /\ \A i \in 1 .. Len(x.blocks) : x.blocks[i] \in Block /\ x.blocks[i].kind \in V!Kind /\ x.blocks[i].text \in Nat
         /\ \A r \in 1 .. Len(x.runs) : x.runs[r] \in CompletedRun
                                        /\ x.runs[r].start \in Nat /\ x.runs[r].end \in Nat
<1>1. /\ x.blocks \in Seq(Block) /\ x.cache \in Seq(Block) /\ x.runs \in Seq(CompletedRun)
      /\ x.live \in Nat /\ x.current \in Nat /\ x.omission \in Nat /\ x.tools \in Nat
      /\ x.dirty \in Nat /\ x.cached \in 0 .. 1 /\ x.omitted \in Nat /\ x.prompts \in Nat
  BY DEF Screen, V!Cells, Block
<1>2. \A i \in 1 .. Len(x.blocks) : x.blocks[i] \in Block
  BY <1>1
<1>3. \A r \in 1 .. Len(x.runs) : x.runs[r] \in CompletedRun
  BY <1>1
<1>4. /\ \A b \in Block : b.kind \in V!Kind /\ b.text \in Nat
      /\ \A r \in CompletedRun : r.start \in Nat /\ r.end \in Nat
  BY DEF Block, CompletedRun
<1> QED BY <1>1, <1>2, <1>3, <1>4

\* markDirty leaves all but the mark as it is.
LEMMA DirtyIs ==
  ASSUME NEW x \in Screen, NEW i \in Nat, i # 0
  PROVE  LET y == V!Dirty(x, i)
         IN  /\ y \in Screen /\ y.blocks = x.blocks /\ SameBut(x, y)
             /\ y.dirty = (IF x.dirty = 0 \/ i < x.dirty THEN i ELSE x.dirty) /\ y.dirty # 0
BY DEF V!Dirty, Screen, SameBut

\* A cell at the end is marked, unless something before it is.
LEMMA AppendBlockIs ==
  ASSUME NEW x \in Screen, NEW b \in Block
  PROVE  LET y == V!AppendBlock(x, b)
         IN  /\ y \in Screen /\ y.blocks = Append(x.blocks, b) /\ SameBut(x, y)
             /\ y.dirty = (IF x.dirty = 0 \/ Len(x.blocks) + 1 < x.dirty THEN Len(x.blocks) + 1 ELSE x.dirty)
             /\ y.dirty # 0
<1> DEFINE z == [x EXCEPT !.blocks = Append(@, b)]
<1>1. Append(x.blocks, b) \in V!Cells
  <2>1. x.blocks \in Seq(Block)
    BY ScreenIs
  <2>2. Append(x.blocks, b) \in Seq(Block)
    BY <2>1, AppendProperties
  <2> QED BY <2>2 DEF V!Cells, Block
<1>2. z \in Screen /\ z.blocks = Append(x.blocks, b) /\ SameBut(x, z) /\ z.dirty = x.dirty
  BY <1>1 DEF Screen, SameBut
<1>3. Len(x.blocks) + 1 \in Nat /\ Len(x.blocks) + 1 # 0
  BY ScreenIs
<1> HIDE DEF z
<1>4. /\ V!Dirty(z, Len(x.blocks) + 1) \in Screen /\ SameBut(z, V!Dirty(z, Len(x.blocks) + 1))
      /\ V!Dirty(z, Len(x.blocks) + 1).blocks = z.blocks
      /\ V!Dirty(z, Len(x.blocks) + 1).dirty = (IF z.dirty = 0 \/ Len(x.blocks) + 1 < z.dirty THEN Len(x.blocks) + 1 ELSE z.dirty)
      /\ V!Dirty(z, Len(x.blocks) + 1).dirty # 0
  BY <1>2, <1>3, DirtyIs
<1> QED BY <1>2, <1>4 DEF SameBut, V!AppendBlock, z

\* A cell that is replaced is marked, unless something before it is.
LEMMA ReplaceBlockIs ==
  ASSUME NEW x \in Screen, NEW i \in 1 .. Len(x.blocks), NEW b \in Block
  PROVE  LET y == V!ReplaceBlock(x, i, b)
         IN  /\ y \in Screen /\ y.blocks = [x.blocks EXCEPT ![i] = b] /\ SameBut(x, y)
             /\ y.dirty = (IF x.dirty = 0 \/ i < x.dirty THEN i ELSE x.dirty) /\ y.dirty # 0
<1> DEFINE z == [x EXCEPT !.blocks[i] = b]
<1>1. [x.blocks EXCEPT ![i] = b] \in V!Cells
  <2>1. x.blocks \in Seq(Block)
    BY ScreenIs
  <2>2. [x.blocks EXCEPT ![i] = b] \in Seq(Block)
    BY <2>1, ExceptSeq
  <2> QED BY <2>2 DEF V!Cells, Block
<1>2. z \in Screen /\ z.blocks = [x.blocks EXCEPT ![i] = b] /\ SameBut(x, z) /\ z.dirty = x.dirty
  BY <1>1 DEF Screen, SameBut
<1>3. i \in Nat /\ i # 0
  OBVIOUS
<1> HIDE DEF z
<1>4. /\ V!Dirty(z, i) \in Screen /\ SameBut(z, V!Dirty(z, i)) /\ V!Dirty(z, i).blocks = z.blocks
      /\ V!Dirty(z, i).dirty = (IF z.dirty = 0 \/ i < z.dirty THEN i ELSE z.dirty)
      /\ V!Dirty(z, i).dirty # 0
  BY <1>2, <1>3, DirtyIs
<1> QED BY <1>2, <1>4 DEF SameBut, V!ReplaceBlock, z

\* A cell at the end, which may become the live one or begin a run.
LEMMA AppendedSound ==
  ASSUME NEW x, Sound(x), NEW b \in Block, b.kind # "omitted", NEW y \in Screen,
         y.blocks = Append(x.blocks, b),
         y.dirty = (IF x.dirty = 0 \/ Len(x.blocks) + 1 < x.dirty THEN Len(x.blocks) + 1 ELSE x.dirty),
         y.dirty # 0,
         y.omission = x.omission, y.runs = x.runs, y.cache = x.cache, y.cached = x.cached,
         y.omitted = x.omitted, y.tools = x.tools,
         IF b.kind = "live" THEN x.live = 0 /\ x.tools = 0 /\ y.live = Len(x.blocks) + 1
         ELSE y.live = x.live,
         y.current = x.current \/ (y.current = Len(x.blocks) + 1 /\ x.current = 0 /\ b.kind = "user")
  PROVE  Sound(y) /\ Len(y.blocks) = Len(x.blocks) + 1 /\ y.blocks[Len(x.blocks) + 1] = b
<1> DEFINE n == Len(x.blocks)
<1>1. x \in Screen
  BY DEF Sound
<1>3. /\ x.blocks \in Seq(Block) /\ n \in Nat /\ x.dirty \in Nat /\ y.dirty \in Nat
      /\ \A r \in 1 .. Len(x.runs) : x.runs[r].start \in Nat /\ x.runs[r].end \in Nat
  BY <1>1, ScreenIs
<1>4. /\ Len(y.blocks) = n + 1 /\ y.blocks[n + 1] = b
      /\ \A i \in 1 .. n : y.blocks[i] = x.blocks[i] /\ i \in 1 .. n + 1
  BY <1>3, AppendProperties
<1>5. x.live \in 0 .. n /\ x.omission \in 0 .. n /\ x.current \in 0 .. n
  BY DEF Sound, Points
<1>6. Points(y)
  <2>2. \A i \in 1 .. n + 1 : i \in 1 .. n \/ i = n + 1
    BY <1>3
  <2>3. /\ y.live \in 0 .. n + 1 /\ y.omission \in 0 .. n + 1 /\ y.current \in 0 .. n + 1
        /\ y.omission # n + 1 /\ (b.kind = "live" <=> y.live = n + 1)
        /\ y.omission # 0 => y.omission \in 1 .. n
        /\ y.current # 0 => \/ y.current \in 1 .. n /\ y.current = x.current
                            \/ y.current = n + 1 /\ b.kind = "user"
    BY <1>3, <1>5
  <2>4. \A i \in 1 .. n + 1 : /\ y.blocks[i].kind = "live" <=> y.live = i
                              /\ y.blocks[i].kind = "omitted" <=> y.omission = i
    <3> SUFFICES ASSUME NEW i \in 1 .. n + 1 PROVE /\ y.blocks[i].kind = "live" <=> y.live = i
                                                   /\ y.blocks[i].kind = "omitted" <=> y.omission = i
      OBVIOUS
    <3>1. CASE i = n + 1
      BY <1>4, <2>3, <3>1
    <3>2. CASE i \in 1 .. n
      <4>1. y.live = i <=> x.live = i
        BY <1>3, <1>5, <3>2, <1>4 DEF Sound, Points
      <4> QED BY <1>4, <3>2, <4>1 DEF Sound, Points
    <3> QED BY <2>2, <3>1, <3>2
  <2>5. y.live = 0 \/ y.tools = 0
    BY DEF Sound, Points
  <2> QED BY <1>4, <2>3, <2>4, <2>5 DEF Sound, Points
<1>7. Kept(y)
  <2>1. \A r \in 1 .. Len(x.runs) : RunKept(y, x.runs[r])
    <3> SUFFICES ASSUME NEW r \in 1 .. Len(x.runs) PROVE RunKept(y, x.runs[r])
      OBVIOUS
    <3> DEFINE run == x.runs[r]
    <3>1. RunKept(x, run) /\ run.start \in Nat /\ run.end \in Nat
      BY <1>3 DEF Sound, Kept
    <3> HIDE DEF run
    <3>2. run.start \in 1 .. n /\ run.end - 1 \in 1 .. n /\ run.end <= n + 1 /\ run.end <= n + 1 + 1
      BY <1>3, <1>5, <3>1, SMTT(30) DEF RunKept
    <3>3. /\ y.live # 0 => run.end <= y.live
          /\ y.current # 0 => run.end <= y.current
      BY <3>1, <3>2 DEF RunKept
    <3> QED BY <1>4, <3>1, <3>2, <3>3 DEF RunKept, run
  <2>2. y.current # 0 => y.omission < y.current
    BY <1>3, <1>5 DEF Sound, Kept
  <2> QED BY <2>1, <2>2 DEF Sound, Kept
<1>8. Reusable(y)
  <2>1. y.dirty <= n + 1 + 1
    BY <1>3
  <2>2. ASSUME y.cached = 1, NEW i \in 1 .. n + 1, i < y.dirty
        PROVE  i \in 1 .. Len(y.cache) /\ y.cache[i] = y.blocks[i]
    <3>1. i \in 1 .. n /\ (x.dirty = 0 \/ i < x.dirty)
      BY <1>3, <2>2 DEF Sound, Reusable
    <3>3. i \in 1 .. Len(x.cache) /\ x.cache[i] = x.blocks[i]
      BY <2>2, <3>1 DEF Sound, Reusable
    <3> QED BY <1>4, <3>1, <3>3
  <2> QED BY <1>4, <2>1, <2>2 DEF Reusable
<1> QED BY <1>4, <1>6, <1>7, <1>8 DEF Sound

\* A cell that is neither live nor an omission, at the end.
LEMMA AppendSound ==
  ASSUME NEW x, Sound(x), NEW b \in Block, b.kind \notin {"live", "omitted"}
  PROVE  LET y == V!AppendBlock(x, b)
         IN  /\ Sound(y) /\ SameBut(x, y) /\ y.dirty # 0
             /\ Len(y.blocks) = Len(x.blocks) + 1 /\ y.blocks[Len(x.blocks) + 1] = b
<1> DEFINE y == V!AppendBlock(x, b)
           n == Len(x.blocks)
<1>1. x \in Screen
  BY DEF Sound
<1>2. /\ y \in Screen /\ y.blocks = Append(x.blocks, b) /\ SameBut(x, y) /\ y.dirty # 0
      /\ y.dirty = (IF x.dirty = 0 \/ n + 1 < x.dirty THEN n + 1 ELSE x.dirty)
  BY <1>1, AppendBlockIs
<1> HIDE DEF y
<1>3. Sound(y) /\ Len(y.blocks) = n + 1 /\ y.blocks[n + 1] = b
  BY <1>2, AppendedSound DEF SameBut
<1> QED BY <1>2, <1>3 DEF y

\* The live cell is written again, or becomes an ordinary one.
LEMMA LiveChanged ==
  ASSUME NEW x, Sound(x), x.live # 0, NEW b \in Block, NEW live \in {0, x.live},
         IF live = 0 THEN b.kind \notin {"live", "omitted"} ELSE b.kind = "live"
  PROVE  LET y == [V!ReplaceBlock(x, x.live, b) EXCEPT !.live = live]
         IN  /\ Sound(y) /\ y.live = live /\ y.current = x.current /\ y.tools = x.tools
             /\ y.dirty # 0 /\ Len(y.blocks) = Len(x.blocks)
<1> DEFINE z == V!ReplaceBlock(x, x.live, b)
           y == [z EXCEPT !.live = live]
           n == Len(x.blocks)
<1>1. x \in Screen /\ x.live \in 1 .. n /\ live \in Nat
  <2>1. x \in Screen
    BY DEF Sound
  <2>2. n \in Nat /\ x.live \in 0 .. n
    BY <2>1, ScreenIs DEF Sound, Points
  <2> QED BY <2>1, <2>2
<1>2. /\ z \in Screen /\ z.blocks = [x.blocks EXCEPT ![x.live] = b] /\ SameBut(x, z) /\ z.dirty # 0
      /\ z.dirty = (IF x.dirty = 0 \/ x.live < x.dirty THEN x.live ELSE x.dirty)
  BY <1>1, ReplaceBlockIs
<1> HIDE DEF z
<1>3. /\ y \in Screen /\ y.live = live /\ y.blocks = z.blocks /\ y.dirty = z.dirty
      /\ y.current = x.current /\ y.omission = x.omission /\ y.runs = x.runs
      /\ y.tools = x.tools /\ y.cache = x.cache /\ y.cached = x.cached /\ y.omitted = x.omitted
      /\ y.prompts = x.prompts
  BY <1>1, <1>2 DEF Screen, SameBut
<1> HIDE DEF y
<1>4. /\ x.blocks \in Seq(Block) /\ n \in Nat /\ x.dirty \in Nat
      /\ \A r \in 1 .. Len(x.runs) : x.runs[r].start \in Nat /\ x.runs[r].end \in Nat
  BY <1>1, ScreenIs
<1>5. /\ Len(y.blocks) = n /\ y.blocks[x.live] = b
      /\ \A i \in 1 .. n : i # x.live => y.blocks[i] = x.blocks[i]
  BY <1>1, <1>2, <1>3, <1>4
<1>6. x.blocks[x.live].kind = "live"
  BY <1>1 DEF Sound, Points
<1>7. /\ x.omission # x.live /\ x.current # x.live
      /\ x.live \in 0 .. n /\ x.omission \in 0 .. n /\ x.current \in 0 .. n
  BY <1>1, <1>6 DEF Sound, Points
<1>8. Points(y)
  <2>1. \A i \in 1 .. n : /\ y.blocks[i].kind = "live" <=> y.live = i
                          /\ y.blocks[i].kind = "omitted" <=> y.omission = i
    <3> SUFFICES ASSUME NEW i \in 1 .. n PROVE /\ y.blocks[i].kind = "live" <=> y.live = i
                                               /\ y.blocks[i].kind = "omitted" <=> y.omission = i
      OBVIOUS
    <3>1. CASE i = x.live
      BY <1>3, <1>5, <1>7, <3>1
    <3>2. CASE i # x.live
      <4>1. y.blocks[i] = x.blocks[i]
        BY <1>5, <3>2
      <4>2. y.live # i /\ x.live # i
        BY <1>3, <3>2
      <4> QED BY <1>3, <4>1, <4>2 DEF Sound, Points
    <3> QED BY <3>1, <3>2
  <2>2. /\ y.omission # 0 => y.blocks[y.omission].text = y.omitted
        /\ y.current # 0 => y.blocks[y.current].kind = "user"
    <3>1. /\ x.omission # 0 => x.omission \in 1 .. n
          /\ x.current # 0 => x.current \in 1 .. n
      BY <1>4, <1>7
    <3> QED BY <1>3, <1>5, <1>7, <3>1 DEF Sound, Points
  <2>3. y.live \in 0 .. n /\ (y.live = 0 \/ y.tools = 0)
    BY <1>1, <1>3, <1>4 DEF Sound, Points
  <2> QED BY <1>3, <1>5, <1>7, <2>1, <2>2, <2>3 DEF Points
<1>9. Kept(y)
  <2>1. \A r \in 1 .. Len(x.runs) : RunKept(y, x.runs[r])
    <3> SUFFICES ASSUME NEW r \in 1 .. Len(x.runs) PROVE RunKept(y, x.runs[r])
      OBVIOUS
    <3> DEFINE run == x.runs[r]
    <3>1. RunKept(x, run) /\ run.start \in Nat /\ run.end \in Nat /\ x.omission \in 0 .. n
      BY <1>4, <1>7 DEF Sound, Kept
    <3> HIDE DEF run
    <3>2. run.end <= x.live
      BY <1>1, <3>1 DEF RunKept
    <3>3. /\ run.start \in 1 .. n /\ run.end - 1 \in 1 .. n
          /\ run.start # x.live /\ run.end - 1 # x.live
      BY <1>1, <1>4, <3>1, <3>2, SMTT(30) DEF RunKept
    <3>4. y.blocks[run.start] = x.blocks[run.start] /\ y.blocks[run.end - 1] = x.blocks[run.end - 1]
      BY <1>5, <3>3
    <3>5. y.live # 0 => run.end <= y.live
      BY <1>3, <3>2
    <3> QED BY <1>3, <1>5, <3>1, <3>4, <3>5 DEF RunKept, run
  <2> QED BY <1>3, <2>1 DEF Sound, Kept
<1>10. Reusable(y)
  <2>1. y.dirty <= n + 1
    BY <1>1, <1>2, <1>3, <1>4 DEF Sound, Reusable
  <2>2. ASSUME y.cached = 1, NEW i \in 1 .. n, i < y.dirty
        PROVE  i \in 1 .. Len(y.cache) /\ y.cache[i] = y.blocks[i]
    <3>1. i # x.live /\ (x.dirty = 0 \/ i < x.dirty)
      BY <1>1, <1>2, <1>3, <1>4, <2>2
    <3>2. i \in 1 .. Len(x.cache) /\ x.cache[i] = x.blocks[i]
      BY <1>3, <2>2, <3>1 DEF Sound, Reusable
    <3> QED BY <1>3, <1>5, <3>1, <3>2
  <2> QED BY <1>2, <1>3, <1>5, <2>1, <2>2 DEF Reusable
<1> QED BY <1>2, <1>3, <1>5, <1>8, <1>9, <1>10 DEF Sound, y, z

\* No field of the blocks: what no other part depends on.
LEMMA OthersSound ==
  ASSUME NEW x, Sound(x), NEW y \in Screen,
         y.blocks = x.blocks, y.live = x.live, y.omission = x.omission, y.runs = x.runs,
         y.cache = x.cache, y.cached = x.cached, y.omitted = x.omitted,
         y.tools = x.tools \/ y.tools = 0 \/ x.live = 0,
         y.current = x.current \/ y.current = 0,
         y.dirty = x.dirty \/ (y.dirty # 0 /\ y.dirty <= Len(x.blocks) + 1
                               /\ (x.dirty = 0 \/ y.dirty <= x.dirty))
  PROVE  Sound(y)
<1>1. x \in Screen /\ y.current \in 0 .. Len(x.blocks)
  <2>1. x \in Screen
    BY DEF Sound
  <2> QED BY <2>1, ScreenIs DEF Sound, Points
<1>2. Points(y)
  BY <1>1 DEF Sound, Points
<1>3. Kept(y)
  BY DEF Sound, Kept, RunKept
<1>4. Reusable(y)
  <2>1. /\ x.dirty \in Nat /\ y.dirty \in Nat /\ Len(x.blocks) \in Nat /\ x.dirty <= Len(x.blocks) + 1
        /\ x.cached = 0 => x.dirty # 0
        /\ x.cached = 1 => \A i \in 1 .. Len(x.blocks) : x.dirty = 0 \/ i < x.dirty =>
                       i \in 1 .. Len(x.cache) /\ x.cache[i] = x.blocks[i]
    BY <1>1, ScreenIs DEF Sound, Reusable
  <2>2. y.dirty <= Len(x.blocks) + 1 /\ (x.cached = 0 => y.dirty # 0)
    BY <2>1
  <2>3. \A i \in 1 .. Len(x.blocks) : y.dirty = 0 \/ i < y.dirty => x.dirty = 0 \/ i < x.dirty
    BY <2>1
  <2> QED BY <2>1, <2>2, <2>3 DEF Reusable
<1> QED BY <1>2, <1>3, <1>4 DEF Sound

-----------------------------------------------------------------------------
(* What is written.                                                        *)

\* A step from x to y.
Gives(x, y) == Sound(y) /\ Marks(x, y) /\ y.current = x.current

\* Calls follow each other.
LEMMA GivesOn ==
  ASSUME NEW x, NEW y, NEW z, Gives(x, y), Gives(y, z)
  PROVE  Gives(x, z)
BY DEF Gives, Marks

\* A call that does nothing keeps the list sound.
LEMMA GivesSame == ASSUME NEW x, Sound(x) PROVE Gives(x, x)
BY DEF Gives, Marks

\* The cells without a text are cells.
LEMMA CellIs ==
  /\ \A kind \in V!Kind : V!Cell(kind) \in Block /\ V!Cell(kind).kind = kind
  /\ {"banner", "gap", "user", "live", "assistant", "tools", "note", "line", "error", "omitted"} \subseteq V!Kind
BY DEF V!Cell, Block, V!Kind

\* appendBlock, of a cell to which no index points.
LEMMA AppendGives ==
  ASSUME NEW x, Sound(x), NEW b \in Block, b.kind \notin {"live", "omitted"}
  PROVE  LET y == V!AppendBlock(x, b)
         IN  Gives(x, y) /\ y.live = x.live /\ y.tools = x.tools /\ y.dirty # 0
BY AppendSound DEF Gives, Marks, SameBut

\* ensureBlockGap.
LEMMA GapGives ==
  ASSUME NEW x, Sound(x)
  PROVE  LET y == V!Gap(x) IN Gives(x, y) /\ y.live = x.live /\ y.tools = x.tools
<1>1. V!Cell("gap") \in Block /\ V!Cell("gap").kind \notin {"live", "omitted"}
  BY CellIs
<1>2. CASE V!Gap(x) = x
  BY <1>2, GivesSame
<1>3. CASE V!Gap(x) = V!AppendBlock(x, V!Cell("gap"))
  BY <1>1, <1>3, AppendGives
<1> QED BY <1>2, <1>3 DEF V!Gap

\* endToolGroup leaves no open group.
LEMMA EndToolsGives ==
  ASSUME NEW x, Sound(x)
  PROVE  LET y == V!EndTools(x) IN Gives(x, y) /\ y.live = x.live /\ y.tools = 0
<1>1. CASE x.tools = 0
  BY <1>1, GivesSame DEF V!EndTools
<1>2. CASE x.tools # 0
  <2> DEFINE b == [kind |-> "tools", text |-> x.tools]
             z == [x EXCEPT !.tools = 0]
  <2>1. x \in Screen /\ b \in Block /\ b.kind \notin {"live", "omitted"}
    BY ScreenIs, CellIs DEF Sound, Block
  <2>2. /\ z \in Screen /\ z.tools = 0 /\ z.blocks = x.blocks /\ z.live = x.live
        /\ z.omission = x.omission /\ z.runs = x.runs /\ z.cache = x.cache /\ z.cached = x.cached
        /\ z.omitted = x.omitted /\ z.current = x.current /\ z.dirty = x.dirty
    BY <2>1 DEF Screen
  <2> HIDE DEF b, z
  <2>3. Sound(z)
    BY <2>2, OthersSound
  <2>4. Gives(z, V!AppendBlock(z, b)) /\ V!AppendBlock(z, b).live = z.live
        /\ V!AppendBlock(z, b).tools = z.tools /\ V!AppendBlock(z, b).dirty # 0
    BY <2>1, <2>3, AppendGives
  <2>5. V!EndTools(x) = V!AppendBlock(z, b)
    BY <1>2 DEF V!EndTools, b, z
  <2> QED BY <2>2, <2>4, <2>5 DEF Gives, Marks
<1> QED BY <1>1, <1>2

\* endLiveAssistant leaves no live cell.
LEMMA EndLiveGives ==
  ASSUME NEW x, Sound(x)
  PROVE  LET y == V!EndLive(x) IN Gives(x, y) /\ y.live = 0 /\ y.tools = x.tools
<1>1. CASE x.live = 0
  BY <1>1, GivesSame DEF V!EndLive, V!None
<1>2. CASE x.live # 0
  <2> DEFINE b == V!Cell("assistant")
             y == [V!ReplaceBlock(x, x.live, b) EXCEPT !.live = 0]
  <2>1. b \in Block /\ b.kind \notin {"live", "omitted"}
    BY CellIs
  <2> HIDE DEF b
  <2>2. Sound(y) /\ y.live = 0 /\ y.current = x.current /\ y.tools = x.tools /\ y.dirty # 0
    BY <1>2, <2>1, LiveChanged
  <2>3. V!EndLive(x) = y
    BY <1>2 DEF V!EndLive, V!None, b
  <2> HIDE DEF y
  <2> QED BY <2>2, <2>3 DEF Gives, Marks
<1> QED BY <1>1, <1>2

\* Both: nothing is open any more.
LEMMA SettledGives ==
  ASSUME NEW x, Sound(x)
  PROVE  LET y == V!Settled(x) IN Gives(x, y) /\ y.live = 0 /\ y.tools = 0
<1>1. Gives(x, V!EndTools(x)) /\ V!EndTools(x).tools = 0
  BY EndToolsGives
<1>2. Sound(V!EndTools(x))
  BY <1>1 DEF Gives
<1>3. /\ Gives(V!EndTools(x), V!EndLive(V!EndTools(x))) /\ V!EndLive(V!EndTools(x)).live = 0
      /\ V!EndLive(V!EndTools(x)).tools = V!EndTools(x).tools
  BY <1>2, EndLiveGives
<1> QED BY <1>1, <1>3, GivesOn DEF V!Settled

\* A note, after a gap.
LEMMA WriteNoteGives == ASSUME NEW x, Sound(x) PROVE Gives(x, V!WriteNote(x))
<1>1. Gives(x, V!Settled(x))
  BY SettledGives
<1>2. Gives(V!Settled(x), V!Gap(V!Settled(x)))
  BY <1>1, GapGives DEF Gives
<1>3. Gives(V!Gap(V!Settled(x)), V!WriteNote(x))
  BY <1>2, AppendGives, CellIs DEF Gives, V!WriteNote
<1> QED BY <1>1, <1>2, <1>3, GivesOn

\* A line, without one.
LEMMA WriteLineGives == ASSUME NEW x, Sound(x) PROVE Gives(x, V!WriteLine(x))
<1>1. Gives(x, V!Settled(x))
  BY SettledGives
<1>2. Gives(V!Settled(x), V!WriteLine(x))
  BY <1>1, AppendGives, CellIs DEF Gives, V!WriteLine
<1> QED BY <1>1, <1>2, GivesOn

\* A compaction notice.
LEMMA WriteCompactionGives == ASSUME NEW x, Sound(x) PROVE Gives(x, V!WriteCompaction(x))
<1>1. Gives(x, V!Settled(x))
  BY SettledGives
<1>2. Gives(V!Settled(x), V!Gap(V!Settled(x)))
  BY <1>1, GapGives DEF Gives
<1>3. Gives(V!Gap(V!Settled(x)), V!WriteCompaction(x))
  BY <1>2, WriteNoteGives DEF Gives, V!WriteCompaction
<1> QED BY <1>1, <1>2, <1>3, GivesOn

\* The open tool group is behind the cells: a change of it marks none of them.
LEMMA ToolsChanged ==
  ASSUME NEW x, Sound(x), x.live = 0
  PROVE  Gives(x, V!Dirty([x EXCEPT !.tools = V!Version(@)], Len(x.blocks) + 1))
<1> DEFINE z == [x EXCEPT !.tools = V!Version(@)]
           n == Len(x.blocks) + 1
           y == V!Dirty(z, n)
<1>1. x \in Screen
  BY DEF Sound
<1>2. x.dirty \in Nat /\ n \in Nat /\ n # 0 /\ V!Version(x.tools) \in Nat
  BY <1>1, ScreenIs DEF V!Version
<1>3. /\ z \in Screen /\ z.blocks = x.blocks /\ z.live = x.live
      /\ z.omission = x.omission /\ z.runs = x.runs /\ z.cache = x.cache /\ z.cached = x.cached
      /\ z.omitted = x.omitted /\ z.current = x.current /\ z.dirty = x.dirty
  BY <1>1, <1>2 DEF Screen
<1> HIDE DEF z
<1>4. /\ y \in Screen /\ y.blocks = z.blocks /\ SameBut(z, y) /\ y.dirty # 0
      /\ y.dirty = (IF z.dirty = 0 \/ n < z.dirty THEN n ELSE z.dirty)
  BY <1>2, <1>3, DirtyIs
<1> HIDE DEF y
<1>5. x.dirty <= n
  BY DEF Sound, Reusable
<1>6. y.dirty <= n /\ (x.dirty = 0 \/ y.dirty <= x.dirty)
  BY <1>2, <1>3, <1>4, <1>5
<1> HIDE DEF n
<1>7. Sound(y)
  BY <1>3, <1>4, <1>6, OthersSound DEF SameBut, n
<1> QED BY <1>3, <1>4, <1>7 DEF Gives, Marks, SameBut, y, z, n

\* updateTool, finishTool, failTool.
LEMMA ChangeToolGives == ASSUME NEW x, Sound(x) PROVE Gives(x, V!ChangeTool(x))
<1>1. x.live = 0 \/ x.tools = 0
  BY DEF Sound, Points
<1> QED BY <1>1, GivesSame, ToolsChanged DEF V!ChangeTool

\* startTool: into the group, or into a new one.
LEMMA StartToolGives ==
  ASSUME NEW x, Sound(x), NEW accepts \in BOOLEAN
  PROVE  Gives(x, V!StartTool(x, accepts))
<1> DEFINE y == V!EndLive(x)
           z == IF y.tools # 0 /\ ~accepts THEN V!Gap(V!EndTools(y)) ELSE y
           g == IF z.tools = 0 /\ x.live = V!None THEN V!Gap(z) ELSE z
<1>1. Gives(x, y) /\ y.live = 0 /\ Sound(y)
  BY EndLiveGives DEF Gives
<1>2. Gives(y, z) /\ z.live = 0
  <2>1. Gives(y, V!EndTools(y)) /\ V!EndTools(y).live = 0 /\ Sound(V!EndTools(y))
    BY <1>1, EndToolsGives DEF Gives
  <2>2. Gives(V!EndTools(y), V!Gap(V!EndTools(y))) /\ V!Gap(V!EndTools(y)).live = 0
    BY <2>1, GapGives
  <2> QED BY <1>1, <2>1, <2>2, GivesOn, GivesSame
<1> HIDE DEF y, z
<1>3. Gives(z, g) /\ g.live = 0 /\ Sound(g)
  <2>1. Sound(z)
    BY <1>2 DEF Gives
  <2>2. Gives(z, V!Gap(z)) /\ V!Gap(z).live = 0
    BY <1>2, <2>1, GapGives
  <2>3. Gives(z, g) /\ g.live = 0
    BY <1>2, <2>1, <2>2, GivesSame
  <2> HIDE DEF g
  <2> QED BY <2>3 DEF Gives
<1> HIDE DEF g
<1>4. Gives(g, V!Dirty([g EXCEPT !.tools = V!Version(@)], Len(g.blocks) + 1))
  BY <1>3, ToolsChanged
<1>5. V!StartTool(x, accepts) = V!Dirty([g EXCEPT !.tools = V!Version(@)], Len(g.blocks) + 1)
  BY DEF V!StartTool, y, z, g
<1> QED BY <1>1, <1>2, <1>3, <1>4, <1>5, GivesOn

\* finishAssistant leaves neither a live cell nor an open group.
LEMMA FinishGives ==
  ASSUME NEW x, Sound(x)
  PROVE  LET y == V!FinishAssistant(x) IN Gives(x, y) /\ y.live = 0 /\ y.tools = 0
<1> DEFINE y == V!EndTools(x)
           b == V!Cell("assistant")
<1>1. Gives(x, y) /\ y.tools = 0 /\ Sound(y)
  BY EndToolsGives DEF Gives
<1>2. b \in Block /\ b.kind \notin {"live", "omitted"}
  BY CellIs
<1>3. V!FinishAssistant(x) = IF y.live # V!None THEN [V!ReplaceBlock(y, y.live, b) EXCEPT !.live = V!None]
                           ELSE V!AppendBlock(y, b)
  BY DEF V!FinishAssistant
<1> HIDE DEF y, b
<1>4. CASE y.live # 0
  <2> DEFINE z == [V!ReplaceBlock(y, y.live, b) EXCEPT !.live = 0]
  <2>1. Sound(z) /\ z.live = 0 /\ z.current = y.current /\ z.tools = y.tools /\ z.dirty # 0
    BY <1>1, <1>2, <1>4, LiveChanged
  <2>2. V!FinishAssistant(x) = z
    BY <1>3, <1>4 DEF V!None
  <2> HIDE DEF z
  <2>3. Gives(y, z)
    BY <2>1 DEF Gives, Marks
  <2> QED BY <1>1, <2>1, <2>2, <2>3, GivesOn
<1>5. CASE y.live = 0
  <2>1. V!FinishAssistant(x) = V!AppendBlock(y, b)
    BY <1>3, <1>5 DEF V!None
  <2> QED BY <1>1, <1>2, <1>5, <2>1, AppendGives, GivesOn
<1> QED BY <1>4, <1>5

\* appendAssistantDelta, into the live cell or a new one at the end.
LEMMA GrowGives == ASSUME NEW x, Sound(x) PROVE Gives(x, V!Grow(x))
<1> DEFINE y == V!EndTools(x)
<1>1. Gives(x, y) /\ y.live = x.live /\ y.tools = 0 /\ Sound(y) /\ y \in Screen
  BY EndToolsGives DEF Gives, Sound
<1>2. CASE y.live = 0
  <2> DEFINE w == V!Gap(y)
             b == [kind |-> "live", text |-> 1]
             z == V!AppendBlock(w, b)
             g == [z EXCEPT !.live = Len(z.blocks)]
  <2>1. Gives(y, w) /\ w.live = 0 /\ w.tools = 0 /\ Sound(w) /\ w \in Screen
    BY <1>1, <1>2, GapGives DEF Gives, Sound
  <2>2. b \in Block /\ b.kind = "live" /\ b.kind # "omitted"
    BY DEF Block, V!Kind
  <2> HIDE DEF y, w, b
  <2>3. /\ z \in Screen /\ z.blocks = Append(w.blocks, b) /\ SameBut(w, z) /\ z.dirty # 0
        /\ z.dirty = (IF w.dirty = 0 \/ Len(w.blocks) + 1 < w.dirty THEN Len(w.blocks) + 1 ELSE w.dirty)
    BY <2>1, <2>2, AppendBlockIs
  <2>4. Len(z.blocks) = Len(w.blocks) + 1 /\ Len(z.blocks) \in Nat
    <3>1. w.blocks \in Seq(Block)
      BY <2>1, ScreenIs
    <3> QED BY <2>2, <2>3, <3>1, AppendProperties
  <2>a. V!Grow(x) = g
    BY <1>2 DEF V!Grow, V!None, w, b, y
  <2> HIDE DEF z
  <2>5. /\ g \in Screen /\ g.live = Len(z.blocks) /\ g.blocks = z.blocks /\ g.dirty = z.dirty
        /\ g.omission = z.omission /\ g.runs = z.runs /\ g.cache = z.cache /\ g.cached = z.cached
        /\ g.omitted = z.omitted /\ g.tools = z.tools /\ g.current = z.current
    BY <2>3, <2>4 DEF Screen
  <2> HIDE DEF g
  <2>6. Sound(g)
    BY <2>1, <2>2, <2>3, <2>4, <2>5, AppendedSound DEF SameBut
  <2>7. Gives(w, g)
    BY <2>3, <2>5, <2>6 DEF Gives, Marks, SameBut
  <2> QED BY <1>1, <2>1, <2>a, <2>7, GivesOn
<1>3. CASE y.live # 0
  <2> DEFINE b == [y.blocks[y.live] EXCEPT !.text = V!Version(@)]
             z == V!ReplaceBlock(y, y.live, b)
             g == [z EXCEPT !.live = y.live]
  <2>1. y.blocks[y.live] \in Block /\ y.blocks[y.live].kind = "live" /\ y.live \in 1 .. Len(y.blocks)
    <3>1. y.live \in 1 .. Len(y.blocks)
      BY <1>1, <1>3, ScreenIs DEF Sound, Points
    <3> QED BY <1>1, <3>1, ScreenIs DEF Sound, Points
  <2>2. b \in Block /\ b.kind = "live"
    <3>1. V!Version(y.blocks[y.live].text) \in Nat
      BY DEF V!Version
    <3> QED BY <2>1, <3>1 DEF Block
  <2>b. V!Grow(x) = z
    BY <1>3 DEF V!Grow, V!None, y, z, b
  <2> HIDE DEF y, b
  <2>3. /\ Sound(g) /\ g.live = y.live /\ g.current = y.current /\ g.tools = y.tools
        /\ g.dirty # 0
    BY <1>1, <1>3, <2>2, LiveChanged
  <2>4. z \in Screen /\ z.live = y.live
    BY <1>1, <2>1, <2>2, ReplaceBlockIs DEF SameBut
  <2> HIDE DEF z
  <2>5. g = z
    BY <2>4 DEF Screen
  <2> HIDE DEF g
  <2>6. Gives(y, z)
    BY <2>3, <2>5 DEF Gives, Marks
  <2> QED BY <1>1, <2>b, <2>6, GivesOn
<1> QED BY <1>2, <1>3

\* The prompt may begin a run.
LEMMA WriteUserTurnGives ==
  ASSUME NEW x, Sound(x)
  PROVE  Sound(V!WriteUserTurn(x)) /\ Marks(x, V!WriteUserTurn(x))
<1> DEFINE y == V!Gap(V!Settled(x))
           b == [kind |-> "user", text |-> x.prompts]
           z == V!AppendBlock(y, b)
           g == [z EXCEPT !.prompts = @ + 1, !.current = IF @ = V!None THEN Len(z.blocks) ELSE @]
<1>1. Gives(x, y) /\ Sound(y) /\ y \in Screen
  <2>1. Gives(x, V!Settled(x)) /\ Sound(V!Settled(x))
    BY SettledGives DEF Gives
  <2>2. Gives(V!Settled(x), y)
    BY <2>1, GapGives
  <2>3. Gives(x, y)
    BY <2>1, <2>2, GivesOn
  <2> QED BY <2>3 DEF Gives, Sound
<1>2. b \in Block /\ b.kind = "user"
  BY ScreenIs DEF Sound, Block, V!Kind
<1>3. V!WriteUserTurn(x) = g
  BY DEF V!WriteUserTurn
<1> HIDE DEF y, b
<1>4. /\ z \in Screen /\ z.blocks = Append(y.blocks, b) /\ SameBut(y, z) /\ z.dirty # 0
      /\ z.dirty = (IF y.dirty = 0 \/ Len(y.blocks) + 1 < y.dirty THEN Len(y.blocks) + 1 ELSE y.dirty)
  BY <1>1, <1>2, AppendBlockIs
<1>5. Len(z.blocks) = Len(y.blocks) + 1 /\ Len(z.blocks) \in Nat /\ z.prompts + 1 \in Nat
      /\ z.current \in Nat
  <2>1. y.blocks \in Seq(Block)
    BY <1>1, ScreenIs
  <2> QED BY <1>2, <1>4, <2>1, AppendProperties, ScreenIs
<1> HIDE DEF z
<1>6. /\ g \in Screen /\ g.live = z.live /\ g.blocks = z.blocks /\ g.dirty = z.dirty
      /\ g.omission = z.omission /\ g.runs = z.runs /\ g.cache = z.cache /\ g.cached = z.cached
      /\ g.omitted = z.omitted /\ g.tools = z.tools
      /\ g.current = IF z.current = 0 THEN Len(z.blocks) ELSE z.current
  BY <1>4, <1>5 DEF Screen, V!None
<1> HIDE DEF g
<1>7. Sound(g)
  BY <1>1, <1>2, <1>4, <1>5, <1>6, AppendedSound DEF SameBut
<1>8. Marks(x, g)
  BY <1>4, <1>6 DEF Marks
<1> QED BY <1>3, <1>7, <1>8

-----------------------------------------------------------------------------
(* Insertions and cuts.                                                    *)

\* What stands where in two sequences put together.
LEMMA Joined ==
  ASSUME NEW a \in Seq(Block), NEW c \in Seq(Block)
  PROVE  /\ a \o c \in Seq(Block) /\ Len(a \o c) = Len(a) + Len(c) /\ Len(a) \in Nat /\ Len(c) \in Nat
         /\ \A i \in 1 .. Len(a) : (a \o c)[i] = a[i]
         /\ \A i \in 1 .. Len(c) : (a \o c)[Len(a) + i] = c[i]
<1>1. /\ a \o c \in Seq(Block) /\ Len(a \o c) = Len(a) + Len(c)
      /\ \A i \in 1 .. Len(a) + Len(c) : (a \o c)[i] = IF i <= Len(a) THEN a[i] ELSE c[i - Len(a)]
  BY ConcatProperties
<1>2. Len(a) \in Nat /\ Len(c) \in Nat
  OBVIOUS
<1>3. ASSUME NEW i \in 1 .. Len(c) PROVE (a \o c)[Len(a) + i] = c[i]
  <2>1. Len(a) + i \in 1 .. Len(a) + Len(c) /\ ~(Len(a) + i <= Len(a)) /\ (Len(a) + i) - Len(a) = i
    BY <1>2
  <2> QED BY <1>1, <2>1
<1>4. ASSUME NEW i \in 1 .. Len(a) PROVE (a \o c)[i] = a[i]
  <2>1. i \in 1 .. Len(a) + Len(c) /\ i <= Len(a)
    BY <1>2
  <2> QED BY <1>1, <2>1
<1> QED BY <1>1, <1>2, <1>3, <1>4

\* What stands where after an insertion.
LEMMA InsertIs ==
  ASSUME NEW s \in Seq(Block), NEW p \in 1 .. Len(s) + 1, NEW b \in Block
  PROVE  LET z == V!InsertAt(s, p, b)
         IN  /\ z \in Seq(Block) /\ Len(z) = Len(s) + 1 /\ z[p] = b
             /\ \A i \in 1 .. p - 1 : z[i] = s[i]
             /\ \A i \in p .. Len(s) : z[i + 1] = s[i]
<1> DEFINE f == SubSeq(s, 1, p - 1)
           g == SubSeq(s, p, Len(s))
           n == Len(s)
<1>1. n \in Nat /\ 1 \in 1 .. n + 1 /\ p - 1 \in 0 .. n /\ \A i \in 1 .. p - 1 : i \in 1 .. n
  OBVIOUS
<1>2. f \in Seq(Block) /\ Len(f) = p - 1 /\ \A i \in 1 .. p - 1 : f[i] = s[i]
  BY <1>1, SubSeqProperties
<1>3. g \in Seq(Block) /\ Len(g) = n - p + 1 /\ \A i \in 1 .. n - p + 1 : g[i] = s[p + i - 1]
  BY <1>1, SubSeqProperties
<1> HIDE DEF f, g
<1>4. <<b>> \in Seq(Block) /\ Len(<<b>>) = 1 /\ <<b>>[1] = b
  OBVIOUS
<1>5. f \o <<b>> \in Seq(Block) /\ Len(f \o <<b>>) = p /\ (f \o <<b>>)[p] = b
      /\ \A i \in 1 .. p - 1 : (f \o <<b>>)[i] = s[i]
  <2> DEFINE o == <<b>>
  <2>1. o \in Seq(Block) /\ Len(o) = 1 /\ o[1] = b
    BY <1>4
  <2> HIDE DEF o
  <2>2. /\ f \o o \in Seq(Block) /\ Len(f \o o) = Len(f) + Len(o)
        /\ \A i \in 1 .. Len(f) : (f \o o)[i] = f[i]
        /\ \A i \in 1 .. Len(o) : (f \o o)[Len(f) + i] = o[i]
    BY <1>2, <2>1, Joined
  <2>3. Len(f) + Len(o) = p /\ Len(f) + 1 = p /\ 1 \in 1 .. Len(o)
    BY <1>1, <1>2, <2>1
  <2> QED BY <1>2, <2>1, <2>2, <2>3 DEF o
<1> DEFINE h == f \o <<b>>
<1> HIDE DEF h
<1>6. /\ h \o g \in Seq(Block) /\ Len(h \o g) = n + 1
      /\ \A i \in 1 .. p : (h \o g)[i] = h[i]
      /\ \A i \in 1 .. n - p + 1 : (h \o g)[p + i] = g[i]
  <2>1. h \in Seq(Block) /\ Len(h) = p
    BY <1>5 DEF h
  <2>2. /\ h \o g \in Seq(Block) /\ Len(h \o g) = Len(h) + Len(g)
        /\ \A i \in 1 .. Len(h) : (h \o g)[i] = h[i]
        /\ \A i \in 1 .. Len(g) : (h \o g)[Len(h) + i] = g[i]
    BY <1>3, <2>1, Joined
  <2>3. p + (n - p + 1) = n + 1
    BY <1>1
  <2> QED BY <1>3, <2>1, <2>2, <2>3
<1> DEFINE z == h \o g
<1>7. z = V!InsertAt(s, p, b)
  BY DEF V!InsertAt, h, f, g
<1> HIDE DEF z
<1>8. z[p] = b /\ \A i \in 1 .. p - 1 : z[i] = s[i]
  BY <1>1, <1>5, <1>6 DEF h, z
<1>9. ASSUME NEW i \in p .. n PROVE z[i + 1] = s[i]
  <2>1. (i + 1) - p \in 1 .. n - p + 1 /\ p + ((i + 1) - p) - 1 = i /\ p + ((i + 1) - p) = i + 1
    BY <1>1
  <2> DEFINE j == (i + 1) - p
  <2>2. j \in 1 .. n - p + 1 /\ p + j - 1 = i /\ p + j = i + 1
    BY <2>1
  <2> HIDE DEF j
  <2>3. g[j] = s[p + j - 1]
    BY <1>3, <2>2
  <2>4. z[p + j] = g[j]
    BY <1>6, <2>2 DEF z
  <2> QED BY <2>2, <2>3, <2>4
<1> QED BY <1>6, <1>7, <1>8, <1>9 DEF z

\* A cell that is inserted is marked, unless something before it is.
LEMMA InsertBlockIs ==
  ASSUME NEW x \in Screen, NEW p \in 1 .. Len(x.blocks) + 1, NEW b \in Block
  PROVE  LET y == V!InsertBlock(x, p, b)
         IN  /\ y \in Screen /\ y.blocks = V!InsertAt(x.blocks, p, b) /\ SameBut(x, y)
             /\ y.dirty = (IF x.dirty = 0 \/ p < x.dirty THEN p ELSE x.dirty) /\ y.dirty # 0
<1> DEFINE z == [x EXCEPT !.blocks = V!InsertAt(@, p, b)]
<1>1. V!InsertAt(x.blocks, p, b) \in V!Cells /\ p \in Nat /\ p # 0
  <2>1. x.blocks \in Seq(Block)
    BY ScreenIs
  <2>2. V!InsertAt(x.blocks, p, b) \in Seq(Block)
    BY <2>1, InsertIs
  <2> QED BY <2>2 DEF V!Cells, Block
<1>2. z \in Screen /\ z.blocks = V!InsertAt(x.blocks, p, b) /\ SameBut(x, z) /\ z.dirty = x.dirty
  BY <1>1 DEF Screen, SameBut
<1> HIDE DEF z
<1>4. /\ V!Dirty(z, p) \in Screen /\ SameBut(z, V!Dirty(z, p)) /\ V!Dirty(z, p).blocks = z.blocks
      /\ V!Dirty(z, p).dirty = (IF z.dirty = 0 \/ p < z.dirty THEN p ELSE z.dirty)
      /\ V!Dirty(z, p).dirty # 0
  BY <1>1, <1>2, DirtyIs
<1> QED BY <1>2, <1>4 DEF SameBut, V!InsertBlock, z

Shifted(run, p) == IF run.start >= p THEN [run EXCEPT !.start = @ + 1, !.end = @ + 1] ELSE run
Past(j, p) == IF j >= p THEN j + 1 ELSE j

\* adjustTrackedIndexesAfterInsertion moves what stands at p or behind it.
LEMMA UpIs ==
  ASSUME NEW x \in Screen, NEW p \in Nat
  PROVE  LET y == V!Up(x, p)
         IN  /\ y \in Screen /\ y.blocks = x.blocks /\ y.dirty = x.dirty
             /\ y.omission = x.omission /\ y.cache = x.cache /\ y.cached = x.cached
             /\ y.omitted = x.omitted /\ y.tools = x.tools
             /\ y.live = Past(x.live, p) /\ y.current = Past(x.current, p)
             /\ Len(y.runs) = Len(x.runs)
             /\ \A r \in 1 .. Len(x.runs) : y.runs[r] = Shifted(x.runs[r], p)
<1> DEFINE runs == [r \in DOMAIN x.runs |-> Shifted(x.runs[r], p)]
<1>1. x.runs \in Seq(CompletedRun) /\ x.live \in Nat /\ x.current \in Nat /\ Len(x.runs) \in Nat
      /\ DOMAIN x.runs = 1 .. Len(x.runs)
  BY ScreenIs
<1>2. ASSUME NEW run \in CompletedRun PROVE Shifted(run, p) \in CompletedRun
  <2> DEFINE a == run.start + 1
             b == run.end + 1
  <2>2. a \in Nat /\ b \in Nat
    BY DEF CompletedRun
  <2> HIDE DEF a, b
  <2>3. [run EXCEPT !.start = a, !.end = b] \in CompletedRun
    BY <2>2 DEF CompletedRun
  <2>1. [run EXCEPT !.start = @ + 1, !.end = @ + 1] \in CompletedRun
    BY <2>3 DEF a, b
  <2> QED BY <2>1 DEF Shifted
<1>3. /\ runs \in Seq(CompletedRun) /\ Len(runs) = Len(x.runs)
      /\ \A r \in 1 .. Len(x.runs) : runs[r] = Shifted(x.runs[r], p)
  <2>1. \A r \in 1 .. Len(x.runs) : Shifted(x.runs[r], p) \in CompletedRun
    BY <1>1, <1>2
  <2>2. runs \in [1 .. Len(x.runs) -> CompletedRun]
    BY <1>1, <2>1
  <2> QED BY <1>1, <2>2
<1>4. Past(x.live, p) \in Nat /\ Past(x.current, p) \in Nat
  BY <1>1 DEF Past
<1>5. V!Up(x, p) = [x EXCEPT !.runs = runs, !.live = Past(@, p), !.current = Past(@, p)]
  BY DEF V!Up, Shifted, Past
<1> HIDE DEF runs
<1> QED BY <1>1, <1>3, <1>4, <1>5 DEF Screen, CompletedRun

\* A note before the current run moves what stands from there on.
LEMMA InsertNoteGives ==
  ASSUME NEW x, Sound(x)
  PROVE  Sound(V!InsertNoteBeforeCurrentRun(x)) /\ Marks(x, V!InsertNoteBeforeCurrentRun(x))
<1>0. CASE x.current = 0
  BY <1>0, WriteNoteGives DEF V!InsertNoteBeforeCurrentRun, V!None, Gives
<1> SUFFICES ASSUME x.current # 0
             PROVE  Sound(V!InsertNoteBeforeCurrentRun(x)) /\ Marks(x, V!InsertNoteBeforeCurrentRun(x))
  BY <1>0
<1> DEFINE p == x.current
           n == Len(x.blocks)
           b == V!Cell("note")
           z == V!InsertBlock(x, p, b)
           y == V!Up(z, p)
<1>1. /\ x \in Screen /\ p \in 1 .. n /\ p \in 1 .. n + 1 /\ p \in Nat /\ n \in Nat /\ x.dirty \in Nat
      /\ x.live \in 0 .. n /\ x.omission \in 0 .. n
      /\ \A r \in 1 .. Len(x.runs) : x.runs[r].start \in Nat /\ x.runs[r].end \in Nat
  <2>1. x \in Screen
    BY DEF Sound
  <2> QED BY <2>1, ScreenIs DEF Sound, Points
<1>2. b \in Block /\ b.kind = "note"
  BY CellIs
<1>3. V!InsertNoteBeforeCurrentRun(x) = y
  BY DEF V!InsertNoteBeforeCurrentRun, V!None
<1> HIDE DEF b
<1>4. /\ z \in Screen /\ z.blocks = V!InsertAt(x.blocks, p, b) /\ SameBut(x, z)
      /\ z.dirty = (IF x.dirty = 0 \/ p < x.dirty THEN p ELSE x.dirty) /\ z.dirty # 0
  BY <1>1, <1>2, InsertBlockIs
<1> HIDE DEF z
<1>5. /\ y \in Screen /\ y.blocks = z.blocks /\ y.dirty = z.dirty
      /\ y.omission = z.omission /\ y.cache = z.cache /\ y.cached = z.cached
      /\ y.omitted = z.omitted /\ y.tools = z.tools
      /\ y.live = Past(z.live, p) /\ y.current = Past(z.current, p)
      /\ Len(y.runs) = Len(z.runs)
      /\ \A r \in 1 .. Len(z.runs) : y.runs[r] = Shifted(z.runs[r], p)
  BY <1>1, <1>4, UpIs
<1> HIDE DEF y
<1>6. /\ Len(y.blocks) = n + 1 /\ y.blocks[p] = b
      /\ \A i \in 1 .. p - 1 : y.blocks[i] = x.blocks[i]
      /\ \A i \in p .. n : y.blocks[i + 1] = x.blocks[i]
  <2>1. x.blocks \in Seq(Block)
    BY <1>1, ScreenIs
  <2> DEFINE q == x.blocks
             u == V!InsertAt(q, p, b)
  <2>2. q \in Seq(Block) /\ p \in 1 .. Len(q) + 1
    BY <1>1, <2>1
  <2> HIDE DEF q
  <2>3. /\ Len(u) = Len(q) + 1 /\ u[p] = b
        /\ \A i \in 1 .. p - 1 : u[i] = q[i]
        /\ \A i \in p .. Len(q) : u[i + 1] = q[i]
    BY <1>2, <2>2, InsertIs
  <2>4. y.blocks = u
    BY <1>4, <1>5 DEF q
  <2> HIDE DEF u
  <2> QED BY <2>3, <2>4 DEF q
<1>7. x.blocks[p].kind = "user" /\ x.omission < p /\ x.live # p
  BY <1>1 DEF Sound, Points, Kept
<1>8. y.live = Past(x.live, p) /\ y.current = p + 1 /\ y.omission = x.omission
      /\ Past(x.live, p) = IF x.live > p THEN x.live + 1 ELSE x.live
  <2>1. Past(x.current, p) = p + 1
    BY <1>1 DEF Past
  <2>2. Past(x.live, p) = IF x.live > p THEN x.live + 1 ELSE x.live
    BY <1>1, <1>7 DEF Past
  <2> QED BY <1>4, <1>5, <2>1, <2>2 DEF SameBut
<1>9. ASSUME NEW i \in 1 .. n + 1
      PROVE  \/ i \in 1 .. p - 1 /\ i \in 1 .. n
             \/ i = p
             \/ i - 1 \in p .. n /\ i - 1 \in 1 .. n /\ (i - 1) + 1 = i
  BY <1>1
<1>10. Points(y)
  <2>1. \A i \in 1 .. n + 1 : /\ y.blocks[i].kind = "live" <=> y.live = i
                              /\ y.blocks[i].kind = "omitted" <=> y.omission = i
    <3> SUFFICES ASSUME NEW i \in 1 .. n + 1 PROVE /\ y.blocks[i].kind = "live" <=> y.live = i
                                                   /\ y.blocks[i].kind = "omitted" <=> y.omission = i
      OBVIOUS
    <3>1. CASE i = p
      <4>1. y.live # p /\ y.omission # p
        BY <1>1, <1>7, <1>8
      <4> QED BY <1>2, <1>6, <3>1, <4>1
    <3>2. CASE i \in 1 .. p - 1 /\ i \in 1 .. n
      <4>1. y.live = i <=> x.live = i
        BY <1>1, <1>7, <1>8, <3>2
      <4>2. y.blocks[i] = x.blocks[i]
        BY <1>6, <3>2
      <4> QED BY <1>8, <3>2, <4>1, <4>2 DEF Sound, Points
    <3>3. CASE i - 1 \in p .. n /\ i - 1 \in 1 .. n /\ (i - 1) + 1 = i
      <4>1. y.live = i <=> x.live = i - 1
        BY <1>1, <1>7, <1>8, <3>3
      <4>2. x.omission # i - 1 /\ y.omission # i
        BY <1>1, <1>7, <1>8, <3>3
      <4>3. y.blocks[i] = x.blocks[i - 1]
        BY <1>6, <3>3
      <4> QED BY <3>3, <4>1, <4>2, <4>3 DEF Sound, Points
    <3> QED BY <1>9, <3>1, <3>2, <3>3
  <2>2. y.live \in 0 .. n + 1 /\ y.omission \in 0 .. n + 1 /\ y.current \in 0 .. n + 1
    BY <1>1, <1>7, <1>8, SMTT(30)
  <2>3. y.current # 0 => y.blocks[y.current].kind = "user"
    <3>1. p \in p .. n
      BY <1>1
    <3> QED BY <1>6, <1>7, <1>8, <3>1
  <2>4. y.omission # 0 => y.blocks[y.omission].text = y.omitted
    <3>1. x.omission # 0 => x.omission \in 1 .. p - 1
      BY <1>1, <1>7
    <3>2. x.omission # 0 => y.blocks[x.omission] = x.blocks[x.omission]
      BY <1>6, <3>1
    <3> QED BY <1>4, <1>5, <1>8, <3>2 DEF Sound, Points, SameBut
  <2>5. y.live = 0 \/ y.tools = 0
    <3>1. x.live = 0 => y.live = 0
      BY <1>1, <1>8
    <3> QED BY <1>4, <1>5, <3>1 DEF Sound, Points, SameBut
  <2> QED BY <1>6, <2>1, <2>2, <2>3, <2>4, <2>5 DEF Points
<1>11. /\ Len(y.runs) = Len(x.runs)
       /\ \A r \in 1 .. Len(x.runs) : y.runs[r] = x.runs[r]
  <2>1. ASSUME NEW r \in 1 .. Len(x.runs) PROVE Shifted(x.runs[r], p) = x.runs[r]
    <3>1. x.runs[r].end <= p /\ x.runs[r].start < x.runs[r].end
      BY <1>1 DEF Sound, Kept, RunKept
    <3>2. ~(x.runs[r].start >= p)
      BY <1>1, <3>1
    <3> QED BY <3>2 DEF Shifted
  <2> QED BY <1>4, <1>5, <2>1 DEF SameBut
<1>12. Kept(y)
  <2>1. ASSUME NEW r \in 1 .. Len(x.runs) PROVE RunKept(y, x.runs[r])
    <3> DEFINE run == x.runs[r]
    <3>1. RunKept(x, run) /\ run.start \in Nat /\ run.end \in Nat
      BY <1>1 DEF Sound, Kept
    <3> HIDE DEF run
    <3>2. run.end <= p
      BY <3>1 DEF RunKept
    <3>3. run.start \in 1 .. p - 1 /\ run.end - 1 \in 1 .. p - 1 /\ run.end <= n + 2 /\ run.end <= p + 1
      BY <1>1, <3>1, <3>2, SMTT(30) DEF RunKept
    <3>4. y.live # 0 => run.end <= y.live
      BY <1>1, <1>8, <3>1, <3>2 DEF RunKept
    <3>5. /\ y.blocks[run.start] = x.blocks[run.start] /\ y.blocks[run.end - 1] = x.blocks[run.end - 1]
          /\ y.omission = x.omission /\ y.current = p + 1
      BY <1>6, <1>8, <3>3
    <3>6. Len(y.blocks) + 1 = n + 2
      BY <1>1, <1>6
    <3> QED BY <3>1, <3>3, <3>4, <3>5, <3>6 DEF RunKept, run
  <2>2. y.omission < y.current
    BY <1>1, <1>7, <1>8
  <2> QED BY <1>11, <2>1, <2>2 DEF Sound, Kept
<1>13. Reusable(y)
  <2>1. y.dirty <= n + 1 + 1 /\ y.dirty # 0 /\ y.dirty \in Nat
    BY <1>1, <1>4, <1>5
  <2>2. ASSUME y.cached = 1, NEW i \in 1 .. n + 1, i < y.dirty
        PROVE  i \in 1 .. Len(y.cache) /\ y.cache[i] = y.blocks[i]
    <3>1. i \in 1 .. p - 1 /\ i \in 1 .. n /\ (x.dirty = 0 \/ i < x.dirty)
      BY <1>1, <1>4, <1>5, <2>2
    <3>2. x.cached = 1 /\ x.cache = y.cache
      BY <1>4, <1>5, <2>2 DEF SameBut
    <3>3. i \in 1 .. Len(x.cache) /\ x.cache[i] = x.blocks[i]
      BY <3>1, <3>2 DEF Sound, Reusable
    <3> QED BY <1>6, <3>1, <3>2, <3>3
  <2> QED BY <1>6, <2>1, <2>2 DEF Reusable
<1>14. Len(y.runs) <= MaxCompleted
  BY <1>11 DEF Sound
<1> QED BY <1>3, <1>4, <1>5, <1>10, <1>12, <1>13, <1>14 DEF Sound, Marks

\* The oldest run is cut out: what was behind it moves forward by d cells, and
\* the cell o before it says how many runs are left out.
LEMMA CutSound ==
  ASSUME NEW x \in Screen, Points(x), Kept(x), x.live = 0, x.current = 0,
         Len(x.runs) \in 1 .. MaxCompleted + 1,
         NEW y \in Screen, NEW d \in Nat, NEW o \in Nat,
         y.live = 0, y.current = 0, y.omission = o, y.cached = 0, y.dirty # 0,
         y.dirty <= Len(y.blocks) + 1,
         Len(y.blocks) = Len(x.blocks) - d, o \in 1 .. Len(x.blocks) - d,
         y.blocks[o].kind = "omitted", y.blocks[o].text = y.omitted,
         \A i \in 1 .. Len(x.blocks) - d :
           \/ i = o
           \/ i \in 1 .. x.runs[1].start - 1 /\ i # x.omission /\ y.blocks[i] = x.blocks[i]
           \/ i + d \in x.runs[1].end .. Len(x.blocks) /\ y.blocks[i] = x.blocks[i + d],
         \A i \in x.runs[1].end .. Len(x.blocks) : i - d > o /\ y.blocks[i - d] = x.blocks[i],
         Len(y.runs) = Len(x.runs) - 1,
         \A r \in 1 .. Len(x.runs) - 1 :
           /\ y.runs[r].start = x.runs[r + 1].start - d /\ y.runs[r].end = x.runs[r + 1].end - d
           /\ y.runs[r].from = x.runs[r + 1].from /\ y.runs[r].to = x.runs[r + 1].to
  PROVE  Sound(y)
<1> DEFINE n == Len(x.blocks)
           start == x.runs[1].start
           end == x.runs[1].end
<1>1. /\ n \in Nat /\ Len(x.runs) \in Nat /\ y.dirty \in Nat
      /\ \A r \in 1 .. Len(x.runs) : x.runs[r].start \in Nat /\ x.runs[r].end \in Nat
  BY ScreenIs
<1>2. /\ 1 \in 1 .. Len(x.runs) /\ start \in Nat /\ end \in Nat
      /\ x.omission < start /\ start < end /\ end <= n + 1 /\ x.omission \in 0 .. n
  <2>1. 1 \in 1 .. Len(x.runs)
    OBVIOUS
  <2>2. RunKept(x, x.runs[1])
    BY <2>1 DEF Kept
  <2> QED BY <1>1, <2>1, <2>2 DEF RunKept, Points
<1>3. Points(y)
  <2>1. ASSUME NEW i \in 1 .. n - d
        PROVE  y.blocks[i].kind # "live" /\ (y.blocks[i].kind = "omitted" <=> o = i)
    <3>1. CASE i = o
      BY <3>1
    <3>2. CASE i # o /\ i \in 1 .. start - 1 /\ i # x.omission /\ y.blocks[i] = x.blocks[i]
      <4>1. i \in 1 .. n
        BY <1>1, <1>2, <3>2
      <4>2. x.blocks[i].kind # "live" /\ x.blocks[i].kind # "omitted"
        BY <1>1, <3>2, <4>1 DEF Points
      <4>3. o # i
        BY <3>2
      <4> QED BY <3>2, <4>2, <4>3
    <3>3. CASE i # o /\ i + d \in end .. n /\ y.blocks[i] = x.blocks[i + d]
      <4>1. i + d \in 1 .. n /\ x.omission # i + d
        BY <1>1, <1>2, <3>3, SMTT(30)
      <4>2. x.blocks[i + d].kind # "live" /\ x.blocks[i + d].kind # "omitted"
        BY <1>1, <4>1 DEF Points
      <4>3. o # i
        BY <3>3
      <4> QED BY <3>3, <4>2, <4>3
    <3> QED BY <3>1, <3>2, <3>3
  <2>2. y.live \in 0 .. n - d /\ y.omission \in 0 .. n - d /\ y.current \in 0 .. n - d
    BY <1>1
  <2>3. \A i \in 1 .. n - d : y.live # i
    OBVIOUS
  <2> QED BY <2>1, <2>2, <2>3 DEF Points
<1>4. Kept(y)
  <2>1. ASSUME NEW r \in 1 .. Len(x.runs) - 1 PROVE RunKept(y, y.runs[r])
    <3> DEFINE run == x.runs[r + 1]
    <3>1. r + 1 \in 1 .. Len(x.runs) /\ 1 < r + 1
      BY <1>1
    <3>2. RunKept(x, run) /\ run.start \in Nat /\ run.end \in Nat /\ end <= run.start
      BY <1>1, <1>2, <3>1 DEF Kept
    <3>3. /\ y.runs[r].start = run.start - d /\ y.runs[r].end = run.end - d
          /\ y.runs[r].from = run.from /\ y.runs[r].to = run.to
      OBVIOUS
    <3> HIDE DEF run
    <3>4. run.start \in end .. n /\ run.end - 1 \in end .. n
          /\ (run.end - 1) - d = (run.end - d) - 1 /\ run.start - d < run.end - d
          /\ run.end - d <= (n - d) + 1
      <4>1. run.start < run.end /\ run.end <= n + 1
        BY <3>2 DEF RunKept
      <4> HIDE DEF n, end
      <4>2. ASSUME NEW a \in Nat, NEW b \in Nat, NEW e \in Nat, NEW m \in Nat, e <= a, a < b, b <= m + 1
            PROVE  /\ a \in e .. m /\ b - 1 \in e .. m
                   /\ (b - 1) - d = (b - d) - 1 /\ a - d < b - d /\ b - d <= (m - d) + 1
        <5>1. a \in Int /\ b \in Int /\ e \in Int /\ m \in Int /\ d \in Int
          OBVIOUS
        <5>2. e <= a /\ a <= m /\ e <= b - 1 /\ b - 1 <= m
          BY <4>2, <5>1
        <5>3. (b - 1) - d = (b - d) - 1 /\ a - d < b - d
          BY <4>2, <5>1
        <5>4. b - d <= (m - d) + 1
          BY <4>2, <5>1
        <5> QED BY <5>1, <5>2, <5>3, <5>4
      <4>3. n \in Nat /\ end \in Nat /\ run.start \in Nat /\ run.end \in Nat /\ end <= run.start
        BY <1>1, <1>2, <3>2
      <4> QED BY <4>1, <4>2, <4>3
    <3>5. /\ run.start - d > o /\ y.blocks[run.start - d] = x.blocks[run.start]
          /\ y.blocks[(run.end - d) - 1] = x.blocks[run.end - 1]
      <4>1. run.start - d > o /\ y.blocks[run.start - d] = x.blocks[run.start]
        BY <3>4
      <4>2. y.blocks[(run.end - 1) - d] = x.blocks[run.end - 1]
        BY <3>4
      <4> QED BY <3>4, <4>1, <4>2
    <3> HIDE DEF n
    <3>6. o < run.start - d
      BY <3>2, <3>5
    <3> QED BY <3>2, <3>3, <3>4, <3>5, <3>6 DEF RunKept, n
  <2>2. ASSUME NEW q \in 1 .. Len(y.runs), NEW r \in 1 .. Len(y.runs), q < r
        PROVE  y.runs[q].end <= y.runs[r].start
    <3>1. q + 1 \in 1 .. Len(x.runs) /\ r + 1 \in 1 .. Len(x.runs) /\ q + 1 < r + 1
          /\ q \in 1 .. Len(x.runs) - 1 /\ r \in 1 .. Len(x.runs) - 1
      BY <1>1, <2>2
    <3>2. x.runs[q + 1].end <= x.runs[r + 1].start
      BY <3>1 DEF Kept
    <3>3. x.runs[q + 1].end \in Nat /\ x.runs[r + 1].start \in Nat
      BY <1>1, <3>1
    <3>4. y.runs[q].end = x.runs[q + 1].end - d /\ y.runs[r].start = x.runs[r + 1].start - d
      BY <3>1
    <3> QED BY <3>2, <3>3, <3>4, SMTT(30)
  <2> QED BY <2>1, <2>2 DEF Kept
<1>5. Reusable(y)
  BY DEF Reusable
<1>6. Len(y.runs) <= MaxCompleted
  BY <1>1, CompletedIsCount
<1> QED BY <1>3, <1>4, <1>5, <1>6 DEF Sound

Moved(run, n) == [run EXCEPT !.start = @ - n, !.end = @ - n]
OldestCut(x) ==
  LET start == x.runs[1].start
      end   == x.runs[1].end
      n     == end - start
  IN [x EXCEPT !.blocks = SubSeq(@, 1, start - 1) \o SubSeq(@, end, Len(@)),
               !.runs = [r \in 1 .. (Len(@) - 1) |-> Moved(@[r + 1], n)],
               !.live = V!Down(@, start, n), !.current = V!Down(@, start, n),
               !.omission = V!Down(@, start, n),
               !.cache = <<>>, !.cached = 0, !.omitted = @ + 1]

OldestTrimmed(x, excess) ==
  LET start  == x.runs[1].start
      end    == x.runs[excess].end
      n      == end - start
      cut    == [x EXCEPT !.blocks = SubSeq(@, 1, start - 1) \o SubSeq(@, end, Len(@)),
                          !.runs = [r \in 1 .. (Len(@) - excess) |-> Moved(@[r + excess], n)],
                          !.live = V!Down(@, start, n), !.current = V!Down(@, start, n),
                          !.omission = V!Down(@, start, n),
                          !.cache = <<>>, !.cached = 0, !.omitted = @ + excess]
      marked == V!Dirty(cut, start)
      omits  == [kind |-> "omitted", text |-> cut.omitted]
  IN IF excess <= 0 THEN x
     ELSE IF marked.omission = V!None
     THEN [V!Up(V!InsertBlock(marked, start, omits), start) EXCEPT !.omission = start]
     ELSE V!ReplaceBlock(marked, marked.omission, omits)

\* trimCompletedRuns, when one run is too many.
LEMMA TrimIs ==
  ASSUME NEW x, Len(x.runs) = MaxCompleted + 1
  PROVE  LET start  == x.runs[1].start
             cut    == OldestCut(x)
             marked == V!Dirty(cut, start)
             omits  == [kind |-> "omitted", text |-> cut.omitted]
         IN  V!Trim(x) = IF marked.omission = 0
                       THEN [V!Up(V!InsertBlock(marked, start, omits), start) EXCEPT !.omission = start]
                       ELSE V!ReplaceBlock(marked, marked.omission, omits)
<1>1. Len(x.runs) - MaxCompleted = 1
  BY CompletedIsCount
<1>2. V!Trim(x) = OldestTrimmed(x, Len(x.runs) - MaxCompleted)
  BY DEF V!Trim, OldestTrimmed, Moved
<1>3. V!Trim(x) = OldestTrimmed(x, 1)
  BY <1>1, <1>2
<1>4. ~(1 <= 0)
  OBVIOUS
<1> QED BY <1>3, <1>4, Zenon DEF OldestTrimmed, OldestCut, Moved, V!None

\* What stands where after the cells of the oldest run are cut out.
LEMMA OldestCutIs ==
  ASSUME NEW x \in Screen, Points(x), Kept(x), x.live = 0, x.current = 0, Len(x.runs) # 0
  PROVE  LET y     == OldestCut(x)
             start == x.runs[1].start
             end   == x.runs[1].end
             n     == end - start
         IN  /\ y \in Screen /\ start \in 1 .. Len(x.blocks) /\ end \in start + 1 .. Len(x.blocks) + 1
             /\ n \in Nat /\ n # 0
             /\ y.live = 0 /\ y.current = 0 /\ y.omission = x.omission /\ x.omission \in 0 .. start - 1
             /\ y.cached = 0 /\ y.dirty = x.dirty /\ y.omitted = x.omitted + 1
             /\ Len(y.blocks) = Len(x.blocks) - n
             /\ \A i \in 1 .. start - 1 : y.blocks[i] = x.blocks[i]
             /\ \A i \in end .. Len(x.blocks) : y.blocks[i - n] = x.blocks[i]
             /\ Len(y.runs) = Len(x.runs) - 1
             /\ \A r \in 1 .. Len(x.runs) - 1 :
                  /\ y.runs[r] = Moved(x.runs[r + 1], n)
                  /\ y.runs[r].start = x.runs[r + 1].start - n /\ y.runs[r].end = x.runs[r + 1].end - n
                  /\ y.runs[r].from = x.runs[r + 1].from /\ y.runs[r].to = x.runs[r + 1].to
                  /\ y.runs[r].start >= start
<1> DEFINE L == Len(x.blocks)
           start == x.runs[1].start
           end == x.runs[1].end
           n == end - start
<1>1. /\ L \in Nat /\ Len(x.runs) \in Nat /\ x.dirty \in Nat /\ x.omitted \in Nat /\ x.omission \in Nat
      /\ x.blocks \in Seq(Block) /\ x.runs \in Seq(CompletedRun)
      /\ \A r \in 1 .. Len(x.runs) : /\ x.runs[r] \in CompletedRun
                                     /\ x.runs[r].start \in Nat /\ x.runs[r].end \in Nat
  BY ScreenIs
<1>2. /\ 1 \in 1 .. Len(x.runs) /\ start \in 1 .. L /\ end \in start + 1 .. L + 1
      /\ x.omission \in 0 .. start - 1 /\ n \in Nat /\ n # 0 /\ end \in Nat
  <2>1. 1 \in 1 .. Len(x.runs)
    BY <1>1
  <2>2. RunKept(x, x.runs[1]) /\ start \in Nat /\ end \in Nat
    BY <1>1, <2>1 DEF Kept
  <2>3. x.omission < start /\ start < end /\ end <= L + 1
    BY <2>2 DEF RunKept
  <2> HIDE DEF L, start, end
  <2> QED BY <1>1, <2>1, <2>2, <2>3
<1>3. ASSUME NEW r \in 1 .. Len(x.runs) - 1
      PROVE  /\ r + 1 \in 1 .. Len(x.runs) /\ x.runs[r + 1] \in CompletedRun
             /\ x.runs[r + 1].start \in Nat /\ x.runs[r + 1].end \in Nat
             /\ x.runs[r + 1].start - n \in Nat /\ x.runs[r + 1].end - n \in Nat
             /\ x.runs[r + 1].start - n >= start
  <2>1. r + 1 \in 1 .. Len(x.runs) /\ 1 < r + 1
    BY <1>1
  <2>2. x.runs[1].end <= x.runs[r + 1].start
    BY <1>2, <2>1 DEF Kept
  <2>3. RunKept(x, x.runs[r + 1])
    BY <2>1 DEF Kept
  <2>4. x.runs[r + 1].start < x.runs[r + 1].end
    BY <2>3 DEF RunKept
  <2>5. x.runs[r + 1] \in CompletedRun /\ x.runs[r + 1].start \in Nat /\ x.runs[r + 1].end \in Nat
    BY <1>1, <2>1
  <2> DEFINE a == x.runs[r + 1].start
             b == x.runs[r + 1].end
  <2>6. a \in Nat /\ b \in Nat /\ end <= a /\ a < b
    BY <2>2, <2>4, <2>5
  <2> HIDE DEF a, b, start, end, L
  <2>7. a - n \in Nat /\ b - n \in Nat /\ a - n >= start
    BY <1>2, <2>6
  <2> QED BY <2>1, <2>5, <2>7 DEF a, b
<1> DEFINE run(r) == Moved(x.runs[r + 1], n)
           runs == [r \in 1 .. Len(x.runs) - 1 |-> run(r)]
           blocks == SubSeq(x.blocks, 1, start - 1) \o SubSeq(x.blocks, end, L)
<1> HIDE DEF n
<1>4. ASSUME NEW c \in CompletedRun, c.start - n \in Nat, c.end - n \in Nat
      PROVE  /\ Moved(c, n) \in CompletedRun /\ Moved(c, n).start = c.start - n
             /\ Moved(c, n).end = c.end - n /\ Moved(c, n).from = c.from /\ Moved(c, n).to = c.to
  <2> DEFINE a == c.start - n
             b == c.end - n
  <2>1. Moved(c, n) = [c EXCEPT !.start = a, !.end = b]
    BY DEF Moved
  <2>2. a \in Nat /\ b \in Nat
    BY <1>4
  <2> HIDE DEF a, b
  <2>3. LET m == [c EXCEPT !.start = a, !.end = b]
        IN  m \in CompletedRun /\ m.start = a /\ m.end = b /\ m.from = c.from /\ m.to = c.to
    BY <2>2 DEF CompletedRun
  <2> QED BY <2>1, <2>3 DEF a, b
<1>5. ASSUME NEW r \in 1 .. Len(x.runs) - 1
      PROVE  /\ run(r) \in CompletedRun /\ run(r).start = x.runs[r + 1].start - n
             /\ run(r).end = x.runs[r + 1].end - n /\ run(r).from = x.runs[r + 1].from
             /\ run(r).to = x.runs[r + 1].to /\ run(r).start >= start
  BY <1>3, <1>4
<1> HIDE DEF run
<1>6. /\ runs \in Seq(CompletedRun) /\ Len(runs) = Len(x.runs) - 1
      /\ \A r \in 1 .. Len(x.runs) - 1 : runs[r] = run(r)
  <2>1. runs \in [1 .. Len(x.runs) - 1 -> CompletedRun]
    BY <1>5
  <2>2. Len(x.runs) - 1 \in Nat
    BY <1>1, <1>2
  <2> QED BY <2>1, <2>2
<1> HIDE DEF runs
<1>7. /\ blocks \in Seq(Block) /\ Len(blocks) = L - n
      /\ \A i \in 1 .. start - 1 : blocks[i] = x.blocks[i]
      /\ \A i \in end .. L : blocks[i - n] = x.blocks[i]
  <2> DEFINE s == x.blocks
             f == SubSeq(s, 1, start - 1)
             g == SubSeq(s, end, L)
  <2>1. s \in Seq(Block) /\ Len(s) = L
    BY <1>1
  <2> HIDE DEF s, start, end, L
  <2>2. 1 \in 1 .. L + 1 /\ start - 1 \in 0 .. L /\ end \in 1 .. L + 1 /\ L \in 0 .. L
    BY <1>1, <1>2
  <2>3. f \in Seq(Block) /\ Len(f) = start - 1 /\ \A i \in 1 .. start - 1 : f[i] = s[i]
    <3>1. \A i \in 1 .. start - 1 : i \in 1 .. L
      BY <2>2
    <3> QED BY <1>1, <2>1, <2>2, <3>1, SubSeqProperties
  <2>4. g \in Seq(Block) /\ Len(g) = L - end + 1 /\ \A i \in 1 .. L - end + 1 : g[i] = s[end + i - 1]
    BY <1>1, <2>1, <2>2, SubSeqProperties
  <2> HIDE DEF f, g
  <2>5. /\ f \o g \in Seq(Block) /\ Len(f \o g) = Len(f) + Len(g)
        /\ \A i \in 1 .. Len(f) : (f \o g)[i] = f[i]
        /\ \A i \in 1 .. Len(g) : (f \o g)[Len(f) + i] = g[i]
    BY <2>3, <2>4, Joined
  <2>6. (start - 1) + (L - end + 1) = L - n
    <3>1. \A a, b, c \in Nat : (a - 1) + (c - b + 1) = c - (b - a)
      OBVIOUS
    <3>2. start \in Nat /\ end \in Nat /\ L \in Nat
      BY <1>1, <1>2
    <3> QED BY <3>1, <3>2 DEF n
  <2>7. ASSUME NEW i \in end .. L PROVE (f \o g)[i - n] = s[i]
    <3>1. /\ i - end + 1 \in 1 .. L - end + 1 /\ (start - 1) + (i - end + 1) = i - n
          /\ end + (i - end + 1) - 1 = i
      <4>1. \A a, b, c \in Nat : \A j \in b .. c :
              /\ j - b + 1 \in 1 .. c - b + 1 /\ (a - 1) + (j - b + 1) = j - (b - a)
              /\ b + (j - b + 1) - 1 = j
        OBVIOUS
      <4>2. start \in Nat /\ end \in Nat /\ L \in Nat
        BY <1>1, <1>2
      <4> QED BY <4>1, <4>2 DEF n
    <3> QED BY <2>3, <2>4, <2>5, <3>1
  <2> QED BY <2>3, <2>4, <2>5, <2>6, <2>7 DEF f, g, s
<1> HIDE DEF blocks
<1>8. V!Down(x.omission, start, n) = x.omission /\ V!Down(0, start, n) = 0
  <2> HIDE DEF start
  <2>1. ~(x.omission >= start) /\ ~(0 >= start)
    BY <1>2
  <2> QED BY <2>1 DEF V!Down
<1>9. OldestCut(x) = [x EXCEPT !.blocks = blocks, !.runs = runs, !.live = V!Down(@, start, n),
                               !.current = V!Down(@, start, n), !.omission = V!Down(@, start, n),
                               !.cache = <<>>, !.cached = 0, !.omitted = @ + 1]
  BY DEF OldestCut, blocks, runs, run, n
<1> DEFINE y == OldestCut(x)
<1>10. /\ y \in Screen /\ y.live = 0 /\ y.current = 0 /\ y.omission = x.omission
       /\ y.cached = 0 /\ y.dirty = x.dirty /\ y.omitted = x.omitted + 1
       /\ y.blocks = blocks /\ y.runs = runs
  <2>1. <<>> \in V!Cells /\ 0 \in 0 .. 1 /\ x.omitted + 1 \in Nat /\ 0 \in Nat /\ x.omission \in Nat
    BY <1>1 DEF V!Cells
  <2>2. blocks \in V!Cells
    BY <1>7 DEF V!Cells, Block
  <2> HIDE DEF start
  <2>3. x \in Screen
    OBVIOUS
  <2> DEFINE l == V!Down(x.live, start, n)
             c == V!Down(x.current, start, n)
             o == V!Down(x.omission, start, n)
             m == x.omitted + 1
  <2>4. y = [x EXCEPT !.blocks = blocks, !.runs = runs, !.live = l, !.current = c, !.omission = o,
                      !.cache = <<>>, !.cached = 0, !.omitted = m]
    BY <1>9
  <2>5. l = 0 /\ c = 0 /\ o = x.omission /\ l \in Nat /\ c \in Nat /\ o \in Nat /\ m \in Nat
    BY <1>8, <2>1
  <2> HIDE DEF l, c, o, m, y
  <2>6. /\ y \in Screen /\ y.live = l /\ y.current = c /\ y.omission = o
        /\ y.cached = 0 /\ y.dirty = x.dirty /\ y.omitted = m
        /\ y.blocks = blocks /\ y.runs = runs
    BY <1>6, <2>1, <2>2, <2>3, <2>4, <2>5 DEF Screen
  <2> QED BY <2>5, <2>6 DEF m
<1> HIDE DEF y
<1> QED BY <1>2, <1>5, <1>6, <1>7, <1>10 DEF y, n, run

\* At most the oldest run is cut out, and the cell that says so is put or changed.
LEMMA TrimSound ==
  ASSUME NEW x \in Screen, Points(x), Kept(x), Reusable(x), x.live = 0, x.current = 0,
         Len(x.runs) <= MaxCompleted + 1
  PROVE  Sound(V!Trim(x)) /\ Marks(x, V!Trim(x))
<1>1. Len(x.runs) \in Nat /\ Len(x.blocks) \in Nat /\ x.dirty \in Nat
  BY ScreenIs
<1>2. CASE Len(x.runs) <= MaxCompleted
  <2>1. Len(x.runs) - MaxCompleted <= 0
    BY <1>1, <1>2, CompletedIsCount
  <2>2. V!Trim(x) = x
    BY <2>1, Zenon DEF V!Trim
  <2> QED BY <1>2, <2>2 DEF Sound, Marks
<1>3. CASE Len(x.runs) = MaxCompleted + 1
  <2> DEFINE L == Len(x.blocks)
             start == x.runs[1].start
             end == x.runs[1].end
             n == end - start
             y == OldestCut(x)
             z == V!Dirty(y, start)
             b == [kind |-> "omitted", text |-> y.omitted]
             v == V!Trim(x)
  <2>1. Len(x.runs) # 0 /\ Len(x.runs) \in 1 .. MaxCompleted + 1
    BY <1>1, <1>3, CompletedIsCount
  <2>2. /\ y \in Screen /\ start \in 1 .. L /\ end \in start + 1 .. L + 1
        /\ n \in Nat /\ n # 0
        /\ y.live = 0 /\ y.current = 0 /\ y.omission = x.omission /\ x.omission \in 0 .. start - 1
        /\ y.cached = 0 /\ y.dirty = x.dirty /\ y.omitted = x.omitted + 1
        /\ Len(y.blocks) = L - n
        /\ \A i \in 1 .. start - 1 : y.blocks[i] = x.blocks[i]
        /\ \A i \in end .. L : y.blocks[i - n] = x.blocks[i]
        /\ Len(y.runs) = Len(x.runs) - 1
        /\ \A r \in 1 .. Len(x.runs) - 1 :
             /\ y.runs[r].start = x.runs[r + 1].start - n /\ y.runs[r].end = x.runs[r + 1].end - n
             /\ y.runs[r].from = x.runs[r + 1].from /\ y.runs[r].to = x.runs[r + 1].to
             /\ y.runs[r].start >= start
    BY <2>1, OldestCutIs
  <2>3. v = IF z.omission = 0
            THEN [V!Up(V!InsertBlock(z, start, b), start) EXCEPT !.omission = start]
            ELSE V!ReplaceBlock(z, z.omission, b)
    BY <1>3, TrimIs
  <2> HIDE DEF v, y
  <2>4. b \in Block /\ b.kind = "omitted" /\ b.text = y.omitted
    BY <2>2 DEF Screen, Block, V!Kind
  <2>5. start \in Nat /\ start # 0
    BY <2>2, SMTT(30)
  <2>6. /\ z \in Screen /\ z.blocks = y.blocks /\ SameBut(y, z)
        /\ z.dirty = (IF y.dirty = 0 \/ start < y.dirty THEN start ELSE y.dirty) /\ z.dirty # 0
    BY <2>2, <2>5, DirtyIs
  <2>7. z.dirty \in 1 .. start
    BY <1>1, <2>2, <2>5, <2>6
  <2> HIDE DEF z, b, start, end, n, L
  <2>8. L \in Nat /\ end \in Nat /\ start <= L - n + 1 /\ n = end - start
    <3>1. n = end - start /\ L \in Nat
      BY <1>1 DEF n, L
    <3> QED BY <2>2, <3>1
  <2>9. ASSUME NEW i \in 1 .. L - n, i >= start PROVE i + n \in end .. L /\ y.blocks[i] = x.blocks[i + n]
    <3>1. i + n \in end .. L /\ (i + n) - n = i
      BY <2>2, <2>8, <2>9
    <3> QED BY <2>2, <3>1
  <2>10. CASE x.omission # 0
    <3> DEFINE o == x.omission
    <3>1. o \in 1 .. Len(z.blocks) /\ o \in 1 .. start - 1 /\ o \in 1 .. L - n /\ o \in Nat
      BY <2>2, <2>6, <2>8, <2>10
    <3>2. v = V!ReplaceBlock(z, o, b)
      BY <2>2, <2>3, <2>6, <2>10 DEF SameBut
    <3>3. /\ v \in Screen /\ v.blocks = [z.blocks EXCEPT ![o] = b] /\ SameBut(z, v)
          /\ v.dirty = (IF z.dirty = 0 \/ o < z.dirty THEN o ELSE z.dirty) /\ v.dirty # 0
      BY <2>4, <2>6, <3>1, <3>2, ReplaceBlockIs
    <3> HIDE DEF o
    <3>4. /\ v.live = 0 /\ v.current = 0 /\ v.omission = o /\ v.cached = 0 /\ v.omitted = y.omitted
          /\ v.runs = y.runs
      BY <2>2, <2>6, <3>3 DEF SameBut, o
    <3>5. y.blocks \in Seq(Block)
      BY <2>2, ScreenIs
    <3>6. /\ Len(v.blocks) = L - n /\ v.blocks[o] = b
          /\ \A i \in 1 .. L - n : i # o => v.blocks[i] = y.blocks[i]
      <4> DEFINE s == y.blocks
      <4>1. s \in Seq(Block) /\ Len(s) = L - n /\ v.blocks = [s EXCEPT ![o] = b]
        BY <2>2, <2>6, <3>3, <3>5
      <4> HIDE DEF s
      <4>2. /\ Len(v.blocks) = L - n /\ v.blocks[o] = b
            /\ \A i \in 1 .. L - n : i # o => v.blocks[i] = s[i]
        BY <3>1, <4>1
      <4> QED BY <4>2 DEF s
    <3>7. v.dirty <= Len(v.blocks) + 1
      BY <2>7, <2>8, <3>1, <3>3, <3>6
    <3>8. ASSUME NEW i \in 1 .. L - n
          PROVE  \/ i = o
                 \/ i \in 1 .. start - 1 /\ i # x.omission /\ v.blocks[i] = x.blocks[i]
                 \/ i + n \in end .. L /\ v.blocks[i] = x.blocks[i + n]
      <4>1. CASE i = o
        BY <4>1
      <4>2. CASE i # o /\ i >= start
        BY <2>9, <3>6, <4>2
      <4>3. CASE i # o /\ ~(i >= start)
        <5>1. i \in 1 .. start - 1
          BY <2>5, <4>3
        <5> QED BY <2>2, <3>6, <4>3, <5>1 DEF o
      <4> QED BY <4>1, <4>2, <4>3
    <3>9. ASSUME NEW i \in end .. L PROVE i - n > o /\ v.blocks[i - n] = x.blocks[i]
      <4>1. i - n \in 1 .. L - n /\ i - n > o /\ i - n # o
        BY <2>2, <2>8, <3>1
      <4> QED BY <2>2, <3>6, <4>1
    <3>10. Sound(v)
      <4>1. /\ Len(v.runs) = Len(x.runs) - 1
            /\ \A r \in 1 .. Len(x.runs) - 1 :
                 /\ v.runs[r].start = x.runs[r + 1].start - n /\ v.runs[r].end = x.runs[r + 1].end - n
                 /\ v.runs[r].from = x.runs[r + 1].from /\ v.runs[r].to = x.runs[r + 1].to
        BY <2>2, <3>4
      <4>2. v.blocks[o].kind = "omitted" /\ v.blocks[o].text = v.omitted
        BY <2>4, <3>4, <3>6
      <4>3. n \in Nat /\ v \in Screen /\ v.dirty # 0 /\ Len(v.blocks) = L - n /\ o \in Nat /\ o \in 1 .. L - n
        BY <2>2, <3>1, <3>3, <3>6
      <4> QED BY <2>1, <3>4, <3>7, <3>8, <3>9, <4>1, <4>2, <4>3, CutSound DEF L, start, end
    <3> QED BY <3>3, <3>10 DEF Marks, v
  <2>11. CASE x.omission = 0
    <3> DEFINE w == V!InsertBlock(z, start, b)
               u == V!Up(w, start)
               d == n - 1
    <3>1. z.omission = 0 /\ v = [u EXCEPT !.omission = start] /\ start \in 1 .. Len(z.blocks) + 1
      BY <2>2, <2>3, <2>6, <2>8, <2>11 DEF SameBut
    <3>2. /\ w \in Screen /\ w.blocks = V!InsertAt(z.blocks, start, b) /\ SameBut(z, w)
          /\ w.dirty = (IF z.dirty = 0 \/ start < z.dirty THEN start ELSE z.dirty) /\ w.dirty # 0
      BY <2>4, <2>6, <3>1, InsertBlockIs
    <3> HIDE DEF w
    <3>3. /\ u \in Screen /\ u.blocks = w.blocks /\ u.dirty = w.dirty
          /\ u.cached = w.cached /\ u.omitted = w.omitted
          /\ u.live = Past(w.live, start) /\ u.current = Past(w.current, start)
          /\ Len(u.runs) = Len(w.runs)
          /\ \A r \in 1 .. Len(w.runs) : u.runs[r] = Shifted(w.runs[r], start)
      BY <2>5, <3>2, UpIs
    <3> HIDE DEF u
    <3>4. Past(0, start) = 0
      BY <2>5 DEF Past
    <3>5. /\ v \in Screen /\ v.blocks = V!InsertAt(y.blocks, start, b)
          /\ v.live = 0 /\ v.current = 0 /\ v.omission = start /\ v.cached = 0 /\ v.omitted = y.omitted
          /\ v.dirty \in 1 .. start /\ v.runs = u.runs
      <4>1. /\ v \in Screen /\ v.blocks = u.blocks /\ v.omission = start /\ v.live = u.live
            /\ v.current = u.current /\ v.cached = u.cached /\ v.omitted = u.omitted
            /\ v.dirty = u.dirty /\ v.runs = u.runs
        BY <2>5, <3>1, <3>3 DEF Screen
      <4>2. w.live = 0 /\ w.current = 0 /\ w.cached = 0 /\ w.omitted = y.omitted
        BY <2>2, <2>6, <3>2 DEF SameBut
      <4>3. w.dirty \in 1 .. start
        BY <2>5, <2>7, <3>2
      <4> QED BY <2>6, <3>2, <3>3, <3>4, <4>1, <4>2, <4>3
    <3>6. /\ Len(v.blocks) = L - n + 1 /\ v.blocks[start] = b
          /\ \A i \in 1 .. start - 1 : v.blocks[i] = y.blocks[i]
          /\ \A i \in start .. L - n : v.blocks[i + 1] = y.blocks[i]
      <4> DEFINE s == y.blocks
      <4>1. s \in Seq(Block) /\ Len(s) = L - n /\ v.blocks = V!InsertAt(s, start, b)
            /\ start \in 1 .. Len(s) + 1
        BY <2>2, <2>6, <3>1, <3>5, ScreenIs
      <4> HIDE DEF s
      <4> DEFINE q == V!InsertAt(s, start, b)
      <4>2. /\ Len(q) = Len(s) + 1 /\ q[start] = b
            /\ \A i \in 1 .. start - 1 : q[i] = s[i]
            /\ \A i \in start .. Len(s) : q[i + 1] = s[i]
        <5>1. s \in Seq(Block) /\ start \in 1 .. Len(s) + 1 /\ b \in Block
          BY <2>4, <4>1
        <5> QED BY <5>1, InsertIs
      <4>3. v.blocks = q
        BY <4>1
      <4> HIDE DEF q
      <4> QED BY <4>1, <4>2, <4>3 DEF s
    <3>7. ASSUME NEW r \in 1 .. Len(x.runs) - 1
          PROVE  /\ v.runs[r].start = x.runs[r + 1].start - d /\ v.runs[r].end = x.runs[r + 1].end - d
                 /\ v.runs[r].from = x.runs[r + 1].from /\ v.runs[r].to = x.runs[r + 1].to
      <4> DEFINE c == y.runs[r]
      <4>1. w.runs = y.runs
        BY <2>6, <3>2 DEF SameBut
      <4>2. v.runs[r] = Shifted(c, start)
        BY <2>2, <3>3, <3>5, <4>1
      <4>3. c \in CompletedRun /\ c.start >= start
        BY <2>2, ScreenIs
      <4> HIDE DEF c
      <4>4. Shifted(c, start) = [c EXCEPT !.start = @ + 1, !.end = @ + 1]
        BY <4>3 DEF Shifted
      <4>5. /\ v.runs[r].start = c.start + 1 /\ v.runs[r].end = c.end + 1
            /\ v.runs[r].from = c.from /\ v.runs[r].to = c.to
        BY <4>2, <4>3, <4>4 DEF CompletedRun
      <4>6. /\ c.start = x.runs[r + 1].start - n /\ c.end = x.runs[r + 1].end - n
            /\ c.from = x.runs[r + 1].from /\ c.to = x.runs[r + 1].to
        BY <2>2 DEF c
      <4>7. x.runs[r + 1].start \in Nat /\ x.runs[r + 1].end \in Nat
        <5>1. r + 1 \in 1 .. Len(x.runs)
          BY <1>1
        <5> QED BY <5>1, ScreenIs
      <4>8. \A a \in Nat : (a - n) + 1 = a - d
        BY <2>2
      <4> QED BY <4>5, <4>6, <4>7, <4>8
    <3> HIDE DEF d
    <3>8. d \in Nat /\ L - n + 1 = L - d /\ start \in 1 .. L - d /\ v.dirty <= (L - d) + 1
          /\ d = n - 1 /\ start \in Nat
      <4>1. d = n - 1
        BY DEF d
      <4> QED BY <2>2, <2>8, <3>5, <4>1
    <3>9. ASSUME NEW i \in 1 .. L - d
          PROVE  \/ i = start
                 \/ i \in 1 .. start - 1 /\ i # x.omission /\ v.blocks[i] = x.blocks[i]
                 \/ i + d \in end .. L /\ v.blocks[i] = x.blocks[i + d]
      <4>1. CASE i = start
        BY <4>1
      <4>2. CASE i > start
        <5>1. i - 1 \in start .. L - n /\ (i - 1) + 1 = i /\ (i - 1) + n = i + d /\ i - 1 >= start
              /\ i - 1 \in 1 .. L - n
          BY <2>2, <2>8, <3>8, <4>2
        <5>2. v.blocks[i] = y.blocks[i - 1]
          BY <3>6, <5>1
        <5>3. (i - 1) + n \in end .. L /\ y.blocks[i - 1] = x.blocks[(i - 1) + n]
          BY <2>9, <5>1
        <5> QED BY <5>1, <5>2, <5>3
      <4>3. CASE i < start
        <5>1. i \in 1 .. start - 1 /\ i # x.omission
          BY <2>5, <2>11, <4>3
        <5> QED BY <2>2, <3>6, <5>1
      <4> QED BY <3>8, <4>1, <4>2, <4>3
    <3>10. ASSUME NEW i \in end .. L PROVE i - d > start /\ v.blocks[i - d] = x.blocks[i]
      <4>1. i - n \in start .. L - n /\ (i - n) + 1 = i - d /\ i - d > start
        BY <2>2, <2>8, <3>8
      <4> QED BY <2>2, <3>6, <4>1
    <3>11. Sound(v)
      <4>1. Len(v.runs) = Len(x.runs) - 1
        BY <2>2, <2>6, <3>2, <3>3, <3>5 DEF SameBut
      <4>2. v.blocks[start].kind = "omitted" /\ v.blocks[start].text = v.omitted
        BY <2>4, <3>5, <3>6
      <4>3. v.dirty # 0 /\ Len(v.blocks) = L - d /\ v.dirty <= Len(v.blocks) + 1
        BY <3>5, <3>6, <3>8
      <4> QED BY <2>1, <3>5, <3>7, <3>8, <3>9, <3>10, <4>1, <4>2, <4>3, CutSound DEF L, start, end
    <3>12. v.dirty # 0
      BY <3>5
    <3> QED BY <3>11, <3>12 DEF Marks, v
  <2> QED BY <2>10, <2>11
<1> QED BY <1>1, <1>2, <1>3, CompletedIsCount

\* The current run is closed with the cells it has.
LEMMA FinalizeSound ==
  ASSUME NEW x, Sound(x), x.live = 0
  PROVE  Sound(V!Finalize(x)) /\ Marks(x, V!Finalize(x))
<1>1. CASE x.current = 0
  <2>1. V!Finalize(x) = x
    BY <1>1, Zenon DEF V!Finalize, V!None
  <2> QED BY <2>1 DEF Marks
<1>2. CASE x.current # 0
  <2> DEFINE c == x.current
             n == Len(x.blocks)
             run == [start |-> c, end |-> n + 1, from |-> x.blocks[c].text, to |-> V!Last(x.blocks).kind]
             z == [x EXCEPT !.runs = Append(@, run), !.current = 0]
  <2>1. /\ x \in Screen /\ n \in Nat /\ c \in 1 .. n /\ Len(x.runs) \in Nat
        /\ x.blocks \in Seq(Block) /\ x.runs \in Seq(CompletedRun) /\ x.omission \in Nat
        /\ \A i \in 1 .. n : x.blocks[i] \in Block /\ x.blocks[i].kind \in V!Kind /\ x.blocks[i].text \in Nat
    <3>1. x \in Screen
      BY DEF Sound
    <3> QED BY <1>2, <3>1, ScreenIs DEF Sound, Points
  <2>2. V!Last(x.blocks) = x.blocks[n] /\ n \in 1 .. n
    BY <2>1 DEF V!Last
  <2>3. ~(n + 1 <= c)
    BY <2>1
  <2>4. V!Finalize(x) = V!Trim(z)
    BY <1>2, <2>3, Zenon DEF V!Finalize, V!None
  <2>5. /\ run \in CompletedRun /\ run.start = c /\ run.end = n + 1
        /\ run.from = x.blocks[c].text /\ run.to = x.blocks[n].kind
    BY <2>1, <2>2 DEF CompletedRun
  <2> HIDE DEF run
  <2>6. /\ Append(x.runs, run) \in Seq(CompletedRun) /\ Len(Append(x.runs, run)) = Len(x.runs) + 1
        /\ Append(x.runs, run)[Len(x.runs) + 1] = run
        /\ \A r \in 1 .. Len(x.runs) : Append(x.runs, run)[r] = x.runs[r]
    BY <2>1, <2>5, AppendProperties
  <2> DEFINE runs == Append(x.runs, run)
  <2>7. /\ z \in Screen /\ z.runs = runs /\ z.current = 0 /\ z.blocks = x.blocks
        /\ z.live = x.live /\ z.omission = x.omission /\ z.tools = x.tools /\ z.dirty = x.dirty
        /\ z.cache = x.cache /\ z.cached = x.cached /\ z.omitted = x.omitted
    <3> HIDE DEF runs
    <3>1. z = [x EXCEPT !.runs = runs, !.current = 0]
      BY DEF runs
    <3> HIDE DEF z
    <3>2. runs \in Seq(CompletedRun)
      BY <2>6 DEF runs
    <3> QED BY <2>1, <3>1, <3>2 DEF Screen
  <2> HIDE DEF runs, z
  <2>8. Points(z)
    BY <2>1, <2>7 DEF Sound, Points
  <2>9. Kept(z)
    <3>1. ASSUME NEW r \in 1 .. Len(x.runs)
          PROVE  /\ RunKept(x, x.runs[r]) /\ runs[r] = x.runs[r] /\ RunKept(z, x.runs[r])
                 /\ x.runs[r].end <= c
      <4>1. RunKept(x, x.runs[r])
        BY DEF Sound, Kept
      <4>2. RunKept(z, x.runs[r]) /\ x.runs[r].end <= c
        BY <1>2, <2>7, <4>1 DEF RunKept, Sound
      <4> QED BY <2>6, <4>1, <4>2 DEF runs
    <3>2. RunKept(z, run)
      <4>1. x.omission < c /\ x.blocks[c].kind = "user"
        BY <1>2 DEF Sound, Kept, Points
      <4>2. c < n + 1 /\ n + 1 - 1 = n
        BY <2>1
      <4> QED BY <2>1, <2>5, <2>7, <4>1, <4>2 DEF RunKept
    <3>3. Len(z.runs) = Len(x.runs) + 1 /\ z.runs[Len(x.runs) + 1] = run
          /\ \A r \in 1 .. Len(x.runs) : z.runs[r] = x.runs[r]
      BY <2>6, <2>7 DEF runs
    <3>4. \A r \in 1 .. Len(x.runs) + 1 : r \in 1 .. Len(x.runs) \/ r = Len(x.runs) + 1
      BY <2>1
    <3>5. \A r \in 1 .. Len(z.runs) : RunKept(z, z.runs[r])
      BY <3>1, <3>2, <3>3, <3>4
    <3>6. ASSUME NEW q \in 1 .. Len(z.runs), NEW r \in 1 .. Len(z.runs), q < r
          PROVE  z.runs[q].end <= z.runs[r].start
      <4>1. q \in 1 .. Len(x.runs)
        BY <2>1, <3>3, <3>6
      <4>2. CASE r = Len(x.runs) + 1
        BY <2>5, <3>1, <3>3, <4>1, <4>2
      <4>3. CASE r \in 1 .. Len(x.runs)
        BY <3>3, <3>6, <4>1, <4>3 DEF Sound, Kept
      <4> QED BY <3>3, <3>4, <4>2, <4>3
    <3> QED BY <2>7, <3>5, <3>6 DEF Kept
  <2>10. Reusable(z)
    BY <2>7 DEF Sound, Reusable
  <2>11. Len(z.runs) <= MaxCompleted + 1
    <3>1. Len(x.runs) <= MaxCompleted
      BY DEF Sound
    <3>2. Len(z.runs) = Len(x.runs) + 1
      BY <2>6, <2>7 DEF runs
    <3> QED BY <2>1, <3>1, <3>2, CompletedIsCount
  <2>12. Sound(V!Trim(z)) /\ Marks(z, V!Trim(z))
    BY <2>7, <2>8, <2>9, <2>10, <2>11, TrimSound
  <2> QED BY <2>4, <2>7, <2>12 DEF Marks
<1> QED BY <1>1, <1>2

\* What ends a run: it is written, then the run is closed.
LEMMA ClosedSound ==
  ASSUME NEW x, NEW y, Gives(x, y), y.live = 0
  PROVE  Sound(V!Finalize(y)) /\ Marks(x, V!Finalize(y))
<1>1. Sound(y) /\ Marks(x, y)
  BY DEF Gives
<1>2. Sound(V!Finalize(y)) /\ Marks(y, V!Finalize(y))
  BY <1>1, FinalizeSound
<1> QED BY <1>1, <1>2 DEF Marks

\* An error ends the run.
LEMMA WriteErrorSound ==
  ASSUME NEW x, Sound(x)
  PROVE  Sound(V!WriteError(x)) /\ Marks(x, V!WriteError(x))
<1> DEFINE y == V!Settled(x)
           z == V!AppendBlock(y, V!Cell("error"))
<1>1. Gives(x, y) /\ y.live = 0 /\ Sound(y)
  BY SettledGives DEF Gives
<1>2. Gives(y, z) /\ z.live = y.live
  BY <1>1, AppendGives, CellIs
<1>3. Gives(x, z)
  BY <1>1, <1>2, GivesOn
<1> QED BY <1>1, <1>2, <1>3, ClosedSound DEF V!WriteError

\* So does a failure or a cancellation.
LEMMA RunFailedSound ==
  ASSUME NEW x, Sound(x), NEW cancelled \in BOOLEAN
  PROVE  Sound(V!RunFailed(x, cancelled)) /\ Marks(x, V!RunFailed(x, cancelled))
<1> DEFINE w == V!EndLive(x)
           y == V!EndTools(w)
           z == V!AppendBlock(y, V!Cell("error"))
<1>1. Gives(x, w) /\ w.live = 0 /\ Sound(w)
  BY EndLiveGives DEF Gives
<1>2. Gives(w, y) /\ y.live = w.live /\ Sound(y)
  BY <1>1, EndToolsGives DEF Gives
<1>3. Gives(x, y)
  BY <1>1, <1>2, GivesOn
<1>4. Gives(y, z) /\ z.live = y.live
  BY <1>2, AppendGives, CellIs
<1>5. Gives(x, z)
  BY <1>3, <1>4, GivesOn
<1>6. V!RunFailed(x, cancelled) = V!Finalize(IF cancelled THEN y ELSE z)
  BY DEF V!RunFailed
<1>7. CASE cancelled
  BY <1>1, <1>2, <1>3, <1>6, <1>7, ClosedSound
<1>8. CASE ~cancelled
  BY <1>1, <1>2, <1>4, <1>5, <1>6, <1>8, ClosedSound
<1> QED BY <1>7, <1>8

\* So does success, with or without a separator.
LEMMA RunSucceededSound ==
  ASSUME NEW x, Sound(x), NEW separator \in BOOLEAN
  PROVE  Sound(V!RunSucceeded(x, separator)) /\ Marks(x, V!RunSucceeded(x, separator))
<1> DEFINE y == V!FinishAssistant(x)
           w == V!Gap(y)
           z == V!AppendBlock(w, V!Cell("note"))
<1>1. Gives(x, y) /\ y.live = 0 /\ Sound(y)
  BY FinishGives DEF Gives
<1>2. Gives(y, w) /\ w.live = y.live /\ Sound(w)
  BY <1>1, GapGives DEF Gives
<1>3. Gives(w, z) /\ z.live = w.live
  BY <1>2, AppendGives, CellIs
<1>4. Gives(x, z)
  BY <1>1, <1>2, <1>3, GivesOn
<1>5. V!RunSucceeded(x, separator) = V!Finalize(IF separator THEN z ELSE y)
  BY DEF V!RunSucceeded
<1>6. CASE separator
  BY <1>1, <1>2, <1>3, <1>4, <1>5, <1>6, ClosedSound
<1>7. CASE ~separator
  BY <1>1, <1>5, <1>7, ClosedSound
<1> QED BY <1>6, <1>7

\* What is reused and what is rendered again are together what there is.
LEMMA RenderSound ==
  ASSUME NEW x, Sound(x)
  PROVE  LET y == V!Render(x)
         IN  Sound(y) /\ y.dirty = 0 /\ (x.dirty # 0 => y.cache = y.blocks \o V!Tools(y))
             /\ y.blocks = x.blocks /\ y.tools = x.tools /\ (x.dirty = 0 => y = x)
<1>1. CASE x.dirty = 0
  <2>1. V!Render(x) = x
    BY <1>1, Zenon DEF V!Render
  <2> QED BY <1>1, <2>1
<1>2. CASE x.dirty # 0
  <2> DEFINE y == V!Render(x)
             n == Len(x.blocks)
             s == x.blocks
             c == x.cache
             from == IF x.cached = 1 /\ x.dirty > 1 THEN x.dirty ELSE 1
             f == SubSeq(c, 1, from - 1)
             g == SubSeq(s, from, n)
             m == V!Tools(x)
             drawn == f \o g \o m
  <2>1. /\ x \in Screen /\ n \in Nat /\ s \in Seq(Block) /\ c \in Seq(Block) /\ x.tools \in Nat
        /\ x.dirty \in Nat /\ x.dirty <= n + 1 /\ Len(c) \in Nat /\ Len(s) = n
    <3>1. x \in Screen
      BY DEF Sound
    <3> QED BY <3>1, ScreenIs DEF Sound, Reusable
  <2>2. y = [x EXCEPT !.cache = drawn, !.cached = 1, !.dirty = 0]
    BY <1>2, Zenon DEF V!Render
  <2> HIDE DEF s, c, m, y
  <2>3. /\ from \in 1 .. n + 1 /\ from - 1 \in 0 .. Len(c)
        /\ \A i \in 1 .. from - 1 : c[i] = s[i]
    <3>1. CASE x.cached = 1 /\ x.dirty > 1
      <4>1. from = x.dirty
        BY <3>1
      <4>2. ASSUME NEW i \in 1 .. x.dirty - 1 PROVE i \in 1 .. Len(c) /\ c[i] = s[i]
        <5>1. i \in 1 .. Len(x.blocks) /\ i < x.dirty
          BY <2>1
        <5> QED BY <3>1, <5>1 DEF Sound, Reusable, c, s
      <4> HIDE DEF from
      <4>3. x.dirty - 1 \in 1 .. x.dirty - 1
        BY <2>1, <3>1
      <4>4. x.dirty - 1 \in 1 .. Len(c)
        BY <4>2, <4>3
      <4> QED BY <2>1, <3>1, <4>1, <4>2, <4>4
    <3>2. CASE ~(x.cached = 1 /\ x.dirty > 1)
      <4>1. from = 1
        BY <3>2
      <4> HIDE DEF from
      <4> QED BY <2>1, <4>1
    <3> QED BY <3>1, <3>2
  <2> HIDE DEF from, n
  <2>4. f \in Seq(Block) /\ Len(f) = from - 1 /\ \A i \in 1 .. from - 1 : f[i] = c[i]
    <3>1. \A i \in 1 .. from - 1 : i \in 1 .. Len(c)
      BY <2>1, <2>3
    <3>2. 1 \in 1 .. Len(c) + 1
      BY <2>1
    <3> QED BY <2>1, <2>3, <3>1, <3>2, SubSeqProperties
  <2>5. g \in Seq(Block) /\ Len(g) = n - from + 1 /\ \A i \in 1 .. n - from + 1 : g[i] = s[from + i - 1]
    <3>1. n \in 0 .. Len(s) /\ from \in 1 .. Len(s) + 1
      BY <2>1, <2>3
    <3> QED BY <2>1, <3>1, SubSeqProperties
  <2> HIDE DEF f, g
  <2>6. /\ f \o g \in Seq(Block) /\ Len(f \o g) = Len(f) + Len(g)
        /\ \A i \in 1 .. Len(f) : (f \o g)[i] = f[i]
        /\ \A i \in 1 .. Len(g) : (f \o g)[Len(f) + i] = g[i]
    BY <2>4, <2>5, Joined
  <2>7. f \o g = s
    <3> DEFINE h == f \o g
    <3>1. h \in Seq(Block) /\ Len(h) = n
      <4>1. (from - 1) + (n - from + 1) = n
        BY <2>1, <2>3
      <4> QED BY <2>4, <2>5, <2>6, <4>1
    <3>2. ASSUME NEW i \in 1 .. n PROVE h[i] = s[i]
      <4>1. CASE i \in 1 .. from - 1
        BY <2>3, <2>4, <2>6, <4>1
      <4>2. CASE i \in from .. n
        <5>1. /\ i - from + 1 \in 1 .. n - from + 1 /\ (from - 1) + (i - from + 1) = i
              /\ from + (i - from + 1) - 1 = i
          BY <2>1, <2>3, <4>2
        <5> QED BY <2>4, <2>5, <2>6, <5>1
      <4>3. i \in 1 .. from - 1 \/ i \in from .. n
        BY <2>1, <2>3
      <4> QED BY <4>1, <4>2, <4>3
    <3> HIDE DEF h
    <3>3. h = s
      BY <2>1, <3>1, <3>2, SeqEqual
    <3> QED BY <3>3 DEF h
  <2>8. m \in Seq(Block)
    <3> DEFINE b == [kind |-> "tools", text |-> x.tools]
    <3>1. b \in Block
      BY <2>1 DEF Block, V!Kind
    <3> HIDE DEF b
    <3>2. <<b>> \in Seq(Block) /\ <<>> \in Seq(Block)
      BY <3>1
    <3>3. m = <<>> \/ m = <<b>>
      BY DEF m, V!Tools, b
    <3> QED BY <3>2, <3>3
  <2>9. drawn = s \o m
    BY <2>7
  <2>10. /\ s \o m \in Seq(Block) /\ Len(s \o m) = Len(s) + Len(m) /\ Len(m) \in Nat
         /\ \A i \in 1 .. Len(s) : (s \o m)[i] = s[i]
    BY <2>1, <2>8, Joined
  <2> DEFINE w == s \o m
  <2>11. y = [x EXCEPT !.cache = w, !.cached = 1, !.dirty = 0]
    BY <2>2, <2>9
  <2>12. w \in V!Cells /\ 1 \in 0 .. 1 /\ 0 \in Nat
    BY <2>10 DEF V!Cells, Block
  <2> HIDE DEF drawn, w
  <2>13. /\ y \in Screen /\ y.cache = w /\ y.cached = 1 /\ y.dirty = 0 /\ y.blocks = s
         /\ y.live = x.live /\ y.current = x.current /\ y.omission = x.omission /\ y.runs = x.runs
         /\ y.tools = x.tools /\ y.omitted = x.omitted
    BY <2>1, <2>11, <2>12 DEF Screen, s
  <2>14. Points(y) /\ Kept(y) /\ Len(y.runs) <= MaxCompleted
    BY <2>13 DEF Sound, Points, Kept, RunKept, s
  <2>15. Reusable(y)
    <3>1. \A i \in 1 .. n : i \in 1 .. Len(w) /\ w[i] = s[i]
      BY <2>1, <2>10 DEF w
    <3>2. 0 <= n + 1 /\ Len(y.blocks) = n
      BY <2>1, <2>13
    <3> QED BY <2>13, <3>1, <3>2 DEF Reusable
  <2>16. V!Tools(y) = m
    BY <2>13 DEF V!Tools, m
  <2> QED BY <1>2, <2>13, <2>14, <2>15, <2>16 DEF Sound, y, w, s
<1> QED BY <1>1, <1>2

-----------------------------------------------------------------------------
(* The steps.                                                              *)

\* The inductive invariant: the screen is sound, and what was rendered last is
\* what there is, but for the very first rendering.
Fits(x) == Sound(x) /\ (x.dirty = 0 => x.cache = x.blocks \o V!Tools(x))
ScreenIInv == Fits(t) /\ writes \in Nat /\ (writes > 0 => t.dirty = 0)

Becomes(x, y) == Sound(y) /\ Marks(x, y)

\* The banner alone is a sound list.
LEMMA ScreenStarts == V!Init => ScreenIInv
<1> SUFFICES ASSUME V!Init PROVE ScreenIInv
  OBVIOUS
<1> DEFINE b == [kind |-> "banner", text |-> 0]
           bs == <<b>>
<1>1. b \in Block /\ b.kind = "banner"
  BY DEF Block, V!Kind
<1> HIDE DEF b
<1>2. bs \in Seq(Block) /\ Len(bs) = 1 /\ bs[1] = b /\ <<>> \in Seq(Block) /\ Len(<<>>) = 0
      /\ <<>> \in Seq(CompletedRun)
  BY <1>1
<1>3. t = [blocks |-> bs, live |-> 0, current |-> 0, omission |-> 0, runs |-> <<>>, tools |-> 0,
           dirty |-> 1, cache |-> <<>>, cached |-> 0, omitted |-> 0, prompts |-> 0]
  BY DEF V!Init, V!None, b
<1> HIDE DEF bs
<1>4. /\ t.blocks = bs /\ t.live = 0 /\ t.current = 0 /\ t.omission = 0 /\ t.runs = <<>>
      /\ t.tools = 0 /\ t.dirty = 1 /\ t.cached = 0
  BY <1>3
<1>5. t \in Screen
  <2>1. bs \in V!Cells /\ <<>> \in V!Cells
    BY <1>2 DEF V!Cells, Block
  <2>2. 0 \in Nat /\ 1 \in Nat /\ 0 \in 0 .. 1
    OBVIOUS
  <2> QED BY <1>2, <1>3, <2>1, <2>2 DEF Screen
<1>6. Points(t)
  <2>1. \A i \in 1 .. Len(bs) : i = 1
    BY <1>2
  <2>2. \A i \in 1 .. Len(t.blocks) : t.blocks[i].kind = "banner" /\ i # 0
    <3>1. ASSUME NEW i \in 1 .. Len(t.blocks) PROVE t.blocks[i].kind = "banner" /\ i # 0
      <4>1. t.blocks[i] = bs[1] /\ i = 1
        BY <1>4, <2>1
      <4> QED BY <1>1, <1>2, <4>1
    <3> QED BY <3>1
  <2> QED BY <1>2, <1>4, <2>2 DEF Points
<1>7. Kept(t)
  BY <1>2, <1>4 DEF Kept
<1>8. Reusable(t)
  BY <1>2, <1>4 DEF Reusable
<1>9. Len(t.runs) <= MaxCompleted
  BY <1>2, <1>4, CompletedIsCount
<1>10. writes \in Nat /\ ~(writes > 0)
  BY DEF V!Init
<1> QED BY <1>4, <1>5, <1>6, <1>7, <1>8, <1>9, <1>10 DEF Sound, Fits, ScreenIInv

\* What is shown next: what was there, or what is rendered now.
LEMMA RenderedFits ==
  ASSUME NEW x, Fits(x), NEW y, Becomes(x, y)
  PROVE  Fits(V!Render(y)) /\ V!Render(y).dirty = 0
<1> DEFINE z == V!Render(y)
<1>1. /\ Sound(z) /\ z.dirty = 0 /\ (y.dirty # 0 => z.cache = z.blocks \o V!Tools(z))
      /\ (y.dirty = 0 => z = y)
  BY RenderSound DEF Becomes
<1> HIDE DEF z
<1>2. CASE y.dirty = 0
  <2>1. y.blocks = x.blocks /\ y.tools = x.tools /\ y.cache = x.cache /\ x.dirty = 0
    BY <1>2 DEF Becomes, Marks
  <2>2. V!Tools(y) = V!Tools(x)
    BY <2>1 DEF V!Tools
  <2> QED BY <1>1, <1>2, <2>1, <2>2 DEF Fits, z
<1> QED BY <1>1, <1>2 DEF Fits, z

\* A write of what becomes of a fitting screen leaves a fitting one.
LEMMA WrittenFits ==
  ASSUME writes \in Nat, NEW x, Fits(x), NEW y, Becomes(x, y), V!Write(y)
  PROVE  ScreenIInv'
<1>1. t' = V!Render(y) /\ writes' = writes + 1
  BY DEF V!Write
<1>2. Fits(t') /\ t'.dirty = 0
  BY <1>1, RenderedFits
<1>3. writes' \in Nat
  BY <1>1
<1>4. Fits(t)'
  BY <1>2 DEF Fits, Sound, V!Tools, Screen, Points, Kept, RunKept, Reusable
<1> QED BY <1>2, <1>3, <1>4 DEF ScreenIInv

\* Text that waits is written and rendered before what comes next.
LEMMA FlushedFits == Fits(t) => Fits(V!Flushed)
<1> SUFFICES ASSUME Fits(t) PROVE Fits(V!Flushed)
  OBVIOUS
<1>1. CASE pending
  <2>1. Becomes(t, V!Grow(t))
    BY GrowGives DEF Gives, Fits, Becomes
  <2> QED BY <1>1, <2>1, RenderedFits DEF V!Flushed
<1> QED BY <1>1 DEF V!Flushed

\* What each handler makes of a screen.
LEMMA HandlersBecome ==
  ASSUME NEW x, Fits(x)
  PROVE  /\ Becomes(x, x) /\ Becomes(x, V!WriteNote(x)) /\ Becomes(x, V!WriteLine(x))
         /\ Becomes(x, V!WriteError(x)) /\ Becomes(x, V!InsertNoteBeforeCurrentRun(x))
         /\ Becomes(x, V!WriteUserTurn(x)) /\ Becomes(x, V!WriteCompaction(x))
         /\ Becomes(x, V!ChangeTool(x))
         /\ \A flag \in BOOLEAN : /\ Becomes(x, V!StartTool(x, flag)) /\ Becomes(x, V!RunFailed(x, flag))
                                  /\ Becomes(x, V!RunSucceeded(x, flag))
<1>1. Sound(x)
  BY DEF Fits
<1>2. Becomes(x, x)
  BY <1>1 DEF Becomes, Marks
<1>3. Becomes(x, V!WriteNote(x)) /\ Becomes(x, V!WriteLine(x)) /\ Becomes(x, V!WriteCompaction(x))
  BY <1>1, WriteNoteGives, WriteLineGives, WriteCompactionGives DEF Gives, Becomes
<1>4. Becomes(x, V!WriteError(x))
  BY <1>1, WriteErrorSound DEF Becomes
<1>5. Becomes(x, V!InsertNoteBeforeCurrentRun(x))
  BY <1>1, InsertNoteGives DEF Becomes
<1>6. Becomes(x, V!WriteUserTurn(x))
  BY <1>1, WriteUserTurnGives DEF Becomes
<1>7. Becomes(x, V!ChangeTool(x))
  BY <1>1, ChangeToolGives DEF Gives, Becomes
<1>8. ASSUME NEW flag \in BOOLEAN
      PROVE  /\ Becomes(x, V!StartTool(x, flag)) /\ Becomes(x, V!RunFailed(x, flag))
             /\ Becomes(x, V!RunSucceeded(x, flag))
  <2>1. Becomes(x, V!StartTool(x, flag))
    BY <1>1, StartToolGives DEF Gives, Becomes
  <2>2. Becomes(x, V!RunFailed(x, flag))
    BY <1>1, RunFailedSound DEF Becomes
  <2>3. Becomes(x, V!RunSucceeded(x, flag))
    BY <1>1, RunSucceededSound DEF Becomes
  <2> QED BY <2>1, <2>2, <2>3
<1> QED BY <1>2, <1>3, <1>4, <1>5, <1>6, <1>7, <1>8

\* Every step of the transcript keeps it.
LEMMA ScreenStep == ScreenIInv /\ [V!Next]_<<t, pending, writes>> => ScreenIInv'
<1> SUFFICES ASSUME ScreenIInv, [V!Next]_<<t, pending, writes>> PROVE ScreenIInv'
  OBVIOUS
<1>1. Fits(t) /\ writes \in Nat /\ Fits(V!Flushed)
  BY FlushedFits DEF ScreenIInv
<1>2. CASE V!LocalWrite
  <2>1. \/ V!Write(V!WriteNote(t)) \/ V!Write(V!WriteLine(t)) \/ V!Write(V!WriteError(t))
        \/ V!Write(V!InsertNoteBeforeCurrentRun(t)) \/ V!Write(V!WriteUserTurn(t))
    BY <1>2 DEF V!LocalWrite
  <2>2. /\ Becomes(t, V!WriteNote(t)) /\ Becomes(t, V!WriteLine(t)) /\ Becomes(t, V!WriteError(t))
        /\ Becomes(t, V!InsertNoteBeforeCurrentRun(t)) /\ Becomes(t, V!WriteUserTurn(t))
    BY <1>1, HandlersBecome
  <2>3. CASE V!Write(V!WriteNote(t))
    BY <1>1, <2>2, <2>3, WrittenFits
  <2>4. CASE V!Write(V!WriteLine(t))
    BY <1>1, <2>2, <2>4, WrittenFits
  <2>5. CASE V!Write(V!WriteError(t))
    BY <1>1, <2>2, <2>5, WrittenFits
  <2>6. CASE V!Write(V!InsertNoteBeforeCurrentRun(t))
    BY <1>1, <2>2, <2>6, WrittenFits
  <2>7. CASE V!Write(V!WriteUserTurn(t))
    BY <1>1, <2>2, <2>7, WrittenFits
  <2> QED BY <2>1, <2>3, <2>4, <2>5, <2>6, <2>7
<1>3. CASE V!LiveFlush
  <2>1. V!Write(V!Flushed)
    BY <1>3 DEF V!LiveFlush
  <2>2. Becomes(V!Flushed, V!Flushed)
    BY <1>1, HandlersBecome
  <2> QED BY <1>1, <2>1, <2>2, WrittenFits
<1>4. CASE V!ApplyRunEvent
  <2> DEFINE f == V!Flushed
  <2>1. \/ V!Write(V!WriteCompaction(f)) \/ V!Write(V!WriteUserTurn(f)) \/ V!Write(V!ChangeTool(f))
        \/ \E flag \in BOOLEAN : \/ V!Write(V!StartTool(f, flag)) \/ V!Write(V!RunFailed(f, flag))
                                 \/ V!Write(V!RunSucceeded(f, flag))
    BY <1>4 DEF V!ApplyRunEvent
  <2>2. /\ Becomes(f, V!WriteCompaction(f)) /\ Becomes(f, V!WriteUserTurn(f)) /\ Becomes(f, V!ChangeTool(f))
        /\ \A flag \in BOOLEAN : /\ Becomes(f, V!StartTool(f, flag)) /\ Becomes(f, V!RunFailed(f, flag))
                                 /\ Becomes(f, V!RunSucceeded(f, flag))
    BY <1>1, HandlersBecome
  <2>3. Fits(f)
    BY <1>1
  <2> HIDE DEF f
  <2>4. CASE V!Write(V!WriteCompaction(f))
    BY <1>1, <2>2, <2>3, <2>4, WrittenFits
  <2>5. CASE V!Write(V!WriteUserTurn(f))
    BY <1>1, <2>2, <2>3, <2>5, WrittenFits
  <2>6. CASE V!Write(V!ChangeTool(f))
    BY <1>1, <2>2, <2>3, <2>6, WrittenFits
  <2>7. ASSUME NEW flag \in BOOLEAN,
               V!Write(V!StartTool(f, flag)) \/ V!Write(V!RunFailed(f, flag)) \/ V!Write(V!RunSucceeded(f, flag))
        PROVE  ScreenIInv'
    <3>1. /\ Becomes(f, V!StartTool(f, flag)) /\ Becomes(f, V!RunFailed(f, flag))
          /\ Becomes(f, V!RunSucceeded(f, flag))
      BY <2>2
    <3>2. CASE V!Write(V!StartTool(f, flag))
      BY <1>1, <2>3, <3>1, <3>2, WrittenFits
    <3>3. CASE V!Write(V!RunFailed(f, flag))
      BY <1>1, <2>3, <3>1, <3>3, WrittenFits
    <3>4. CASE V!Write(V!RunSucceeded(f, flag))
      BY <1>1, <2>3, <3>1, <3>4, WrittenFits
    <3> QED BY <2>7, <3>2, <3>3, <3>4
  <2> QED BY <2>1, <2>4, <2>5, <2>6, <2>7
<1>5. CASE V!Resize
  <2> DEFINE x == [t EXCEPT !.cached = 0, !.dirty = 1]
  <2>0. t \in Screen /\ 0 \in 0 .. 1 /\ 1 \in Nat
    BY <1>1 DEF Fits, Sound
  <2>1. /\ x \in Screen /\ x.blocks = t.blocks /\ x.live = t.live /\ x.current = t.current
        /\ x.omission = t.omission /\ x.runs = t.runs /\ x.tools = t.tools /\ x.dirty = 1
        /\ x.cached = 0 /\ x.omitted = t.omitted
    BY <2>0 DEF Screen
  <2>6. t' = V!Render(x) /\ writes' = writes
    BY <1>5 DEF V!Resize
  <2> HIDE DEF x
  <2>2. Points(x) /\ Kept(x) /\ Len(x.runs) <= MaxCompleted
    BY <1>1, <2>1 DEF Fits, Sound, Points, Kept, RunKept
  <2>3. Len(x.blocks) \in Nat
    BY <2>1, ScreenIs
  <2>4. Reusable(x)
    BY <2>1, <2>3 DEF Reusable
  <2>5. Sound(x) /\ Fits(x) /\ Becomes(x, x)
    BY <2>1, <2>2, <2>4 DEF Sound, Fits, Becomes, Marks
  <2>7. Fits(t') /\ t'.dirty = 0
    BY <2>5, <2>6, RenderedFits
  <2> QED BY <1>1, <2>6, <2>7 DEF ScreenIInv, Fits, Sound, V!Tools, Screen, Points, Kept, RunKept, Reusable
<1>6. CASE UNCHANGED <<t, writes>>
  BY <1>6 DEF ScreenIInv, Fits, Sound, Screen, Points, Kept, RunKept, Reusable, V!Tools
<1>7. CASE V!Delta
  BY <1>6, <1>7 DEF V!Delta
<1>8. CASE UNCHANGED <<t, pending, writes>>
  BY <1>6, <1>8
<1> QED BY <1>2, <1>3, <1>4, <1>5, <1>7, <1>8 DEF V!Next

\* It gives the property: the indexes, the runs and the screen.
LEMMA ScreenIsSound == ScreenIInv => V!TranscriptSound
<1> SUFFICES ASSUME ScreenIInv PROVE V!TranscriptSound
  OBVIOUS
<1>1. /\ t \in Screen /\ Points(t) /\ Kept(t) /\ Len(t.runs) <= MaxCompleted
      /\ t.blocks \in Seq(Block) /\ t.runs \in Seq(CompletedRun)
      /\ Len(t.blocks) \in Nat /\ Len(t.runs) \in Nat
      /\ DOMAIN t.blocks = 1 .. Len(t.blocks) /\ DOMAIN t.runs = 1 .. Len(t.runs)
  BY ScreenIs DEF ScreenIInv, Fits, Sound
<1>2. V!IndexesPoint
  BY <1>1 DEF Points, V!IndexesPoint, V!KindAt, V!None
<1>3. V!RunsKeptWhole
  <2>1. ASSUME NEW r \in 1 .. Len(t.runs)
        PROVE  /\ 1 <= t.runs[r].start /\ t.runs[r].start < t.runs[r].end
               /\ t.runs[r].end <= Len(t.blocks) + 1
               /\ V!KindAt(t.runs[r].start, "user")
               /\ t.blocks[t.runs[r].start].text = t.runs[r].from
               /\ t.blocks[t.runs[r].end - 1].kind = t.runs[r].to
               /\ r > 1 => t.runs[r - 1].end <= t.runs[r].start
    <3>1. RunKept(t, t.runs[r]) /\ t.runs[r].start \in Nat /\ t.runs[r].end \in Nat /\ t.omission \in Nat
      BY <1>1, ScreenIs DEF Kept
    <3>2. 1 <= t.runs[r].start /\ t.runs[r].start \in 1 .. Len(t.blocks)
      BY <1>1, <3>1 DEF RunKept
    <3>3. r > 1 => r - 1 \in 1 .. Len(t.runs) /\ r - 1 < r
      BY <1>1
    <3>4. r > 1 => t.runs[r - 1].end <= t.runs[r].start
      BY <1>1, <3>3 DEF Kept
    <3> QED BY <1>1, <3>1, <3>2, <3>4 DEF RunKept, V!KindAt
  <2>2. t.current # 0 /\ t.runs # <<>> => V!Last(t.runs).end <= t.current
    <3> SUFFICES ASSUME t.current # 0, t.runs # <<>> PROVE V!Last(t.runs).end <= t.current
      OBVIOUS
    <3>1. Len(t.runs) \in 1 .. Len(t.runs)
      BY <1>1
    <3>2. RunKept(t, t.runs[Len(t.runs)])
      BY <1>1, <3>1 DEF Kept
    <3> QED BY <3>2 DEF RunKept, V!Last
  <2> QED BY <1>1, <2>1, <2>2 DEF V!RunsKeptWhole, V!None
<1>4. V!ShownIsCurrent
  BY DEF ScreenIInv, Fits, V!ShownIsCurrent
<1> QED BY <1>2, <1>3, <1>4 DEF V!TranscriptSound

-----------------------------------------------------------------------------
(* The parts together.                                                     *)

\* A step of the pack is a step of each part or leaves it as it is.
LEMMA PartsStep ==
  [MCNext]_allVars =>
    [S!Next]_S!vars /\ [C!Next]_C!vars /\ [Next]_vars /\ [V!Next]_<<t, pending, writes>>
BY DEF MCNext, allVars, session, context, screen, S!vars, S!mcp, S!run, S!session, C!vars

\* Each part begins as it does alone.
LEMMA PartsInit == MCInit => SessionIInv /\ ContextIInv /\ ToolsIInv /\ ScreenIInv
BY SessionInit, ContextInit, ToolsInit, ScreenStarts DEF MCInit

\* The invariants hold for the pack, from the step of each part.
LEMMA PartsInvariance == MCSpec => [](SessionIInv /\ ContextIInv /\ ToolsIInv /\ ScreenIInv)
<1>1. /\ SessionIInv /\ ContextIInv /\ ToolsIInv /\ ScreenIInv /\ [MCNext]_allVars
      => (SessionIInv /\ ContextIInv /\ ToolsIInv /\ ScreenIInv)'
  BY PartsStep, SessionStep, ContextStep, ToolsStep, ScreenStep
<1> QED BY PartsInit, <1>1, PTL DEF MCSpec

\* A call of the session that is over has closed every server it opened, left
\* no half of a run behind a failed start, and blocks compaction only after
\* the failures it allows (stream_session_run_events, runtime/session.py).
THEOREM CallsLeaveNothing == MCSpec => []CallLeavesNothing
<1>1. SessionIInv => CallLeavesNothing
  BY SessionGives DEF CallLeavesNothing
<1> QED BY PartsInvariance, <1>1, PTL

\* The consumer that saw a run begin is told its end once and last, with every
\* tool call answered before it (stream_session_run_events, runtime/session.py).
THEOREM ConsumersSeeEnd == MCSpec => []ConsumerSeesEnd
<1>1. SessionIInv => ConsumerSeesEnd
  BY SessionGives DEF ConsumerSeesEnd
<1> QED BY PartsInvariance, <1>1, PTL

\* Whatever changed between the runs, whatever was compacted, the model of a
\* running turn has been told every current setting (turn_context.py).
THEOREM ModelsAreTold == MCSpec => []ModelIsToldCurrent
<1>1. ContextIInv => ModelIsToldCurrent
  BY DEF ContextIInv, ModelIsToldCurrent
<1> QED BY PartsInvariance, <1>1, PTL

\* Whatever the servers offer and whichever calls and answers interleave: a call
\* reaches the one tool of its name, after the consent its mode asks for, and a
\* deferred tool only after a search (runtime/mcp.py, _ensure_approved).
THEOREM OnlyAllowedCalls == MCSpec => []CallsAllowed
BY PartsInvariance, InvGivesCallsAllowed, PTL

\* However the handlers interleave with the flushes of waiting text and with
\* resizes: the indexes point at the cells they were set for, every completed run
\* is kept whole until it is the oldest and cut out as one, and what is shown is
\* what the cells are now (transcript.go, runsummary.go).
THEOREM TranscriptsStaySound == MCSpec => []TranscriptSound
<1>1. ScreenIInv => TranscriptSound
  BY ScreenIsSound DEF TranscriptSound
<1> QED BY PartsInvariance, <1>1, PTL
=============================================================================
