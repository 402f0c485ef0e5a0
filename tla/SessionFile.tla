---------------------------- MODULE SessionFile ----------------------------
(***************************************************************************)
(* The lines of a session file (session/jsonl.py) and what load_session     *)
(* makes of them.  Event payloads are abstracted: EventRules has the rules  *)
(* between the events of one run; here a run has some events, the first of  *)
(* which starts it, and one terminal event.                                 *)
(***************************************************************************)
EXTENDS Integers, SequencesExt

CONSTANTS Run, Name

\* The lines a completed run may have after its messages.
Trailer == {"inventory", "turn", "grants"}

Line == [type : {"header", "docs", "garbage"}]
          \cup [type : {"run", "event", "end", "messages"} \cup Trailer, run : Run]
          \cup [type : {"fork"}, parent : SUBSET Run]
          \cup [type : {"compaction"}, run : Run, covers : SUBSET Run]
          \cup [type : {"info"}, name : Name]

Header  == [type |-> "header"]
Docs    == [type |-> "docs"]
Garbage == [type |-> "garbage"]   \* a line that does not parse
Of(type, run) == [type |-> type, run |-> run]
Info(name)    == [type |-> "info", name |-> name]

\* The state of load_session's loop; "none" and "at most one" are sets.
Blank == [ok |-> TRUE, lines |-> 0, docs |-> FALSE, fork |-> FALSE, name |-> {},
          runs |-> <<>>, current |-> {}, events |-> 0, ended |-> FALSE,
          latest |-> [t \in Trailer |-> {}], compacted |-> 0]

IndexOf(runs, r) == CHOOSE i \in DOMAIN runs : runs[i] = r

\* Whether the loop accepts the line.
Follows(s, e) ==
  IF e.type = "header" THEN s.lines = 0
  ELSE /\ s.lines > 0
       /\ CASE e.type = "garbage"  -> FALSE
            [] e.type = "event"    -> s.current = {e.run} /\ ~s.ended
            [] e.type = "end"      -> s.current = {e.run} /\ ~s.ended /\ s.events > 0
            [] e.type = "messages" -> s.current = {e.run} /\ s.ended
            [] OTHER               -> s.current = {}
       /\ CASE e.type = "fork" -> ~s.fork /\ s.runs = <<>> /\ s.name = {}
            [] e.type = "docs" -> ~s.docs /\ s.runs = <<>>
            [] e.type = "run"  -> e.run \notin ToSet(s.runs)
            [] e.type \in Trailer ->
                 /\ s.runs # <<>> /\ Last(s.runs) = e.run
                 /\ s.latest[e.type] # {e.run}
            [] e.type = "compaction" ->
                 /\ e.run \in ToSet(s.runs)
                 /\ IndexOf(s.runs, e.run) >= s.compacted
            [] OTHER -> TRUE

\* What it then remembers.
Taken(s, e) ==
  LET t == [s EXCEPT !.lines = @ + 1]
  IN  CASE e.type = "fork"      -> [t EXCEPT !.fork = TRUE]
        [] e.type = "docs"      -> [t EXCEPT !.docs = TRUE]
        [] e.type = "info"      -> [t EXCEPT !.name = {e.name}]
        [] e.type = "run"       -> [t EXCEPT !.current = {e.run}, !.events = 0, !.ended = FALSE]
        [] e.type = "event"     -> [t EXCEPT !.events = @ + 1]
        [] e.type = "end"       -> [t EXCEPT !.ended = TRUE]
        [] e.type = "messages"  -> [t EXCEPT !.runs = Append(@, e.run), !.current = {}]
        [] e.type \in Trailer   -> [t EXCEPT !.latest[e.type] = {e.run}]
        [] e.type = "compaction" -> [t EXCEPT !.compacted = IndexOf(s.runs, e.run),
                                              !.latest["turn"] = {}]
        [] OTHER -> t

\* The loop reads one line more, or raises.
Step(s, e) == IF s.ok /\ Follows(s, e) THEN Taken(s, e) ELSE [s EXCEPT !.ok = FALSE]

\* load_session: its state after each line, and at the end.
Walk(lines) ==
  LET read[i \in 0 .. Len(lines)] == IF i = 0 THEN Blank ELSE Step(read[i - 1], lines[i])
  IN  read
Load(lines) == Walk(lines)[Len(lines)]

Loads(lines) == LET s == Load(lines)
                IN  s.ok /\ s.lines > 0 /\ s.current = {}

\* What is left of the first lines without those of some types.
Without(lines, types) ==
  LET left[i \in 0 .. Len(lines)] ==
        IF i = 0 THEN <<>>
        ELSE IF lines[i].type \in types THEN left[i - 1] ELSE Append(left[i - 1], lines[i])
  IN  left

\* Slip: a fork keeps the parent's turn contexts.
CopiedWithTurns(lines) == Without(lines, {"header", "fork", "info"})[Len(lines)]

\* fork_session: the lines of the parent that a fork repeats ...
Copied(lines) == Without(lines, {"header", "fork", "info", "turn"})[Len(lines)]

\* ... after a header and the parent's last run.
ForkOf(lines, last) == <<Header, [type |-> "fork", parent |-> last]>> \o Copied(lines)

LastRun(lines) == LET runs == Load(lines).runs
                  IN  IF runs = <<>> THEN {} ELSE {Last(runs)}

\* The lines of run r, from its session_run to its messages, are in the file,
\* one after the other; the first one may have been joined to the line before.
HoldsRun(lines, r) ==
  \E i, j \in DOMAIN lines :
    /\ i < j
    /\ lines[i] \in {Of("run", r), Garbage} /\ lines[j] = Of("messages", r)
    /\ lines[j - 1] = Of("end", r)
    /\ \A k \in i + 1 .. j - 2 : lines[k] = Of("event", r)
=============================================================================
