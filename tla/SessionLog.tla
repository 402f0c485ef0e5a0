----------------------------- MODULE SessionLog -----------------------------
(***************************************************************************)
(* The session files of one workspace and the metadata file beside each     *)
(* (session/jsonl.py, rpc/session_store.py), written by two processes: the  *)
(* backend, and the "jaca fork" launcher.  A process dies, or the machine   *)
(* loses power, at any point.                                              *)
(*                                                                         *)
(* An operation of a process reads, decides, and then performs its writes   *)
(* one by one; the process does nothing else in between, but the other      *)
(* process may, and dying skips the rest.                                  *)
(***************************************************************************)
EXTENDS SessionFile

CONSTANTS
  Session,      \* session ids, the fork's included
  ForkNames,    \* bound: names the launcher may give a fork
  Extras,       \* bound: trailing lines the runs have, a subset of Trailer
  MaxEvents,    \* bound: non-terminal events of a run
  MaxLines,     \* bound: lines of a file
  MaxFaults     \* bound: process deaths and power losses

BoundsAssumption ==
  /\ ForkNames \subseteq Name /\ Extras \subseteq Trailer
  /\ MaxEvents \in Nat \ {0} /\ MaxLines \in Nat /\ MaxFaults \in Nat

Process == {"backend", "launcher"}

VARIABLES
  file,      \* lines of each session's file; none: no file, or an empty one
  bare,      \* sessions whose last line is whole but lacks its newline
  synced,    \* how many lines of each file are known to be on disk
  meta,      \* metadata of each session: its state and the name it holds
  dirty,     \* sessions whose metadata was written since the last power loss
  todo,      \* the writes each process has still to perform
  held,      \* session lock: "free", or the command that holds it
  writing,   \* the open SessionRunAppender, if any, with its validator state
  source,    \* the runs a compaction in progress was loaded from
  forking    \* the launcher's fork in progress

\* History variables: they record, and no action reads them.
VARIABLES
  done,      \* runs whose finalization returned
  hurt,      \* sessions an abandoned run, a death or a torn fork damaged
  launched,  \* forks that the launcher named
  faults     \* deaths and power losses so far

disk == <<file, bare, synced, meta, dirty>>
memory == <<todo, held, writing, source>>
vars == <<disk, memory, forking, done, hurt, launched, faults>>

NoFork == [stage |-> "none"]

Init ==
  /\ file = [s \in Session |-> <<>>] /\ bare = {} /\ synced = [s \in Session |-> 0]
  /\ meta = [s \in Session |-> [state |-> "absent", name |-> {}]] /\ dirty = {}
  /\ todo = [p \in Process |-> <<>>]
  /\ held = [s \in Session |-> "free"] /\ writing = [s \in Session |-> {}]
  /\ source = [s \in Session |-> {}]
  /\ forking = NoFork
  /\ done = [s \in Session |-> {}] /\ hurt = {} /\ launched = {} /\ faults = 0

-----------------------------------------------------------------------------
(* Writes.                                                                 *)

\* Lines appended by one flush, which may also fsync.
Lines(s, lines, sync) == <<[op |-> "lines", at |-> s, lines |-> lines, sync |-> sync]>>

\* Metadata is rewritten in place: truncated, then written.
Meta(s, name) == <<[op |-> "truncate", at |-> s], [op |-> "put", at |-> s, name |-> name]>>

\* The operation returns; it finalized the runs given, if any.
Return(s, runs) == <<[op |-> "return", at |-> s, runs |-> runs]>>

\* _update_session_metadata reads before it writes, and raises when it cannot.
Update(s, name) == IF meta[s].state = "ok" THEN Meta(s, name) ELSE <<>>

\* A line appended where a newline is missing joins the line before it.
Appended(s, lines) ==
  IF s \in bare /\ lines # <<>>
  THEN Front(file[s]) \o <<Garbage>> \o Tail(lines)
  ELSE file[s] \o lines

Free(p) == todo[p] = <<>>
Readable(s) == meta[s].state = "ok"
Room(s, n) == Len(file[s]) + n <= MaxLines   \* bound
Fresh(s) == file[s] = <<>> /\ meta[s].state = "absent"

\* A client may name the session in a request: its file exists, and it is not
\* a fork in progress.
Known(s) ==
  /\ file[s] # <<>>
  /\ forking.stage # "none" => forking.to # s
  /\ \A i \in DOMAIN todo["launcher"] : todo["launcher"][i].at # s

\* An operation of process p: all it leaves to do is these writes.
Does(p, writes) == Free(p) /\ todo' = [todo EXCEPT ![p] = writes]

Perform(p) ==
  /\ ~Free(p)
  /\ todo' = [todo EXCEPT ![p] = Tail(@)]
  /\ LET w == Head(todo[p])
     IN  \/ /\ w.op = "lines"
            /\ file' = [file EXCEPT ![w.at] = Appended(w.at, w.lines)]
            /\ bare' = bare \ {w.at}
            /\ synced' = IF w.sync THEN [synced EXCEPT ![w.at] = Len(file'[w.at])] ELSE synced
            /\ UNCHANGED <<meta, dirty, held, writing, done>>
         \/ /\ w.op = "truncate"
            /\ meta' = [meta EXCEPT ![w.at].state = "torn"]
            /\ dirty' = dirty \cup {w.at}
            /\ UNCHANGED <<file, bare, synced, held, writing, done>>
         \/ /\ w.op = "put"
            /\ meta' = [meta EXCEPT ![w.at] = [state |-> "ok", name |-> w.name]]
            /\ UNCHANGED <<file, bare, synced, dirty, held, writing, done>>
         \/ /\ w.op = "return"
            /\ held' = [held EXCEPT ![w.at] = "free"]
            /\ writing' = [writing EXCEPT ![w.at] = {}]
            /\ done' = [done EXCEPT ![w.at] = @ \cup w.runs]
            /\ UNCHANGED disk
  /\ UNCHANGED <<source, forking, hurt, faults, launched>>

-----------------------------------------------------------------------------
(* The backend.  Commands on one session are serialized by its lock, except *)
(* session.mode.set.                                                       *)

\* create_session: initialize_session, then the project docs if there are any.
CreateSession(s, docs) ==
  /\ Fresh(s)
  /\ forking.stage # "none" => forking.to # s
  /\ Does("backend",
          Lines(s, <<Header>>, TRUE) \o Meta(s, {})
            \o (IF docs THEN Lines(s, <<Docs>>, TRUE) \o Meta(s, {}) ELSE <<>>))
  /\ UNCHANGED <<disk, held, writing, source, forking, done, hurt, launched, faults>>

\* Slip: the session lock is not taken.
StartRunUnlocked(s, r) ==
  /\ Known(s) /\ held[s] # "run"
  /\ Loads(file[s]) /\ Readable(s)
  /\ \A t \in Session : Of("run", r) \notin ToSet(file[t])
  /\ Room(s, 3 + MaxEvents + Cardinality(Extras))
  /\ Does("backend", Lines(s, <<Of("run", r)>>, FALSE))
  /\ held' = [held EXCEPT ![s] = "run"]
  /\ writing' = [writing EXCEPT ![s] = {[run |-> r, events |-> 0, ended |-> FALSE]}]
  /\ UNCHANGED <<disk, source, forking, done, hurt, launched, faults>>

\* run.start, up to the session_run line: SessionRunAppender.__init__ loads the
\* session and reads its metadata first.
StartRun(s, r) ==
  /\ Known(s) /\ held[s] = "free"
  /\ Loads(file[s]) /\ Readable(s)
  /\ \A t \in Session : Of("run", r) \notin ToSet(file[t])   \* a fresh uuid
  /\ Room(s, 3 + MaxEvents + Cardinality(Extras))
  /\ Does("backend", Lines(s, <<Of("run", r)>>, FALSE))
  /\ held' = [held EXCEPT ![s] = "run"]
  /\ writing' = [writing EXCEPT ![s] = {[run |-> r, events |-> 0, ended |-> FALSE]}]
  /\ UNCHANGED <<disk, source, forking, done, hurt, launched, faults>>

\* append_event: checked against the validator state, flushed, not synced.
AppendEvent(s, type) ==
  /\ \E w \in writing[s] :
       /\ ~w.ended
       /\ IF type = "event" THEN w.events < MaxEvents ELSE w.events > 0
       /\ Does("backend", Lines(s, <<Of(type, w.run)>>, FALSE))
       /\ writing' = [writing EXCEPT ![s] =
            {IF type = "event" THEN [w EXCEPT !.events = @ + 1] ELSE [w EXCEPT !.ended = TRUE]}]
  /\ UNCHANGED <<disk, held, source, forking, done, hurt, launched, faults>>

\* The chosen trailing lines of a run, in the order of finalize.
After(r, extras) == LET some(t) == IF t \in extras THEN <<Of(t, r)>> ELSE <<>>
                    IN  some("inventory") \o some("turn") \o some("grants")

\* Slip: the file is not synced.
FinalizeUnsynced(s, extras) ==
  /\ \E w \in writing[s] :
       /\ w.ended
       /\ Does("backend",
               Lines(s, <<Of("messages", w.run)>> \o After(w.run, extras), FALSE)
                 \o Update(s, meta[s].name) \o Return(s, {w.run}))
  /\ UNCHANGED <<disk, held, writing, source, forking, done, hurt, launched, faults>>

\* finalize: messages and trailing lines in one flush with fsync, then the
\* metadata.
Finalize(s, extras) ==
  /\ \E w \in writing[s] :
       /\ w.ended
       /\ Does("backend",
               Lines(s, <<Of("messages", w.run)>> \o After(w.run, extras), TRUE)
                 \o Update(s, meta[s].name) \o Return(s, {w.run}))
  /\ UNCHANGED <<disk, held, writing, source, forking, done, hurt, launched, faults>>

\* The run ends without finalization: the appender is closed, the run stays
\* incomplete.
Abandon(s) ==
  /\ writing[s] # {} /\ Free("backend")
  /\ held' = [held EXCEPT ![s] = "free"]
  /\ writing' = [writing EXCEPT ![s] = {}]
  /\ hurt' = hurt \cup {s}
  /\ UNCHANGED <<disk, todo, source, forking, done, faults, launched>>

\* Compaction, requested or automatic: the history is loaded, and the summary
\* of it is awaited from the model ...
BeginCompaction(s) ==
  /\ Known(s) /\ held[s] = "free" /\ Free("backend")
  /\ Loads(file[s]) /\ Load(file[s]).runs # <<>>
  /\ held' = [held EXCEPT ![s] = "compaction"]
  /\ source' = [source EXCEPT ![s] = ToSet(Load(file[s]).runs)]
  /\ UNCHANGED <<disk, todo, writing, forking, done, hurt, launched, faults>>

\* ... which may fail.  (The count of failures is not modelled.)
FailCompaction(s) ==
  /\ source[s] # {}
  /\ Does("backend", Return(s, {}))
  /\ source' = [source EXCEPT ![s] = {}]
  /\ UNCHANGED <<disk, held, writing, forking, done, hurt, launched, faults>>

\* append_compaction_to_session loads again, and compacts through the last run.
EndCompaction(s) ==
  /\ source[s] # {}
  /\ Loads(file[s]) /\ Room(s, 1)
  /\ Does("backend",
          Lines(s, <<[type |-> "compaction", run |-> Last(Load(file[s]).runs),
                      covers |-> source[s]]>>, TRUE)
            \o Update(s, meta[s].name) \o Return(s, {}))
  /\ source' = [source EXCEPT ![s] = {}]
  /\ UNCHANGED <<disk, held, writing, forking, done, hurt, launched, faults>>

\* Slip: the names of other sessions are not looked at.
NameUnchecked(s, n) == meta[s].name # {n}

\* append_session_name_to_session, its tests: a name that is new here, and free
\* in the workspace, whose metadata must all be readable.
NameAccepted(s, n) ==
  /\ meta[s].name # {n}
  /\ \A t \in Session : meta[t].state # "torn"
  /\ \A t \in Session \ {s} : meta[t].name # {n}

NameWrites(s, n) == Lines(s, <<Info(n)>>, TRUE) \o Meta(s, {n})

NameSession(s, n) ==
  /\ Known(s) /\ held[s] = "free"
  /\ Loads(file[s]) /\ Readable(s) /\ NameAccepted(s, n)
  /\ Room(s, 1)
  /\ Does("backend", NameWrites(s, n))
  /\ UNCHANGED <<disk, held, writing, source, forking, done, hurt, launched, faults>>

\* session.mode.set rewrites the metadata, whatever holds the lock.
SetMode(s) ==
  /\ Known(s) /\ Readable(s)
  /\ Does("backend", Meta(s, meta[s].name))
  /\ UNCHANGED <<disk, held, writing, source, forking, done, hurt, launched, faults>>

-----------------------------------------------------------------------------
(* The launcher: create_fork.                                              *)

\* The wanted name is free, and the source loads.
BeginFork(s, t, names) ==
  /\ forking.stage = "none" /\ Free("launcher")
  /\ Known(s) /\ Fresh(t) /\ ~\E i \in DOMAIN todo["backend"] : todo["backend"][i].at = t
  /\ names # {} => \A u \in Session : meta[u].state # "torn" /\ meta[u].name # names
  /\ Loads(file[s])
  /\ forking' = [stage |-> "loaded", from |-> s, to |-> t, names |-> names,
                 last |-> LastRun(file[s])]
  /\ UNCHANGED <<disk, memory, done, hurt, faults, launched>>

\* The source is read a second time, and written to the fork's file.
CopyFork ==
  /\ forking.stage = "loaded"
  /\ LET lines == file[forking.from]
     IN  /\ Garbage \notin ToSet(lines)
         /\ Does("launcher", Lines(forking.to, ForkOf(lines, forking.last), TRUE))
         /\ hurt' = IF Loads(lines) THEN hurt ELSE hurt \cup {forking.to}
  /\ forking' = [forking EXCEPT !.stage = "copied"]
  /\ UNCHANGED <<disk, held, writing, source, done, faults, launched>>

\* The source's metadata is read, and the fork's written.
DescribeFork ==
  /\ forking.stage = "copied"
  /\ Readable(forking.from)
  /\ Does("launcher", Meta(forking.to, {}))
  /\ forking' = [forking EXCEPT !.stage = "described"]
  /\ UNCHANGED <<disk, held, writing, source, done, hurt, faults, launched>>

\* append_session_name_to_session on the fork, or nothing when no name was
\* given; then the fork is opened in a client.
NameFork ==
  /\ forking.stage = "described"
  /\ \/ forking.names = {} /\ Does("launcher", <<>>)
     \/ \E n \in forking.names :
          /\ Loads(file[forking.to]) /\ NameAccepted(forking.to, n)
          /\ Does("launcher", NameWrites(forking.to, n))
  /\ launched' = IF forking.names = {} THEN launched ELSE launched \cup {forking.to}
  /\ forking' = NoFork
  /\ UNCHANGED <<disk, held, writing, source, done, hurt, faults>>

\* A check fails: the launcher exits with an error, and what it wrote stays.
GiveUpFork ==
  /\ Free("launcher")
  /\ \/ forking.stage = "loaded" /\ Garbage \in ToSet(file[forking.from])
     \/ forking.stage = "copied" /\ ~Readable(forking.from)
     \/ /\ forking.stage = "described"
        /\ \E n \in forking.names : ~Loads(file[forking.to]) \/ ~NameAccepted(forking.to, n)
  /\ forking' = NoFork
  /\ UNCHANGED <<disk, memory, done, hurt, faults, launched>>

-----------------------------------------------------------------------------
(* Faults.                                                                 *)

\* Lines that may exceed the text buffer of 8192 bytes.
Long == {"run", "event", "end", "messages", "inventory", "compaction"}

\* A process dies between two writes, or inside a flush: the text buffer
\* hands over long lines in pieces, each before its newline.
Die(p) ==
  /\ faults < MaxFaults
  /\ faults' = faults + 1
  /\ todo' = [todo EXCEPT ![p] = <<>>]
  /\ \/ UNCHANGED <<file, bare>>
     \/ /\ ~Free(p) /\ Head(todo[p]).op = "lines"
        /\ LET w == Head(todo[p])
           IN  \E k \in DOMAIN w.lines, whole \in BOOLEAN :
                 /\ ~whole => w.lines[k].type \in Long
                 /\ k < Len(w.lines) => \E i \in 1 .. k + 1 : w.lines[i].type \in Long
                 /\ file' = [file EXCEPT ![w.at] = Appended(w.at, SubSeq(w.lines, 1, k))]
                 /\ bare' = IF whole THEN bare \ {w.at} ELSE bare \cup {w.at}
  /\ IF p = "backend"
     THEN /\ held' = [s \in Session |-> "free"]
          /\ writing' = [s \in Session |-> {}]
          /\ source' = [s \in Session |-> {}]
          /\ hurt' = hurt \cup bare' \cup {s \in Session : writing[s] # {}}
          /\ UNCHANGED forking
     ELSE /\ forking' = NoFork
          /\ hurt' = hurt \cup bare' \cup (IF forking.stage = "none" THEN {} ELSE {forking.to})
          /\ UNCHANGED <<held, writing, source>>
  /\ UNCHANGED <<synced, meta, dirty, done, launched>>

\* Power is lost: both processes die, each file keeps what is synced and
\* perhaps more, the last line of which may be torn, and metadata, which is
\* never synced, may be torn.
LosePower ==
  /\ faults < MaxFaults
  /\ faults' = faults + 1
  /\ \E kept \in [Session -> 0 .. MaxLines + 1] :
       /\ \A s \in Session : kept[s] \in synced[s] .. Len(file[s])
       /\ \E torn \in SUBSET {s \in Session : kept[s] < Len(file[s])}, lost \in SUBSET dirty :
            /\ file' = [s \in Session |-> SubSeq(file[s], 1, kept[s])
                                            \o (IF s \in torn THEN <<Garbage>> ELSE <<>>)]
            /\ bare' = {s \in bare : kept[s] = Len(file[s])}
            /\ synced' = [s \in Session |-> Len(file'[s])]
            /\ meta' = [s \in Session |-> IF s \in lost THEN [meta[s] EXCEPT !.state = "torn"] ELSE meta[s]]
            /\ hurt' = hurt \cup torn \cup bare' \cup {s \in Session : writing[s] # {}}
                            \cup {s \in Session : kept[s] < Len(file[s])}
                            \cup (IF forking.stage = "none" THEN {} ELSE {forking.to})
  /\ dirty' = {}
  /\ todo' = [p \in Process |-> <<>>]
  /\ held' = [s \in Session |-> "free"] /\ writing' = [s \in Session |-> {}]
  /\ source' = [s \in Session |-> {}]
  /\ forking' = NoFork
  /\ UNCHANGED <<done, launched>>

Next ==
  \/ \E p \in Process : Perform(p) \/ Die(p)
  \/ \E s \in Session :
       \/ \E docs \in BOOLEAN : CreateSession(s, docs)
       \/ \E r \in Run : StartRun(s, r)
       \/ \E type \in {"event", "end"} : AppendEvent(s, type)
       \/ \E extras \in SUBSET Extras : Finalize(s, extras)
       \/ Abandon(s)
       \/ BeginCompaction(s) \/ FailCompaction(s) \/ EndCompaction(s)
       \/ \E n \in Name : NameSession(s, n)
       \/ SetMode(s)
       \/ \E t \in Session \ {s}, names \in {{}} \cup {{n} : n \in ForkNames} :
            BeginFork(s, t, names)
  \/ CopyFork \/ DescribeFork \/ NameFork \/ GiveUpFork
  \/ LosePower

Spec == Init /\ [][Next]_vars

-----------------------------------------------------------------------------
(* Properties.                                                             *)

\* The values of the store's state; a file is never shorter than what is
\* known to be on disk.
TypeOK ==
  /\ \A s \in Session : \A i \in DOMAIN file[s] : file[s][i] \in Line
  /\ bare \subseteq Session /\ dirty \subseteq Session /\ hurt \cup launched \subseteq Session
  /\ \A s \in Session : synced[s] \in 0 .. Len(file[s])
  /\ meta \in [Session -> [state : {"absent", "torn", "ok"}, name : SUBSET Name]]
  /\ held \in [Session -> {"free", "run", "compaction"}]
  /\ writing \in [Session -> SUBSET [run : Run, events : 0 .. MaxEvents, ended : BOOLEAN]]
  /\ source \in [Session -> SUBSET Run]
  /\ \A s \in Session : writing[s] # {} <=> held[s] = "run"
  /\ faults \in 0 .. MaxFaults

\* A finalized run is on disk for good: neither process deaths nor power
\* losses, nor anything appended later, take a line of it away.  (The first
\* line of a run may be lost as it is written, when it joins a bare line.)
Durable == \A s \in Session : \A r \in done[s] : HoldsRun(file[s], r)

\* A session stops loading only when a run in it was abandoned or a fault hit
\* it: no legal sequence of commands, of either process, writes a file that
\* load_session refuses, and a streaming run's file is a loadable prefix.
LoadsUnlessHurt ==
  \A s \in Session :
    s \notin hurt /\ file[s] # <<>> =>
      IF writing[s] = {} THEN Loads(file[s]) ELSE Load(file[s]).ok

\* A compaction stands for every run it replaces: none of them was added after
\* the history was loaded for the summary (the two loads of session.compact
\* are apart by a model call; the session lock keeps run.start out).
CompactionCovers ==
  \A s \in Session : \A i \in DOMAIN file[s] :
    file[s][i].type = "compaction" =>
      \A j \in 1 .. i - 1 :
        file[s][j].type = "messages" => file[s][j].run \in file[s][i].covers

\* A fork of a loadable session loads, and has its runs, compaction, grants
\* and MCP inventory, no name, and no turn context (docs/contracts.md: forked
\* sessions do not inherit parent session_turn_context entries).
ForkFaithful ==
  \A s \in Session :
    Loads(file[s]) =>
      LET fork   == ForkOf(file[s], LastRun(file[s]))
          before == Load(file[s])
          after  == Load(fork)
      IN  /\ Loads(fork)
          /\ after.runs = before.runs /\ after.compacted = before.compacted
          /\ \A t \in Trailer \ {"turn"} : after.latest[t] = before.latest[t]
          /\ after.latest["turn"] = {} /\ after.name = {}

\* docs/contracts.md: session_info.name is unique within the workspace.  Two
\* sessions that can be listed never answer to the same name, so
\* resolve_session_reference is never ambiguous, if the launcher named neither:
\* its check and the backend's are apart from the writes (naming by one process
\* is unique even when it dies between the log and the metadata).
NamesUnique ==
  \A s, t \in Session \ launched :
    /\ s # t /\ Readable(s) /\ Readable(t)
    /\ meta[s].name # {}
    => meta[s].name # meta[t].name

\* The store can be used: every session that can be loaded should load, and is
\* found under its own name.
StoreUsable == LoadsUnlessHurt /\ NamesUnique
=============================================================================
