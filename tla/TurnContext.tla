---------------------------- MODULE TurnContext -----------------------------
(***************************************************************************)
(* What the model is told about its surroundings, run after run.           *)
(*                                                                         *)
(* A finished run persists the settings it ran under.  The next one        *)
(* compares them with its own: when they are the same, the persisted text  *)
(* is the context again; when they differ, the persisted text comes first  *)
(* and an update after the history says what changed; without a persisted  *)
(* entry the current settings are told in full.  A compaction invalidates  *)
(* the entry, a fork does not inherit it.                                  *)
(***************************************************************************)
EXTENDS Naturals

CONSTANTS
  Plain,     \* settings with one value each: model, date, timezone, ...
  Posture,   \* the parts of the execution capabilities
  Value,     \* values a setting may have
  Tool,      \* configured MCP tools, all deferred
  MaxChanges \* bound: changes between runs

VARIABLES
  now,      \* [Plain \cup Posture -> Value]: the current settings
  servers,  \* the MCP tools the current configuration mounts
  active,   \* those a search has enabled in this run
  entry,    \* the persisted turn context, or NoEntry
  history,  \* whether an entry was ever persisted
  status,   \* how the run's baseline was classified: "missing", "reused", "cleared"
  prefix,   \* what the context before the history says
  update,   \* [Plain \cup Posture -> value or Unsaid]: what the update says after it
  noted,    \* whether the update says that the MCP tools changed: {} or {"mcp"}
  phase,    \* "idle", "running"
  changes
vars == <<now, servers, active, entry, history, status, prefix, update, noted, phase, changes>>
told == <<status, prefix, update, noted>>

Setting == Plain \cup Posture
Unsaid == "unsaid"
Inventory == [tools |-> servers, active |-> active]
Framing == [settings |-> now, mcp |-> Inventory]
NoEntry == [settings |-> [s \in Setting |-> Unsaid], mcp |-> [tools |-> {}, active |-> {}]]
Silent == [s \in Setting |-> Unsaid]

-----------------------------------------------------------------------------
\* The classification of the persisted entry against the current framing.
Baseline == IF entry = NoEntry THEN "missing"
            ELSE IF entry = Framing THEN "reused" ELSE "cleared"

\* Slip: the parts of the execution posture are not compared one by one.
UpdateTextPlain ==
  [s \in Setting |-> IF s \in Plain /\ entry.settings[s] # now[s] THEN now[s] ELSE Unsaid]

\* One line for every setting that differs, with its new value.
UpdateText ==
  [s \in Setting |-> IF entry.settings[s] # now[s] THEN now[s] ELSE Unsaid]

\* Lines that only say that something changed.
Notes == (IF entry.mcp # Inventory THEN {"mcp"} ELSE {})

Plan ==
  /\ status' = Baseline
  /\ prefix' = IF Baseline = "missing" THEN Framing ELSE entry
  /\ update' = IF Baseline = "cleared" THEN UpdateText ELSE Silent
  /\ noted' = IF Baseline = "cleared" THEN Notes ELSE {}

\* A run starts with a fresh inventory: nothing is enabled yet.
RunStart ==
  /\ phase = "idle" /\ phase' = "running" /\ Plan
  /\ UNCHANGED <<now, servers, active, entry, history, changes>>

\* mcp_search enables what it returns for this run.
Search(found) ==
  /\ phase = "running" /\ found \in servers \ active /\ active' = active \cup {found}
  /\ UNCHANGED <<now, servers, entry, history, told, phase, changes>>


\* A finished run persists its framing, with the inventory as it is now; the
\* update itself is not persisted.
RunEnds ==
  /\ phase = "running" /\ phase' = "idle" /\ active' = {}
  /\ entry' = Framing /\ history' = TRUE
  /\ UNCHANGED <<now, servers, told, changes>>

\* Between two runs: a setting, the configuration, the session.
Change(s, v) ==
  /\ phase = "idle" /\ changes < MaxChanges /\ changes' = changes + 1
  /\ now' = [now EXCEPT ![s] = v]
  /\ UNCHANGED <<servers, active, entry, history, told, phase>>

ChangeServers(tools) ==
  /\ phase = "idle" /\ changes < MaxChanges /\ changes' = changes + 1
  /\ servers' = tools
  /\ UNCHANGED <<now, active, entry, history, told, phase>>

Compact ==
  /\ phase = "idle" /\ history /\ entry' = NoEntry
  /\ UNCHANGED <<now, servers, active, history, told, phase, changes>>

-----------------------------------------------------------------------------
Init ==
  /\ now \in [Setting -> Value] /\ servers \in SUBSET Tool /\ active = {}
  /\ entry = NoEntry /\ history = FALSE
  /\ status = "missing" /\ prefix = NoEntry /\ update = Silent /\ noted = {}
  /\ phase = "idle" /\ changes = 0

Next ==
  \/ RunStart \/ RunEnds \/ Compact
  \/ \E t \in Tool : Search(t)
  \/ \E s \in Setting, v \in Value : Change(s, v)
  \/ \E tools \in SUBSET Tool : ChangeServers(tools)

Spec == Init /\ [][Next]_vars

-----------------------------------------------------------------------------
\* What the model takes a setting to be: the last thing it was told.
Believed(s) == IF update[s] # Unsaid THEN update[s] ELSE prefix.settings[s]

(* In every run the model has been told the current value of every         *)
(* setting; it has the current MCP tools before it or has been told that   *)
(* they changed; and no update was announced that says nothing             *)
(* (build_runtime_context_update_text would raise before the run).         *)
ModelIsToldCurrent ==
  phase = "running" =>
    /\ \A s \in Setting : Believed(s) = now[s]
    /\ prefix.mcp = [Inventory EXCEPT !.active = {}] \/ "mcp" \in noted
    /\ status = "cleared" => update # Silent \/ noted # {}

(* docs/mcp.md:163-164 "Runtime context includes a bounded summary of the  *)
(* current MCP surface".  Refuted: after a change, or only because the     *)
(* last run enabled a tool, the model reads the surface of the last run    *)
(* and a line that it changed, but not the current one.                    *)
McpSurfaceIsTold ==
  phase = "running" => prefix.mcp = [Inventory EXCEPT !.active = {}]
=============================================================================
