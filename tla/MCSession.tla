------------------------------ MODULE MCSession ------------------------------
(***************************************************************************)
(* A run and its session file, each explored alone: the events of a run,   *)
(* from the framework to the client and the file (RunStream), its          *)
(* messages, from one model request to the next (HistoryCarry), and the    *)
(* store that keeps them (SessionLog), once as one session with several    *)
(* runs and once as two between which the launcher forks.  A behaviour     *)
(* moves one of them and leaves the others as they began.                  *)
(***************************************************************************)
EXTENDS Naturals, Sequences, FiniteSets, TLC

CONSTANTS
  Call, StreamCorrections, Retries, MaxUpdates,
  Asked, MaxCorrections, MaxCompactions, CompactFailures,
  Name,
  OneSession, OneRun, OneLines,    \* the store with several runs
  TwoSession, TwoRun, TwoLines     \* the store with a fork

VARIABLES
  part,
  stage, saw, corrections, recoveries, unseen, idle, running, queue, sent, used,
  pending, completed, buffered, open, log, tail, filed, dropped,
  base, step, history, prompt, carried, captured, next, unresolved, streamed,
  corrected, recovered, failures, compactions, synthetic, request, stored, ended,
  said, given, cut, skipped,
  file, bare, synced, meta, dirty, todo, held, writing, source, forking,
  done, hurt, launched, faults

events == <<stage, saw, corrections, recoveries, unseen, idle, running, queue, sent, used,
            pending, completed, buffered, open, log, tail, filed, dropped>>
messages == <<base, step, history, prompt, carried, captured, next, unresolved, streamed,
              corrected, recovered, failures, compactions, synthetic, request, stored,
              ended, said, given, cut, skipped>>
store == <<file, bare, synced, meta, dirty, todo, held, writing, source, forking,
           done, hurt, launched, faults>>
vars == <<part, events, messages, store>>

M == INSTANCE Messages

\* A run without history, with its context only, and on a compacted session.
Context == <<M!Response({M!Text("context")})>>
Bases ==
  {<<>>,
   Context,
   Context \o <<M!Request({M!User("old task")}), M!Response({M!Summary("old summary")}),
                M!Request({M!User("newer task")}), M!Response({M!Text("newer answer")})>>}

S == INSTANCE RunStream WITH
  CorrectionRetries <- StreamCorrections, RecoveryRetries <- Retries
H == INSTANCE HistoryCarry WITH
  Call <- Asked, Steers <- {"steer"}, CorrectionRetries <- MaxCorrections,
  RecoveryRetries <- Retries, stage <- step, open <- unresolved,
  corrections <- corrected, recoveries <- recovered, sent <- request

\* StoreProofs is SessionLog, with what is proved of it.
One == INSTANCE StoreProofs WITH
  Session <- OneSession, Run <- OneRun, ForkNames <- {}, Extras <- {"turn", "grants"},
  MaxEvents <- 1, MaxLines <- OneLines, MaxFaults <- 1
Two == INSTANCE StoreProofs WITH
  Session <- TwoSession, Run <- TwoRun, ForkNames <- Name, Extras <- {"turn"},
  MaxEvents <- 1, MaxLines <- TwoLines, MaxFaults <- 1

ASSUME BoundsHold ==
  /\ S!RetriesAssumption /\ H!CarryAssumption
  /\ One!BoundsAssumption /\ Two!BoundsAssumption

Init ==
  /\ S!Init /\ H!Init
  /\ \/ part = "messages" /\ One!Init
     \/ part \in {"events", "one"} /\ base = <<>> /\ One!Init
     \/ part = "two" /\ base = <<>> /\ Two!Init

Next ==
  \/ part = "events" /\ S!Next /\ UNCHANGED <<part, messages, store>>
  \/ part = "messages" /\ H!Next /\ UNCHANGED <<part, events, store>>
  \/ part = "one" /\ One!Next /\ UNCHANGED <<part, events, messages>>
  \/ part = "two" /\ Two!Next /\ UNCHANGED <<part, events, messages>>

Spec == Init /\ [][Next]_vars

\* Calls, runs and sessions have no identity beyond being different.  (The parts
\* may share their values: then one permutation serves them all.)
Symmetry == Permutations(Call) \cup Permutations(Asked \cup OneRun \cup TwoSession)

\* Each question is asked of the part, and the store, it is about.
\* What the client sees of a run is well formed, however it ends (run.py).
ShownSound == part = "events" => S!ShownSound
\* A complete run on disk obeys the contract; an incomplete one has a named cause.
FileSound == part = "events" => S!FileSound
\* Cancellation leaves a complete run (session.py, the CancelledError branch).
CancelKeepsFile == S!CancelKeepsFile
\* Each model request holds what the user said, and paired calls (run.py).
RequestsWhole == part = "messages" => H!RequestsWhole
\* What is stored of the messages can be replayed and covers the run (run.py).
StoredWhole == part = "messages" => H!StoredWhole
\* A finalized run stays on disk (session/jsonl.py).
Durable == part = "one" => One!Durable
\* A compaction stands for every run it replaces (compaction/trigger.py).
CompactionCovers == part = "one" => One!CompactionCovers
\* A fork has what its source had (session/jsonl.py).
ForkFaithful == part = "one" => One!ForkFaithful
\* Sessions that nothing hurt load, and names are unique (session/jsonl.py).
StoreUsable == part = "two" => Two!StoreUsable

\* docs/contracts.md:1151: a persisted run has its terminal outcome.
PersistedRunCloses == S!PersistedRunCloses
\* docs/contracts.md:1128: each request has the run's prompt.
PromptReachesModel == H!PromptReachesModel
=============================================================================
