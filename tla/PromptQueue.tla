---------------------------- MODULE PromptQueue ----------------------------
(***************************************************************************)
(* The two prompt queues a session keeps while a run is active             *)
(* (src/just_another_coding_agent/rpc/state.py): steer prompts, waiting    *)
(* for the next tool boundary of the active run, and follow-up batches,    *)
(* waiting for the run to end.  This module holds their values and the     *)
(* pure part of each queue operation; RunControl holds the state.          *)
(***************************************************************************)
EXTENDS Integers, SequencesExt

CONSTANT Prompt   \* the prompts users may queue, each with its own identity

\* "next": promoted or downgraded steering.  "later": ordinary follow-ups.
Kind == {"next", "later"}

Batch == [kind : Kind, prompts : Seq(Prompt)]

\* Prompts of a sequence of batches, as a set.
PromptsOf(batches) == UNION {ToSet(batches[i].prompts) : i \in DOMAIN batches}

IsLater(batch) == batch.kind = "later"
IsNext(batch)  == batch.kind = "next"

\* The prompts of the batches, one after the other.
Concat(batches) == FlattenSeq([i \in DOMAIN batches |-> batches[i].prompts])

\* Slip: downgraded prompts go behind the later ones.
PrependBehind(batches, prompts) ==
  IF prompts = <<>> THEN batches
  ELSE Append(batches, [kind |-> "next", prompts |-> prompts])

\* _prepend_follow_ups_locked: the drained steers become one batch in front;
\* its callers skip it when nothing was drained.
Prepend(batches, prompts) ==
  IF prompts = <<>> THEN batches
  ELSE <<[kind |-> "next", prompts |-> prompts]>> \o batches

\* _append_follow_up_locked, for run.enqueue mode "later": joins the last
\* batch when that one is of the same kind.
AppendLater(batches, prompt) ==
  LET n == Len(batches)
  IN  IF n > 0 /\ IsLater(batches[n])
      THEN [batches EXCEPT ![n].prompts = Append(@, prompt)]
      ELSE Append(batches, [kind |-> "later", prompts |-> <<prompt>>])

\* _build_queue_state_event_locked: what session_queue_state tells clients.
\* Follow-up batches of kind "next" are in neither list.
QueueState(steers, batches) ==
  [next_prompts  |-> steers,
   later_prompts |-> Concat(SelectSeq(batches, IsLater))]

EmptyQueueState == [next_prompts |-> <<>>, later_prompts |-> <<>>]
=============================================================================
