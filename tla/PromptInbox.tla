---------------------------- MODULE PromptInbox ----------------------------
(***************************************************************************)
(* What the prompt queue of a session promises its users, and nothing of   *)
(* how: a prompt the backend accepted is delivered at most once and never  *)
(* discarded; "later" prompts are delivered together, in the order they    *)
(* were accepted, and never while a "next" prompt is still waiting.        *)
(* Nothing is promised about the order of two "next" prompts.              *)
(***************************************************************************)
EXTENDS Integers, SequencesExt

CONSTANT Prompt

VARIABLES
  nextWaiting,    \* the accepted "next" prompts not delivered yet, a set
  laterWaiting,   \* the accepted "later" prompts not delivered yet, in order
  delivered       \* the sequence of delivered groups of prompts

inboxVars == <<nextWaiting, laterWaiting, delivered>>

Delivered == UNION {ToSet(delivered[i]) : i \in DOMAIN delivered}

Unknown == Prompt \ (nextWaiting \cup ToSet(laterWaiting) \cup Delivered)

Init ==
  /\ nextWaiting = {}
  /\ laterWaiting = <<>>
  /\ delivered = <<>>

AcceptNext(p) ==
  /\ p \in Unknown
  /\ nextWaiting' = nextWaiting \cup {p}
  /\ UNCHANGED <<laterWaiting, delivered>>

AcceptLater(p) ==
  /\ p \in Unknown
  /\ laterWaiting' = Append(laterWaiting, p)
  /\ UNCHANGED <<nextWaiting, delivered>>

DeliverNext(group) ==
  /\ group # {}
  /\ nextWaiting' = nextWaiting \ group
  /\ \E order \in SetToSeqs(group) : delivered' = Append(delivered, order)
  /\ UNCHANGED laterWaiting

DeliverLater ==
  /\ laterWaiting # <<>>
  /\ nextWaiting = {}
  /\ delivered' = Append(delivered, laterWaiting)
  /\ laterWaiting' = <<>>
  /\ UNCHANGED nextWaiting

Next ==
  \/ \E p \in Prompt : AcceptNext(p) \/ AcceptLater(p)
  \/ \E group \in SUBSET nextWaiting : DeliverNext(group)
  \/ DeliverLater

Spec == Init /\ [][Next]_inboxVars
=============================================================================
