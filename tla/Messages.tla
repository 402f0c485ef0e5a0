------------------------------ MODULE Messages ------------------------------
(***************************************************************************)
(* Model messages and the repairs of session/replacement_history.py.       *)
(*                                                                         *)
(* A message is a request or a response with a set of parts; a part has a  *)
(* kind and what it is "of": the text of a user, summary or text part, the *)
(* id of a tool call or of its return.  Thinking parts and retry parts are left    *)
(* out: the first only ever vanish, the second do not reach the messages   *)
(* of a run (run.py restarts before they are captured).                    *)
(***************************************************************************)
EXTENDS Integers, Sequences, FiniteSets

Request(parts)  == [from |-> "request", parts |-> parts]
Response(parts) == [from |-> "response", parts |-> parts]

User(text) == [kind |-> "user", of |-> text]
Summary(text) == [kind |-> "summary", of |-> text]
Text(text) == [kind |-> "text", of |-> text]
CallOf(c)  == [kind |-> "call", of |-> c]
ReturnOf(c) == [kind |-> "return", of |-> c]

PartsOf(msgs) == UNION {msgs[i].parts : i \in DOMAIN msgs}
Named(parts, kind) == {p.of : p \in {q \in parts : q.kind = kind}}

\* Calls without a return, and returns without a call.
Unpaired(msgs) ==
  LET calls == Named(PartsOf(msgs), "call")
      returns == Named(PartsOf(msgs), "return")
  IN  (calls \ returns) \cup (returns \ calls)

\* strip_unpaired_tool_parts: unpaired parts go, and messages left empty.
StripUnpaired(msgs) ==
  LET orphan(p) == p.kind \in {"call", "return"} /\ p.of \in Unpaired(msgs)
      stripped == [i \in DOMAIN msgs |->
                     [msgs[i] EXCEPT !.parts = {p \in @ : ~orphan(p)}]]
  IN  SelectSeq(stripped, LAMBDA m : m.parts # {})

\* sanitize_failed_run_messages; without retry parts there is no failed
\* correction tail to strip.
Sanitized(msgs) == StripUnpaired(msgs)

-----------------------------------------------------------------------------
(* In-run truncation.                                                      *)

\* How often a user part with this text occurs in the first n messages.
Occurrences(msgs, n, text) ==
  Cardinality({i \in 1 .. n : User(text) \in msgs[i].parts})

\* _message_is_synthetic_user_prompt: the first occurrences of a text, as many
\* as the run loop itself wrote, are not the user's.
IsSynthetic(msgs, i, counts) ==
  \E text \in DOMAIN counts :
    User(text) \in msgs[i].parts /\ Occurrences(msgs, i, text) <= counts[text]

\* The messages every truncation keeps: what the user said, and summaries.
Anchors(msgs, counts) ==
  {i \in DOMAIN msgs : /\ Named(msgs[i].parts, "user") \cup Named(msgs[i].parts, "summary") # {}
                       /\ ~IsSynthetic(msgs, i, counts)}

\* The token budget decides how many of the other messages stay, newest first
\* and at least one.  Truncation runs when all of them are over the budget.
TailSizes(msgs, counts) ==
  1 .. (LET others == Len(msgs) - Cardinality(Anchors(msgs, counts))
        IN  IF others > 1 THEN others - 1 ELSE 1)

\* Slip: the budget holds for the user's messages too.
TruncatedHistoryByAge(msgs, counts, tail) ==
  StripUnpaired(SubSeq(msgs, IF Len(msgs) > tail THEN Len(msgs) - tail + 1 ELSE 1, Len(msgs)))

\* build_in_run_truncated_history
TruncatedHistory(msgs, counts, tail) ==
  LET anchors == Anchors(msgs, counts)
      newer(i) == Cardinality({j \in i .. Len(msgs) : j \notin anchors})
      kept == anchors \cup {i \in DOMAIN msgs : newer(i) <= tail}
  IN  StripUnpaired(SelectSeq(
        [i \in DOMAIN msgs |-> IF i \in kept THEN msgs[i] ELSE Request({})],
        LAMBDA m : m.parts # {}))

\* reconcile_synthetic_prompt_counts: a count never exceeds what is left.
Reconciled(counts, msgs) ==
  [text \in DOMAIN counts |->
     LET live == Occurrences(msgs, Len(msgs), text)
     IN  IF counts[text] < live THEN counts[text] ELSE live]
=============================================================================
