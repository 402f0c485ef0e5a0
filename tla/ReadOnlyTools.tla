--------------------------- MODULE ReadOnlyTools ----------------------------
(***************************************************************************)
(* What the read-only worker does for one call.                            *)
(*                                                                         *)
(* read returns a window of a file, cut to the caller's limit, a number of *)
(* lines and a number of bytes, with the offset to continue from; a model  *)
(* that follows the hint reads the file in pages.                          *)
(*                                                                         *)
(* grep starts ripgrep with both outputs on pipes.  It reads the matches   *)
(* until the limit, then all of stderr, and then waits for the process; a  *)
(* pipe holds a bounded amount, and a full one stops ripgrep.              *)
(***************************************************************************)
EXTENDS Naturals, Integers, Sequences, FiniteSets, SequencesExt

CONSTANTS
  MaxLines,   \* lines of the file
  Widths,     \* bytes a line may have
  LineCap,    \* lines of a window (READ_MAX_LINES)
  ByteCap,    \* bytes of a window (READ_MAX_BYTES)
  MaxOutput,  \* what ripgrep writes: lines, on either pipe
  PipeCap,    \* lines a pipe holds
  Limit       \* matches a grep may return

VARIABLES
  file,    \* widths of the file's lines
  offset,  \* where the model reads next, or None when it was given no hint
  seen,    \* numbers of the lines the model has been given, in order
  script,  \* what ripgrep still has to write
  wrote,   \* the matches it has written so far
  out,     \* its stdout pipe
  err,     \* its stderr pipe
  rg,      \* "running", "killed", "exited", "failed": its process
  go,      \* the worker's goroutine: "stdout", "stderr", "wait", "done"
  grep     \* [matches, limitHit, early, broken, status]: its result

reading == <<file, offset, seen>>
grepping == <<script, wrote, out, err, rg, go, grep>>
vars == <<reading, grepping>>

None == 0
Min2(a, b) == IF a < b THEN a ELSE b

-----------------------------------------------------------------------------
\* read

\* The bytes of the first i lines, for each i.
Bytes(lines) ==
  LET sum[i \in 0..Len(lines)] == IF i = 0 THEN 0 ELSE sum[i - 1] + lines[i]
  IN sum

\* The longest prefix of the lines within both caps.
Window(lines) ==
  CHOOSE n \in 0..Len(lines) :
    /\ n <= LineCap /\ Bytes(lines)[n] <= ByteCap
    /\ n = Len(lines) \/ n = LineCap \/ Bytes(lines)[n + 1] > ByteCap

\* Slip: the hint counts from the window's last line.
PageEndAgain(limit) ==
  LET rest == SubSeq(file, offset, Len(file))
      selected == IF limit # None THEN SubSeq(rest, 1, Min2(limit, Len(rest))) ELSE rest
      count == Window(selected)
      more == count < Len(selected) \/ (limit # None /\ offset - 1 + count < Len(file))
  IN [count |-> count, next |-> IF more THEN offset + count - 1 ELSE None]

\* One call: the lines from the offset on, cut to the caller's limit and to
\* the window, and the offset to go on from when there is more.
PageEnd(limit) ==
  LET rest == SubSeq(file, offset, Len(file))
      selected == IF limit # None THEN SubSeq(rest, 1, Min2(limit, Len(rest))) ELSE rest
      count == Window(selected)
      more == count < Len(selected) \/ (limit # None /\ offset - 1 + count < Len(file))
  IN [count |-> count, next |-> IF more THEN offset + count ELSE None]

\* A first line over the byte cap is reported without a window and without
\* a hint: the model goes on behind it.
Read(limit) ==
  LET page == PageEnd(limit) IN
  /\ offset \in 1..Len(file)
  /\ seen' = seen \o [i \in 1..page.count |-> offset + i - 1]
  /\ offset' = IF page.count = 0 THEN (IF offset < Len(file) THEN offset + 1 ELSE None)
               ELSE page.next
  /\ UNCHANGED <<file, grepping>>

(* Following the hints, the model gets every line once, in order, except   *)
(* those that alone are over the byte cap, and it is told when there is no *)
(* more.                                                                   *)
PagesCoverFile ==
  LET through == IF offset = None THEN Len(file) ELSE offset - 1
  IN /\ ToSet(seen) = {i \in 1..through : file[i] <= ByteCap}
     /\ \A i, j \in 1..Len(seen) : i < j => seen[i] < seen[j]

-----------------------------------------------------------------------------
\* grep

Match == "match"
Long == "long"      \* a match whose line is over the scanner's buffer
Complaint == "err"  \* a line on stderr: a file that cannot be read
More == script # <<>> /\ rg = "running"

RgWrites ==
  /\ More
  /\ LET line == Head(script) IN
     /\ IF line = Complaint
        THEN Len(err) < PipeCap /\ err' = Append(err, line) /\ UNCHANGED <<out, wrote>>
        ELSE /\ Len(out) < PipeCap /\ out' = Append(out, line)
             /\ wrote' = wrote + 1 /\ UNCHANGED err
     /\ script' = Tail(script)
  /\ UNCHANGED <<rg, go, grep, reading>>

\* An error on the way, whatever was matched, is the exit code 2.
RgExits ==
  /\ rg = "running" /\ script = <<>> /\ rg' \in {"exited", "failed"}
  /\ UNCHANGED <<script, wrote, out, err, go, grep, reading>>

Stop == /\ rg' = IF rg = "running" THEN "killed" ELSE rg
        /\ go' = "stderr"

\* One line of stdout.  At the limit the process is killed; a line that is
\* too long ends the scan without killing it.
Scan ==
  /\ go = "stdout" /\ out # <<>>
  /\ \/ /\ Head(out) = Match /\ grep.matches < Limit
        /\ grep' = [grep EXCEPT !.matches = @ + 1] /\ out' = Tail(out)
        /\ UNCHANGED <<rg, go>>
     \/ /\ Head(out) = Match /\ grep.matches >= Limit
        /\ grep' = [grep EXCEPT !.limitHit = TRUE, !.early = TRUE] /\ out' = Tail(out)
        /\ Stop
     \/ /\ Head(out) = Long
        /\ grep' = [grep EXCEPT !.broken = TRUE] /\ out' = Tail(out)
        /\ go' = "stderr" /\ UNCHANGED rg
  /\ UNCHANGED <<script, wrote, err, reading>>

ScanEnds ==
  /\ go = "stdout" /\ out = <<>> /\ rg # "running" /\ go' = "stderr"
  /\ UNCHANGED <<script, wrote, out, err, rg, grep, reading>>

\* stderr is read to its end, which only the end of the process brings.
DrainStderr ==
  /\ go = "stderr" /\ err # <<>> /\ err' = Tail(err)
  /\ UNCHANGED <<script, wrote, out, rg, go, grep, reading>>

GrepEnds ==
  /\ go = "stderr" /\ err = <<>> /\ rg # "running"
  /\ go' = "done"
  /\ grep' = [grep EXCEPT !.status =
       IF grep.broken THEN "command_error"
       ELSE IF grep.early \/ rg = "exited" THEN "ok" ELSE "command_error"]
  /\ UNCHANGED <<script, wrote, out, err, rg, reading>>

(* A grep that succeeds has returned every match, or says that it has not: *)
(* the limit flag is set exactly when ripgrep had more.                    *)
LimitIsHonest ==
  go = "done" /\ grep.status = "ok" =>
    /\ ~grep.limitHit => grep.matches = wrote /\ script = <<>>
    /\ grep.limitHit => grep.matches = Limit /\ wrote > Limit

(* What a tool says of its result is true: the pages and the limit flags   *)
(* are what the model goes on from.                                        *)
ResultsAreHonest == PagesCoverFile /\ LimitIsHonest

-----------------------------------------------------------------------------
NoGrep == [matches |-> 0, limitHit |-> FALSE, early |-> FALSE, broken |-> FALSE,
           status |-> "none"]
GrepIdle == /\ script = <<>> /\ wrote = 0 /\ out = <<>> /\ err = <<>>
            /\ rg = "exited" /\ go = "done" /\ grep = NoGrep
ReadIdle == file = <<>> /\ offset = None /\ seen = <<>>

\* A file is to be read.
Init ==
  /\ file \in UNION {[1..n -> Widths] : n \in 1..MaxLines} /\ offset = 1 /\ seen = <<>>
  /\ GrepIdle

\* ripgrep has been started.
InitGrep ==
  /\ ReadIdle
  /\ script \in UNION {[1..n -> {Match, Long, Complaint}] : n \in 0..MaxOutput}
  /\ wrote = 0 /\ out = <<>> /\ err = <<>> /\ rg = "running" /\ go = "stdout"
  /\ grep = NoGrep

GrepStep == RgWrites \/ RgExits \/ Scan \/ ScanEnds \/ DrainStderr \/ GrepEnds

Next == (\E limit \in 0..MaxLines : Read(limit)) \/ GrepStep

Fairness == WF_vars(GrepStep)

Spec == (Init \/ InitGrep) /\ [][Next]_vars /\ Fairness

-----------------------------------------------------------------------------
(* docs/read-only-worker.md:62 "each operation request must end in exactly *)
(* one terminal response": while a grep has not ended, ripgrep or the      *)
(* worker can go on.  Refuted: ripgrep fills the pipe nobody reads, and    *)
(* the worker waits for it to end.                                         *)
GrepAnswers == go # "done" => ENABLED GrepStep
=============================================================================
