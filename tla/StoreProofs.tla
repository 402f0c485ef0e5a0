----------------------------- MODULE StoreProofs -----------------------------
(***************************************************************************)
(* Proofs about the session store, SessionLog, for any sessions, runs,     *)
(* names and bounds: what finalize returned from stays, compactions cover  *)
(* what they claim, forks are faithful, names are unique, and a session    *)
(* that nothing hurt loads.                                                *)
(*                                                                         *)
(* The walk of load_session is a recursive function; what it computes is   *)
(* followed line by line, by counting up to the length of a file           *)
(* (CountingUp) or to the first line it refuses.  The files are related to *)
(* what the two processes still have to write: most invariants speak of    *)
(* the file as it will be when the pending write is done (Planned), so     *)
(* that the step that decides on a write is where the work lies, and a     *)
(* write that completes changes nothing.                                   *)
(***************************************************************************)
EXTENDS SessionLog, SequenceTheorems, WellFoundedInduction, TLAPS

-----------------------------------------------------------------------------
(* Counting up to a number.                                                *)

\* A set of numbers that is not empty has a least one.
LEMMA Least ==
  ASSUME NEW T, T \subseteq Nat, T # {}
  PROVE  \E n \in T : \A m \in T : n <= m
<1> DEFINE R == OpToRel(<,Nat)
<1>1. IsWellFoundedOn(R, Nat)
  BY NatLessThanWellFounded
<1>2. \A x \in Nat, y \in Nat : y < x => <<y,x>> \in R
  BY DEF OpToRel
<1> HIDE DEF R
<1>3. PICK x \in T : \A y \in T : ~ (<<y, x>> \in R)
  BY <1>1, WFMin
<1>4. ASSUME NEW y \in T PROVE x <= y
  <2>1. x \in Nat /\ y \in Nat
    OBVIOUS
  <2>2. ~(y < x)
    BY <1>2, <1>3, <2>1
  <2> QED BY <2>1, <2>2
<1> QED BY <1>4

\* A set that has 0, and with each number below n the next, has all up to n.
LEMMA CountingUp ==
  ASSUME NEW n \in Nat, NEW T, 0 \in T, \A i \in 0 .. n - 1 : i \in T => i + 1 \in T
  PROVE  \A i \in 0 .. n : i \in T
<1> DEFINE missing == {i \in 0 .. n : i \notin T}
<1> SUFFICES ASSUME missing # {} PROVE FALSE
  OBVIOUS
<1>1. PICK m \in missing : \A i \in missing : m <= i
  <2>1. missing \subseteq Nat
    OBVIOUS
  <2> HIDE DEF missing
  <2> QED BY <2>1, Least
<1>2. m # 0 /\ m \in 0 .. n
  BY <1>1
<1>3. m - 1 \in 0 .. n - 1 /\ m - 1 \notin missing
  BY <1>1, <1>2
<1> QED BY <1>1, <1>2, <1>3

-----------------------------------------------------------------------------
(* The walk of load_session over the lines of a file.                      *)

\* The recursion has a solution, so Walk satisfies it.
LEMMA WalkIs ==
  ASSUME NEW lines, Len(lines) \in Nat
  PROVE  /\ Walk(lines)[0] = Blank
         /\ \A i \in 1 .. Len(lines) : Walk(lines)[i] = Step(Walk(lines)[i - 1], lines[i])
<1> DEFINE D == 0 .. Len(lines)
           Follow(g, n) == g[0] = Blank /\ \A i \in 1 .. n : g[i] = Step(g[i - 1], lines[i])
           T == {n \in D : \E g : Follow(g, n)}
<1>1. 0 \in T
  <2> DEFINE h == [i \in D |-> Blank]
  <2>1. h[0] = Blank
    OBVIOUS
  <2> HIDE DEF h
  <2>2. Follow(h, 0)
    BY <2>1
  <2> QED BY <2>2
<1>2. ASSUME NEW n \in 0 .. Len(lines) - 1, n \in T PROVE n + 1 \in T
  <2>1. PICK g : Follow(g, n)
    BY <1>2
  <2> DEFINE h == [i \in D |-> IF i = n + 1 THEN Step(g[n], lines[n + 1]) ELSE g[i]]
  <2>2. h[0] = Blank
    BY <2>1
  <2>3. \A i \in 1 .. n + 1 : h[i] = Step(h[i - 1], lines[i])
    BY <2>1
  <2> HIDE DEF h
  <2>4. Follow(h, n + 1)
    BY <2>2, <2>3
  <2> QED BY <2>4
<1>3. Len(lines) \in T
  <2> HIDE DEF T
  <2>1. \A i \in 0 .. Len(lines) : i \in T
    BY <1>1, <1>2, CountingUp
  <2> QED BY <2>1
<1>4. PICK g : Follow(g, Len(lines))
  BY <1>3
<1> DEFINE f == [i \in D |-> g[i]]
<1>5. f = [i \in D |-> IF i = 0 THEN Blank ELSE Step(f[i - 1], lines[i])]
  <2>1. \A i \in D : f[i] = IF i = 0 THEN Blank ELSE Step(f[i - 1], lines[i])
    BY <1>4
  <2> QED BY <2>1
<1> DEFINE W == Walk(lines)
<1>6. W = [i \in D |-> IF i = 0 THEN Blank ELSE Step(W[i - 1], lines[i])]
  BY <1>5, Zenon DEF Walk
<1> HIDE DEF W
<1>7. /\ W[0] = Blank
      /\ \A i \in 1 .. Len(lines) : W[i] = Step(W[i - 1], lines[i])
  BY <1>6
<1> QED BY <1>7 DEF W

\* So has what is left of the lines.
LEMMA WithoutIs ==
  ASSUME NEW lines, Len(lines) \in Nat, NEW types
  PROVE  /\ Without(lines, types)[0] = <<>>
         /\ \A i \in 1 .. Len(lines) :
              Without(lines, types)[i] =
                IF lines[i].type \in types THEN Without(lines, types)[i - 1]
                ELSE Append(Without(lines, types)[i - 1], lines[i])
<1> DEFINE D == 0 .. Len(lines)
           More(q, i) == IF lines[i].type \in types THEN q ELSE Append(q, lines[i])
           Follow(g, n) == g[0] = <<>> /\ \A i \in 1 .. n : g[i] = More(g[i - 1], i)
           T == {n \in D : \E g : Follow(g, n)}
<1> HIDE DEF More
<1>1. 0 \in T
  <2> DEFINE h == [i \in D |-> <<>>]
  <2>1. h[0] = <<>>
    OBVIOUS
  <2> HIDE DEF h
  <2>2. Follow(h, 0)
    BY <2>1
  <2> QED BY <2>2
<1>2. ASSUME NEW n \in 0 .. Len(lines) - 1, n \in T PROVE n + 1 \in T
  <2>1. PICK g : Follow(g, n)
    BY <1>2
  <2> DEFINE h == [i \in D |-> IF i = n + 1 THEN More(g[n], n + 1) ELSE g[i]]
  <2>2. h[0] = <<>>
    BY <2>1
  <2>3. \A i \in 1 .. n + 1 : h[i] = More(h[i - 1], i)
    BY <2>1
  <2> HIDE DEF h
  <2>4. Follow(h, n + 1)
    BY <2>2, <2>3
  <2> QED BY <2>4
<1>3. Len(lines) \in T
  <2> HIDE DEF T
  <2>1. \A i \in 0 .. Len(lines) : i \in T
    BY <1>1, <1>2, CountingUp
  <2> QED BY <2>1
<1>4. PICK g : Follow(g, Len(lines))
  BY <1>3
<1> DEFINE f == [i \in D |-> g[i]]
<1>5. f = [i \in D |-> IF i = 0 THEN <<>> ELSE More(f[i - 1], i)]
  <2>1. \A i \in D : f[i] = IF i = 0 THEN <<>> ELSE More(f[i - 1], i)
    BY <1>4
  <2> QED BY <2>1
<1> DEFINE W == Without(lines, types)
<1>6. W = [i \in D |-> IF i = 0 THEN <<>> ELSE More(W[i - 1], i)]
  BY <1>5, Zenon DEF Without, More
<1> HIDE DEF W
<1>7. /\ W[0] = <<>>
      /\ \A i \in 1 .. Len(lines) : W[i] = More(W[i - 1], i)
  BY <1>6
<1> QED BY <1>7 DEF W, More

\* The walk over the first lines depends on them only.
LEMMA WalkSame ==
  ASSUME NEW a \in Seq(Line), NEW b \in Seq(Line), NEW n \in Nat,
         n <= Len(a), n <= Len(b), \A i \in 1 .. n : a[i] = b[i]
  PROVE  Walk(a)[n] = Walk(b)[n]
<1> DEFINE T == {i \in 0 .. n : Walk(a)[i] = Walk(b)[i]}
<1>1. 0 \in T
  BY WalkIs
<1>2. ASSUME NEW i \in 0 .. n - 1, i \in T PROVE i + 1 \in T
  <2>1. i + 1 \in 1 .. Len(a) /\ i + 1 \in 1 .. Len(b) /\ i + 1 \in 0 .. n /\ (i + 1) - 1 = i
    BY <1>2
  <2>2. Walk(a)[i + 1] = Step(Walk(a)[i], a[i + 1]) /\ Walk(b)[i + 1] = Step(Walk(b)[i], b[i + 1])
    BY <2>1, WalkIs
  <2> QED BY <1>2, <2>1, <2>2
<1> HIDE DEF T
<1>3. \A i \in 0 .. n : i \in T
  BY <1>1, <1>2, CountingUp
<1> QED BY <1>3 DEF T

\* One line more is one step more.
LEMMA LoadAppend ==
  ASSUME NEW a \in Seq(Line), NEW e \in Line
  PROVE  Append(a, e) \in Seq(Line) /\ Load(Append(a, e)) = Step(Load(a), e)
<1> DEFINE b == Append(a, e)
<1>1. /\ b \in Seq(Line) /\ Len(b) = Len(a) + 1 /\ Len(a) \in Nat /\ b[Len(a) + 1] = e
      /\ \A i \in 1 .. Len(a) : a[i] = b[i]
  BY AppendProperties
<1> HIDE DEF b
<1>2. Walk(b)[Len(a) + 1] = Step(Walk(b)[Len(a)], b[Len(a) + 1])
  BY <1>1, WalkIs
<1>3. Walk(b)[Len(a)] = Walk(a)[Len(a)]
  BY <1>1, WalkSame
<1> QED BY <1>1, <1>2, <1>3 DEF Load, b

\* An empty file loads as nothing.
LEMMA LoadEmpty == Load(<<>>) = Blank
BY WalkIs DEF Load

-----------------------------------------------------------------------------
(* What one line does to the state of the walk.                            *)

LoadState ==
  [ok : BOOLEAN, lines : Nat, docs : BOOLEAN, fork : BOOLEAN, name : SUBSET Name,
   runs : Seq(Run), current : SUBSET Run, events : Nat, ended : BOOLEAN,
   latest : [Trailer -> SUBSET Run], compacted : Nat]

Plain == {"header", "docs", "garbage", "fork", "info"}
OfRun == {"run", "event", "end", "messages"}

\* The lines, by type.
LEMMA LineTypes ==
  ASSUME NEW e \in Line
  PROVE  /\ e.type \in Plain \cup OfRun \cup Trailer \cup {"compaction"}
         /\ e.type \notin Plain => e.run \in Run
         /\ e.type = "info" => e.name \in Name
         /\ e.type \in {"run", "event", "end", "messages"} \cup Trailer => e = Of(e.type, e.run)
BY DEF Line, Trailer, Plain, OfRun, Of

\* The index of a run that is there.
LEMMA IndexIs ==
  ASSUME NEW runs \in Seq(Run), NEW r \in ToSet(runs)
  PROVE  IndexOf(runs, r) \in 1 .. Len(runs) /\ runs[IndexOf(runs, r)] = r
BY DEF ToSet, IndexOf

\* Taken, field by field.
After1(s, e) ==
  [ok |-> s.ok, lines |-> s.lines + 1,
   docs |-> (e.type = "docs" \/ s.docs), fork |-> (e.type = "fork" \/ s.fork),
   name |-> IF e.type = "info" THEN {e.name} ELSE s.name,
   runs |-> IF e.type = "messages" THEN Append(s.runs, e.run) ELSE s.runs,
   current |-> IF e.type = "run" THEN {e.run} ELSE IF e.type = "messages" THEN {} ELSE s.current,
   events |-> IF e.type = "run" THEN 0 ELSE IF e.type = "event" THEN s.events + 1 ELSE s.events,
   ended |-> IF e.type = "run" THEN FALSE ELSE IF e.type = "end" THEN TRUE ELSE s.ended,
   latest |-> [t \in Trailer |-> IF e.type = t THEN {e.run}
                                 ELSE IF e.type = "compaction" /\ t = "turn" THEN {}
                                 ELSE s.latest[t]],
   compacted |-> IF e.type = "compaction" THEN IndexOf(s.runs, e.run) ELSE s.compacted]

\* What a line that fits leaves, field by field.
LEMMA TakenFields ==
  ASSUME NEW s \in LoadState, NEW e \in Line
  PROVE  Taken(s, e) = After1(s, e)
<1> USE DEF LoadState, After1
<1>0. \A t \in Trailer : t \in {"inventory", "turn", "grants"}
  BY DEF Trailer
<1>1. CASE e.type \in {"header", "garbage"}
  BY <1>1 DEF Taken, Trailer
<1>2. CASE e.type = "docs"
  BY <1>2 DEF Taken, Trailer
<1>3. CASE e.type = "fork"
  BY <1>3 DEF Taken, Trailer
<1>4. CASE e.type = "info"
  BY <1>4 DEF Taken, Trailer
<1>5. CASE e.type = "run"
  BY <1>5 DEF Taken, Trailer
<1>6. CASE e.type = "event"
  BY <1>6 DEF Taken, Trailer
<1>7. CASE e.type = "end"
  BY <1>7 DEF Taken, Trailer
<1>8. CASE e.type = "messages"
  BY <1>8 DEF Taken, Trailer
<1>9. CASE e.type \in Trailer
  BY <1>9 DEF Taken, Trailer
<1>10. CASE e.type = "compaction"
  BY <1>10 DEF Taken, Trailer
<1> QED BY <1>1, <1>2, <1>3, <1>4, <1>5, <1>6, <1>7, <1>8, <1>9, <1>10, LineTypes DEF Plain, OfRun

\* It is a state again.
LEMMA TakenIs ==
  ASSUME NEW s \in LoadState, NEW e \in Line, e.type = "compaction" => e.run \in ToSet(s.runs)
  PROVE  After1(s, e) \in LoadState
<1>1. e.type = "compaction" => IndexOf(s.runs, e.run) \in Nat
  BY IndexIs DEF LoadState
<1>2. e.type \in OfRun \cup Trailer => e.run \in Run
  BY LineTypes DEF Plain, OfRun, Trailer
<1>3. e.type = "info" => e.name \in Name
  BY LineTypes
<1> DEFINE a == After1(s, e)
<1>4. a.runs \in Seq(Run)
  BY <1>2, AppendProperties DEF LoadState, After1, OfRun
<1>5. a.latest \in [Trailer -> SUBSET Run]
  BY <1>2 DEF LoadState, After1
<1>6. a.name \in SUBSET Name /\ a.current \in SUBSET Run
  BY <1>2, <1>3 DEF LoadState, After1, OfRun
<1>7. a.ok \in BOOLEAN /\ a.docs \in BOOLEAN /\ a.fork \in BOOLEAN /\ a.ended \in BOOLEAN
  BY DEF LoadState, After1
<1>8. a.lines \in Nat /\ a.events \in Nat /\ a.compacted \in Nat
  BY <1>1 DEF LoadState, After1
<1>9. a = [ok |-> a.ok, lines |-> a.lines, docs |-> a.docs, fork |-> a.fork, name |-> a.name,
           runs |-> a.runs, current |-> a.current, events |-> a.events, ended |-> a.ended,
           latest |-> a.latest, compacted |-> a.compacted]
  BY DEF After1
<1> HIDE DEF a
<1>10. a \in LoadState
  BY <1>4, <1>5, <1>6, <1>7, <1>8, <1>9 DEF LoadState
<1> QED BY <1>10 DEF a

\* A state of the walk stays one; what was refused stays refused.
LEMMA StepIs ==
  ASSUME NEW s \in LoadState, NEW e \in Line
  PROVE  /\ Step(s, e) \in LoadState
         /\ Step(s, e).ok <=> s.ok /\ Follows(s, e)
         /\ Step(s, e).ok => Step(s, e) = After1(s, e)
<1>1. Follows(s, e) /\ e.type = "compaction" => e.run \in ToSet(s.runs)
  BY DEF Follows, Trailer
<1>2. CASE s.ok /\ Follows(s, e)
  <2>1. Step(s, e) = After1(s, e) /\ After1(s, e) \in LoadState
    BY <1>1, <1>2, TakenIs, TakenFields DEF Step
  <2>2. After1(s, e).ok = s.ok
    BY DEF After1
  <2> QED BY <1>2, <2>1, <2>2
<1>3. CASE ~(s.ok /\ Follows(s, e))
  <2>1. Step(s, e) = [s EXCEPT !.ok = FALSE]
    BY <1>3 DEF Step
  <2>2. Step(s, e) = [ok |-> FALSE, lines |-> s.lines, docs |-> s.docs, fork |-> s.fork,
          name |-> s.name, runs |-> s.runs, current |-> s.current, events |-> s.events,
          ended |-> s.ended, latest |-> s.latest, compacted |-> s.compacted]
    BY <2>1 DEF LoadState
  <2> QED BY <1>3, <2>2 DEF LoadState
<1> QED BY <1>2, <1>3

\* The state before the first line.
LEMMA BlankIs ==
  /\ Blank \in LoadState
  /\ Blank.ok /\ Blank.lines = 0 /\ Blank.docs = FALSE /\ Blank.fork = FALSE /\ Blank.name = {}
  /\ Blank.runs = <<>> /\ Blank.current = {} /\ Blank.events = 0 /\ Blank.ended = FALSE
  /\ Blank.compacted = 0 /\ \A t \in Trailer : Blank.latest[t] = {}
BY DEF Blank, LoadState, Trailer

\* The walk stays within its states.
LEMMA WalkType ==
  ASSUME NEW lines \in Seq(Line)
  PROVE  \A i \in 0 .. Len(lines) : Walk(lines)[i] \in LoadState
<1> DEFINE T == {i \in 0 .. Len(lines) : Walk(lines)[i] \in LoadState}
<1>1. 0 \in T
  BY WalkIs, BlankIs
<1>2. ASSUME NEW i \in 0 .. Len(lines) - 1, i \in T PROVE i + 1 \in T
  <2>1. i + 1 \in 1 .. Len(lines) /\ (i + 1) - 1 = i /\ lines[i + 1] \in Line
    OBVIOUS
  <2>2. Walk(lines)[i + 1] = Step(Walk(lines)[i], lines[i + 1])
    BY <2>1, WalkIs
  <2> QED BY <1>2, <2>1, <2>2, StepIs
<1> HIDE DEF T
<1>3. \A i \in 0 .. Len(lines) : i \in T
  BY <1>1, <1>2, CountingUp
<1> QED BY <1>3 DEF T

\* What has been read without a refusal stands for the lines read.
Remembers(a, lines, i) ==
  /\ a.lines = i
  /\ \A k \in 1 .. i : lines[k].type = "messages" => lines[k].run \in ToSet(a.runs)
  /\ \A r \in ToSet(a.runs) \cup a.current : \E k \in 1 .. i : lines[k] = Of("run", r)
  /\ \A j, k \in 1 .. Len(a.runs) : a.runs[j] = a.runs[k] => j = k
  /\ a.current \cap ToSet(a.runs) = {}
  /\ a.compacted <= Len(a.runs)
  /\ \A t \in Trailer : a.latest[t] \subseteq ToSet(a.runs)

\* A run that is appended.
LEMMA ToSetAppend ==
  ASSUME NEW runs \in Seq(Run), NEW r \in Run
  PROVE  /\ ToSet(Append(runs, r)) = ToSet(runs) \cup {r}
         /\ Len(Append(runs, r)) = Len(runs) + 1
         /\ Append(runs, r)[Len(runs) + 1] = r
         /\ \A i \in 1 .. Len(runs) : Append(runs, r)[i] = runs[i]
<1> DEFINE q == Append(runs, r)
<1>1. /\ DOMAIN q = 1 .. Len(runs) + 1 /\ DOMAIN runs = 1 .. Len(runs) /\ Len(runs) \in Nat
      /\ Len(q) = Len(runs) + 1
      /\ q[Len(runs) + 1] = r /\ \A i \in 1 .. Len(runs) : q[i] = runs[i]
  OBVIOUS
<1> HIDE DEF q
<1>2. ToSet(q) = ToSet(runs) \cup {r}
  BY <1>1 DEF ToSet
<1> QED BY <1>1, <1>2 DEF q

\* What the walk knows of the lines so far, after one more.
LEMMA RemembersMore ==
  ASSUME NEW a \in LoadState, NEW lines \in Seq(Line), NEW i \in 0 .. Len(lines) - 1,
         Step(a, lines[i + 1]).ok, Remembers(a, lines, i)
  PROVE  Remembers(Step(a, lines[i + 1]), lines, i + 1)
<1> DEFINE e == lines[i + 1]
           b == Step(a, e)
<1>1. e \in Line /\ i \in Nat /\ \A k \in 1 .. i + 1 : k \in 1 .. i \/ k = i + 1
  OBVIOUS
<1>2. b = After1(a, e) /\ Follows(a, e) /\ b \in LoadState
  BY <1>1, StepIs
<1>3. /\ e.type \in OfRun \cup Trailer \cup {"compaction"} => e.run \in Run
      /\ e.type \in OfRun => e = Of(e.type, e.run)
  BY <1>1, LineTypes DEF Plain, OfRun, Trailer
<1> HIDE DEF e, b
<1>4. CASE e.type = "messages"
  <2>1. /\ a.current = {e.run} /\ b.runs = Append(a.runs, e.run) /\ b.current = {}
        /\ b.lines = a.lines + 1 /\ b.compacted = a.compacted
        /\ \A t \in Trailer : b.latest[t] = a.latest[t]
    BY <1>2, <1>4 DEF Follows, After1, Trailer
  <2>2. /\ ToSet(b.runs) = ToSet(a.runs) \cup {e.run} /\ Len(b.runs) = Len(a.runs) + 1
        /\ b.runs[Len(a.runs) + 1] = e.run /\ \A j \in 1 .. Len(a.runs) : b.runs[j] = a.runs[j]
        /\ Len(a.runs) \in Nat /\ e.run \notin ToSet(a.runs)
    BY <1>3, <1>4, <2>1, ToSetAppend DEF LoadState, Remembers, OfRun
  <2>3. \A j \in 1 .. Len(a.runs) : a.runs[j] \in ToSet(a.runs)
    BY DEF ToSet, LoadState
  <2>4. ASSUME NEW j \in 1 .. Len(b.runs), NEW k \in 1 .. Len(b.runs), b.runs[j] = b.runs[k]
        PROVE  j = k
    <3>1. \A l \in 1 .. Len(b.runs) : l \in 1 .. Len(a.runs) \/ l = Len(a.runs) + 1
      BY <2>2
    <3>2. j \in 1 .. Len(a.runs) => b.runs[j] # e.run
      BY <2>2, <2>3
    <3>3. k \in 1 .. Len(a.runs) => b.runs[k] # e.run
      BY <2>2, <2>3
    <3> QED BY <2>2, <2>4, <3>1, <3>2, <3>3 DEF Remembers
  <2>5. \A k \in 1 .. i + 1 : lines[k].type = "messages" => lines[k].run \in ToSet(b.runs)
    BY <1>1, <2>2 DEF Remembers, e
  <2>6. \A r \in ToSet(b.runs) \cup b.current : \E k \in 1 .. i + 1 : lines[k] = Of("run", r)
    BY <2>1, <2>2 DEF Remembers
  <2>7. b.compacted <= Len(b.runs) /\ \A t \in Trailer : b.latest[t] \subseteq ToSet(b.runs)
    BY <2>1, <2>2 DEF Remembers, LoadState
  <2> QED BY <1>1, <2>1, <2>4, <2>5, <2>6, <2>7 DEF Remembers, b, e
<1>5. CASE e.type # "messages"
  <2>1. /\ b.runs = a.runs /\ b.lines = a.lines + 1
        /\ b.current = IF e.type = "run" THEN {e.run} ELSE a.current
    BY <1>2, <1>5 DEF After1
  <2>2. \A k \in 1 .. i + 1 : lines[k].type = "messages" => lines[k].run \in ToSet(b.runs)
    BY <1>1, <1>5, <2>1 DEF Remembers, e
  <2>3. /\ \A r \in ToSet(b.runs) \cup b.current : \E k \in 1 .. i + 1 : lines[k] = Of("run", r)
        /\ b.current \cap ToSet(b.runs) = {}
    <3>1. CASE e.type = "run"
      <4>1. e.run \notin ToSet(a.runs) /\ lines[i + 1] = Of("run", e.run)
        BY <1>2, <1>3, <3>1 DEF Follows, OfRun, Trailer, e
      <4> QED BY <1>1, <2>1, <3>1, <4>1 DEF Remembers
    <3>2. CASE e.type # "run"
      BY <2>1, <3>2 DEF Remembers
    <3> QED BY <3>1, <3>2
  <2>4. b.compacted <= Len(b.runs)
    <3>1. CASE e.type = "compaction"
      <4>1. e.run \in ToSet(a.runs) /\ b.compacted = IndexOf(a.runs, e.run)
        BY <1>2, <3>1 DEF Follows, After1, Trailer
      <4> QED BY <2>1, <4>1, IndexIs DEF LoadState
    <3>2. CASE e.type # "compaction"
      BY <1>2, <2>1, <3>2 DEF After1, Remembers
    <3> QED BY <3>1, <3>2
  <2>5. ASSUME NEW t \in Trailer PROVE b.latest[t] \subseteq ToSet(b.runs)
    <3>1. CASE e.type = t
      <4>1. a.runs # <<>> /\ Last(a.runs) = e.run /\ b.latest[t] = {e.run}
        BY <1>2, <3>1 DEF Follows, After1, Trailer
      <4>2. e.run \in ToSet(a.runs)
        BY <4>1 DEF Last, ToSet, LoadState
      <4> QED BY <2>1, <4>1, <4>2
    <3>2. CASE e.type # t
      BY <1>2, <2>1, <3>2 DEF After1, Remembers
    <3> QED BY <3>1, <3>2
  <2> QED BY <1>1, <2>1, <2>2, <2>3, <2>4, <2>5 DEF Remembers, b, e
<1> QED BY <1>4, <1>5

\* What was accepted to the end was accepted all along.
LEMMA WalkOk ==
  ASSUME NEW lines \in Seq(Line), NEW n \in 0 .. Len(lines), Walk(lines)[n].ok
  PROVE  \A i \in 0 .. n : Walk(lines)[i].ok
<1> DEFINE T == {i \in 0 .. n : Walk(lines)[n - i].ok}
<1>1. 0 \in T
  OBVIOUS
<1>2. ASSUME NEW i \in 0 .. n - 1, i \in T PROVE i + 1 \in T
  <2>1. n - i \in 1 .. Len(lines) /\ (n - i) - 1 = n - (i + 1) /\ n - (i + 1) \in 0 .. Len(lines)
    OBVIOUS
  <2>2. Walk(lines)[n - i] = Step(Walk(lines)[n - (i + 1)], lines[n - i])
    BY <2>1, WalkIs
  <2>3. Walk(lines)[n - (i + 1)] \in LoadState /\ lines[n - i] \in Line
    BY <2>1, WalkType
  <2> QED BY SMTT(40), <1>2, <2>1, <2>2, <2>3, StepIs
<1> HIDE DEF T
<1>3. \A i \in 0 .. n : i \in T
  BY <1>1, <1>2, CountingUp
<1>4. ASSUME NEW i \in 0 .. n PROVE Walk(lines)[i].ok
  <2>1. n - i \in 0 .. n /\ n - (n - i) = i
    OBVIOUS
  <2>2. n - i \in T
    BY <1>3, <2>1
  <2> QED BY <2>1, <2>2 DEF T
<1> QED BY <1>4

\* The state of a walk that got this far is about the lines it read.
LEMMA WalkRemembers ==
  ASSUME NEW lines \in Seq(Line), NEW n \in 0 .. Len(lines), Walk(lines)[n].ok
  PROVE  Remembers(Walk(lines)[n], lines, n)
<1> DEFINE T == {i \in 0 .. n : Remembers(Walk(lines)[i], lines, i)}
<1>1. 0 \in T
  BY WalkIs DEF Blank, Remembers, ToSet
<1>2. ASSUME NEW i \in 0 .. n - 1, i \in T PROVE i + 1 \in T
  <2>1. i + 1 \in 1 .. Len(lines) /\ (i + 1) - 1 = i /\ i \in 0 .. Len(lines) - 1 /\ i + 1 \in 0 .. n
    OBVIOUS
  <2>2. Walk(lines)[i + 1] = Step(Walk(lines)[i], lines[i + 1])
    BY <2>1, WalkIs
  <2>3. Walk(lines)[i] \in LoadState /\ Walk(lines)[i + 1].ok
    BY <2>1, WalkType, WalkOk
  <2> QED BY <1>2, <2>1, <2>2, <2>3, RemembersMore
<1> HIDE DEF T
<1>3. \A i \in 0 .. n : i \in T
  BY <1>1, <1>2, CountingUp
<1> QED BY <1>3 DEF T

-----------------------------------------------------------------------------
(* A fork.                                                                 *)

Dropped == {"header", "fork", "info", "turn"}

\* The fork's walk, beside the parent's.
Alike(a, b) ==
  /\ b.ok /\ b.lines >= 2 /\ b.name = {} /\ b.docs = a.docs
  /\ b.runs = a.runs /\ b.current = a.current /\ b.events = a.events /\ b.ended = a.ended
  /\ b.compacted = a.compacted /\ b.latest["turn"] = {}
  /\ \A t \in Trailer \ {"turn"} : b.latest[t] = a.latest[t]

\* Two walks stay alike over a line that is copied, and over one that is dropped.
LEMMA AlikeStep ==
  ASSUME NEW a \in LoadState, NEW b \in LoadState, NEW e \in Line, Alike(a, b), Step(a, e).ok
  PROVE  IF e.type \in Dropped THEN Alike(Step(a, e), b) ELSE Alike(Step(a, e), Step(b, e))
<1>1. Step(a, e) = After1(a, e) /\ Follows(a, e)
  BY StepIs
<1>2. CASE e.type \in Dropped
  <2>1. Alike(After1(a, e), b)
    BY <1>2 DEF Alike, After1, Dropped, Trailer, LoadState
  <2> QED BY <1>1, <1>2, <2>1
<1>3. CASE e.type \notin Dropped
  <2>1. Follows(b, e)
    <3>1. CASE e.type \in Trailer
      BY <1>1, <1>3, <3>1 DEF Follows, Alike, Dropped, Trailer, LoadState
    <3>2. CASE e.type \notin Trailer
      BY <1>1, <1>3, <3>2 DEF Follows, Alike, Dropped, Trailer, LoadState
    <3> QED BY <3>1, <3>2
  <2>2. Step(b, e).ok /\ Step(b, e) = After1(b, e)
    BY <2>1, StepIs DEF Alike
  <2>3. After1(b, e).ok /\ After1(b, e).lines >= 2
    BY <2>2 DEF After1, Alike, LoadState
  <2>4. Alike(After1(a, e), After1(b, e))
    BY <1>3, <2>3 DEF Alike, After1, Dropped, Trailer
  <2> QED BY <1>1, <1>3, <2>2, <2>4
<1> QED BY <1>2, <1>3

\* What is left of lines are lines of theirs.
LEMMA WithoutType ==
  ASSUME NEW lines \in Seq(Line), NEW types
  PROVE  \A i \in 0 .. Len(lines) : Without(lines, types)[i] \in Seq(Line)
<1> DEFINE W == Without(lines, types)
           T == {i \in 0 .. Len(lines) : W[i] \in Seq(Line)}
<1>1. /\ W[0] = <<>>
      /\ \A i \in 1 .. Len(lines) :
           W[i] = IF lines[i].type \in types THEN W[i - 1] ELSE Append(W[i - 1], lines[i])
  BY WithoutIs
<1> HIDE DEF W
<1>2. 0 \in T
  <2>1. W[0] \in Seq(Line) /\ Len(lines) \in Nat
    BY <1>1
  <2> QED BY <2>1
<1>3. ASSUME NEW i \in 0 .. Len(lines) - 1, i \in T PROVE i + 1 \in T
  <2>1. i + 1 \in 1 .. Len(lines) /\ (i + 1) - 1 = i /\ lines[i + 1] \in Line
    OBVIOUS
  <2>2. W[i + 1] = W[i] \/ W[i + 1] = Append(W[i], lines[i + 1])
    BY <1>1, <2>1
  <2>3. W[i] \in Seq(Line)
    BY <1>3
  <2>4. Append(W[i], lines[i + 1]) \in Seq(Line)
    BY <2>1, <2>3
  <2>5. W[i + 1] \in Seq(Line)
    BY <2>2, <2>3, <2>4, Zenon
  <2>6. i + 1 \in 0 .. Len(lines)
    BY <2>1
  <2> QED BY <2>5, <2>6
<1> HIDE DEF T
<1>4. \A i \in 0 .. Len(lines) : i \in T
  BY <1>2, <1>3, CountingUp
<1> QED BY <1>4 DEF T, W

\* The first two lines of a fork.
Origin(last) == <<Header, [type |-> "fork", parent |-> last]>>

\* The lines a fork begins with.
LEMMA OriginLoads ==
  ASSUME NEW last \in SUBSET Run
  PROVE  Origin(last) \in Seq(Line) /\ Alike(Blank, Load(Origin(last)))
<1> DEFINE f == [type |-> "fork", parent |-> last]
           b == After1(Blank, Header)
<1>1. Header \in Line /\ f \in Line
  BY DEF Header, Line
<1>2. Origin(last) = Append(<<Header>>, f) /\ <<Header>> = Append(<<>>, Header)
  BY DEF Origin
<1> HIDE DEF f
<1>3. /\ Origin(last) \in Seq(Line)
      /\ Load(Origin(last)) = Step(Step(Blank, Header), f)
  <2>1. <<>> \in Seq(Line)
    OBVIOUS
  <2>2. <<Header>> \in Seq(Line) /\ Load(<<Header>>) = Step(Blank, Header)
    BY <1>1, <1>2, <2>1, LoadAppend, LoadEmpty
  <2> QED BY <1>1, <1>2, <2>2, LoadAppend
<1>4. Follows(Blank, Header)
  BY DEF Follows, Blank, Header
<1>5. Step(Blank, Header) = b /\ b \in LoadState /\ b.ok
  BY <1>1, <1>4, StepIs, BlankIs DEF Blank
<1>6. /\ b.lines = 1 /\ b.fork = FALSE /\ b.docs = FALSE /\ b.ended = FALSE /\ b.runs = <<>> /\ b.name = {}
      /\ b.current = {} /\ b.events = 0 /\ b.compacted = 0 /\ \A t \in Trailer : b.latest[t] = {}
  <2>1. \A t \in Trailer : Blank.latest[t] = {}
    BY BlankIs
  <2>2. Header.type \notin Trailer /\ Header.type = "header"
    BY DEF Header, Trailer
  <2>3. \A t \in Trailer : b.latest[t] = {}
    BY <2>1, <2>2 DEF After1
  <2>4. b.lines = 1 /\ b.runs = <<>> /\ b.name = {} /\ b.current = {} /\ b.events = 0 /\ b.compacted = 0
    BY <2>2, BlankIs DEF After1
  <2>5. b.fork = FALSE /\ b.docs = FALSE /\ b.ended = FALSE
    BY <2>2, BlankIs DEF After1
  <2> QED BY <2>3, <2>4, <2>5
<1> HIDE DEF b
<1>7. Follows(b, f)
  BY <1>6 DEF Follows, Trailer, f
<1>8. Step(b, f) = After1(b, f) /\ Step(b, f).ok
  BY <1>1, <1>5, <1>7, StepIs
<1>9. Alike(Blank, After1(b, f))
  <2> DEFINE c == After1(b, f)
  <2>1. f.type = "fork"
    BY DEF f
  <2>2. /\ c.ok /\ c.lines = 2 /\ c.runs = <<>> /\ c.name = {}
        /\ c.current = {} /\ c.events = 0 /\ c.compacted = 0 /\ \A t \in Trailer : c.latest[t] = {}
    BY <1>5, <1>6, <2>1 DEF After1, Trailer, LoadState
  <2>3. c.docs = FALSE /\ c.ended = FALSE
    BY <1>5, <1>6, <2>1 DEF After1, LoadState
  <2>4. "turn" \in Trailer
    BY DEF Trailer
  <2> HIDE DEF c
  <2>5. /\ c.docs = Blank.docs /\ c.runs = Blank.runs /\ c.current = Blank.current
        /\ c.events = Blank.events /\ c.ended = Blank.ended /\ c.compacted = Blank.compacted
    BY <2>2, <2>3, BlankIs, Zenon
  <2>6. c.ok /\ c.lines >= 2 /\ c.name = {} /\ c.latest["turn"] = {}
    BY <2>2, <2>4
  <2>7. \A t \in Trailer \ {"turn"} : c.latest[t] = Blank.latest[t]
    BY <2>2, BlankIs
  <2>8. Alike(Blank, c)
    BY <2>5, <2>6, <2>7 DEF Alike
  <2> QED BY <2>8 DEF c
<1> QED BY <1>3, <1>5, <1>8, <1>9

\* What is read of a fork is what was read of its parent.
LEMMA ForkAlike ==
  ASSUME NEW lines \in Seq(Line), NEW last \in SUBSET Run, Load(lines).ok
  PROVE  ForkOf(lines, last) \in Seq(Line) /\ Alike(Load(lines), Load(ForkOf(lines, last)))
<1> DEFINE n == Len(lines)
           W(i) == Without(lines, Dropped)[i]
           P(i) == Origin(last) \o W(i)
           T == {i \in 0 .. n : P(i) \in Seq(Line) /\ Alike(Walk(lines)[i], Load(P(i)))}
<1>1. 0 \in T
  <2>1. W(0) = <<>> /\ Walk(lines)[0] = Blank
    BY WithoutIs, WalkIs
  <2>2. Origin(last) \o <<>> = Origin(last)
    BY OriginLoads, ConcatEmptySeq
  <2>3. P(0) = Origin(last)
    BY <2>1, <2>2
  <2>4. P(0) \in Seq(Line) /\ Alike(Walk(lines)[0], Load(P(0)))
    BY <2>1, <2>3, OriginLoads
  <2> HIDE DEF P
  <2> QED BY <2>4
<1>2. ASSUME NEW i \in 0 .. n - 1, i \in T PROVE i + 1 \in T
  <2> DEFINE e == lines[i + 1]
  <2>1. i + 1 \in 1 .. n /\ (i + 1) - 1 = i /\ e \in Line /\ i + 1 \in 0 .. n /\ i \in 0 .. n
    OBVIOUS
  <2>2. W(i + 1) = IF e.type \in Dropped THEN W(i) ELSE Append(W(i), e)
    BY <2>1, WithoutIs
  <2>3. Walk(lines)[i + 1] = Step(Walk(lines)[i], e)
    BY <2>1, WalkIs
  <2>4. Walk(lines)[i] \in LoadState /\ Step(Walk(lines)[i], e).ok
    BY <2>1, <2>3, WalkType, WalkOk DEF Load
  <2>5. W(i) \in Seq(Line) /\ Origin(last) \in Seq(Line)
    BY <2>1, WithoutType, OriginLoads
  <2>6. P(i) \in Seq(Line) /\ Alike(Walk(lines)[i], Load(P(i)))
    BY <1>2
  <2>7. Load(P(i)) \in LoadState
    <3>1. Len(P(i)) \in 0 .. Len(P(i))
      BY <2>6
    <3> QED BY <2>6, <3>1, WalkType DEF Load
  <2>8. CASE e.type \in Dropped
    <3>1. P(i + 1) = P(i)
      BY <2>2, <2>8
    <3>2. Alike(Step(Walk(lines)[i], e), Load(P(i)))
      BY <2>1, <2>4, <2>6, <2>7, <2>8, AlikeStep
    <3> QED BY <2>1, <2>3, <2>6, <3>1, <3>2
  <2>9. CASE e.type \notin Dropped
    <3>1. P(i + 1) = Append(P(i), e)
      <4> HIDE DEF e
      <4>1. W(i + 1) = Append(W(i), e)
        BY <2>2, <2>9
      <4> HIDE DEF W
      <4>2. Append(W(i), e) = W(i) \o <<e>> /\ <<e>> \in Seq(Line) /\ Append(P(i), e) = P(i) \o <<e>>
        BY <2>1, <2>5, <2>6, AppendIsConcat
      <4>3. Origin(last) \o (W(i) \o <<e>>) = (Origin(last) \o W(i)) \o <<e>>
        BY <2>5, <4>2, ConcatAssociative
      <4> QED BY <4>1, <4>2, <4>3
    <3>2. Alike(Step(Walk(lines)[i], e), Step(Load(P(i)), e))
      BY <2>1, <2>4, <2>6, <2>7, <2>9, AlikeStep
    <3>3. Append(P(i), e) \in Seq(Line) /\ Load(Append(P(i), e)) = Step(Load(P(i)), e)
      BY <2>1, <2>6, LoadAppend
    <3> QED BY <2>1, <2>3, <3>1, <3>2, <3>3
  <2> QED BY <2>8, <2>9
<1>3. n \in T
  <2> HIDE DEF T
  <2>1. \A i \in 0 .. n : i \in T
    BY <1>1, <1>2, CountingUp
  <2> QED BY <2>1
<1>4. ForkOf(lines, last) = P(n)
  BY DEF ForkOf, Copied, Origin, Dropped
<1> QED BY <1>3, <1>4 DEF Load

\* The state at the end of the lines.
LEMMA LoadIs ==
  ASSUME NEW lines \in Seq(Line)
  PROVE  Load(lines) \in LoadState /\ LastRun(lines) \in SUBSET Run
<1>1. Len(lines) \in 0 .. Len(lines)
  OBVIOUS
<1>2. Load(lines) \in LoadState
  BY <1>1, WalkType DEF Load
<1> DEFINE runs == Load(lines).runs
<1>3. runs \in Seq(Run)
  BY <1>2 DEF LoadState
<1> HIDE DEF runs
<1>4. runs # <<>> => Last(runs) \in Run
  BY <1>3 DEF Last
<1> QED BY <1>2, <1>4 DEF LastRun, runs

\* What ForkFaithful says of one file.
Faithful(lines) ==
  LET fork   == ForkOf(lines, LastRun(lines))
      before == Load(lines)
      after  == Load(fork)
  IN  /\ Loads(fork)
      /\ after.runs = before.runs /\ after.compacted = before.compacted
      /\ \A t \in Trailer \ {"turn"} : after.latest[t] = before.latest[t]
      /\ after.latest["turn"] = {} /\ after.name = {}

\* A fork of lines that load is faithful to them, whatever wrote the lines.
LEMMA ForkIsFaithful ==
  ASSUME NEW lines \in Seq(Line), Loads(lines)
  PROVE  Faithful(lines)
<1> DEFINE before == Load(lines)
           after == Load(ForkOf(lines, LastRun(lines)))
<1>1. before.ok /\ before.lines > 0 /\ before.current = {}
  BY DEF Loads
<1>2. Alike(before, after)
  BY <1>1, LoadIs, ForkAlike
<1>3. ForkOf(lines, LastRun(lines)) \in Seq(Line)
  BY <1>1, LoadIs, ForkAlike
<1>4. after \in LoadState
  BY <1>3, LoadIs
<1> HIDE DEF before, after
<1>5. after.ok /\ after.lines > 0 /\ after.current = {}
  BY <1>1, <1>2, <1>4 DEF Alike, LoadState
<1>6. /\ after.runs = before.runs /\ after.compacted = before.compacted
      /\ \A t \in Trailer \ {"turn"} : after.latest[t] = before.latest[t]
      /\ after.latest["turn"] = {} /\ after.name = {}
  BY <1>2 DEF Alike
<1> QED BY <1>5, <1>6 DEF Faithful, Loads, before, after

-----------------------------------------------------------------------------
(* The writes an operation leaves to do.                                   *)

Write ==
  [op : {"lines"}, at : Session, lines : Seq(Line), sync : BOOLEAN]
    \cup [op : {"truncate"}, at : Session]
    \cup [op : {"put"}, at : Session, name : SUBSET Name]
    \cup [op : {"return"}, at : Session, runs : SUBSET Run]

\* Writes at s: lines first, perhaps, and no others but a new session's project
\* docs; metadata with one of the names; and, last, a return with one of the values.
Plan(q, s, lines, sync, names, returns) ==
  /\ q \in Seq(Write)
  /\ IF lines = <<>> THEN q = <<>> \/ Head(q).op # "lines"
     ELSE q # <<>> /\ Head(q) = [op |-> "lines", at |-> s, lines |-> lines, sync |-> sync]
  /\ \A i \in 1 .. Len(q) :
       /\ q[i].at = s
       /\ q[i].op = "lines" /\ i > 1 => q[i].lines = <<Docs>> /\ lines = <<Header>>
       /\ q[i].op = "put" => q[i].name \in names
       /\ q[i].op = "return" => q[i].runs \in returns /\ i = Len(q)
  /\ \A i, j \in 2 .. Len(q) : q[i].op = "lines" /\ q[j].op = "lines" => i = j
  /\ \A runs \in returns : \E i \in 1 .. Len(q) : q[i].op = "return" /\ q[i].runs = runs

\* One operation's writes after another's.
LEMMA ConcatIs ==
  ASSUME NEW S, NEW a \in Seq(S), NEW b \in Seq(S)
  PROVE  /\ a \o b \in Seq(S) /\ Len(a \o b) = Len(a) + Len(b)
         /\ Len(a) \in Nat /\ Len(b) \in Nat
         /\ \A i \in 1 .. Len(a) : (a \o b)[i] = a[i]
         /\ \A i \in 1 .. Len(b) : (a \o b)[Len(a) + i] = b[i]
         /\ \A i \in 1 .. Len(a \o b) :
              \/ i \in 1 .. Len(a) /\ (a \o b)[i] = a[i]
              \/ i - Len(a) \in 1 .. Len(b) /\ i > Len(a) /\ (a \o b)[i] = b[i - Len(a)]
         /\ a # <<>> => Len(a) > 0 /\ a \o b # <<>> /\ Head(a \o b) = Head(a) /\ Head(a) = a[1]
         /\ a = <<>> => a \o b = b
OBVIOUS

\* A write of lines, as a plan.
LEMMA PlanLines ==
  ASSUME NEW s \in Session, NEW lines \in Seq(Line), lines # <<>>, NEW sync \in BOOLEAN,
         NEW names
  PROVE  Plan(Lines(s, lines, sync), s, lines, sync, names, {})
<1> DEFINE w == [op |-> "lines", at |-> s, lines |-> lines, sync |-> sync]
<1>1. w \in Write /\ w.at = s /\ w.op = "lines"
  BY DEF Write
<1>2. Lines(s, lines, sync) = <<w>>
  BY DEF Lines
<1> HIDE DEF w
<1>3. <<w>> \in Seq(Write) /\ Len(<<w>>) = 1 /\ <<w>>[1] = w /\ <<w>> # <<>> /\ Head(<<w>>) = w
  BY <1>1
<1>4. \A i \in 1 .. Len(<<w>>) : i = 1
  BY <1>3
<1>5. Plan(<<w>>, s, lines, sync, names, {})
  BY <1>1, <1>3, <1>4 DEF Plan, w
<1> QED BY <1>2, <1>5

\* A write of metadata, as a plan.
LEMMA PlanMeta ==
  ASSUME NEW s \in Session, NEW sync, NEW names, NEW name \in names \cap SUBSET Name
  PROVE  /\ Plan(Meta(s, name), s, <<>>, sync, names, {})
         /\ \A i \in 1 .. Len(Meta(s, name)) : Meta(s, name)[i].op \in {"truncate", "put"}
<1> DEFINE u == [op |-> "truncate", at |-> s]
           v == [op |-> "put", at |-> s, name |-> name]
           q == <<u, v>>
<1>1. /\ u \in Write /\ u.at = s /\ u.op = "truncate"
      /\ v \in Write /\ v.at = s /\ v.op = "put" /\ v.name = name
  BY DEF Write
<1>2. Meta(s, name) = q
  BY DEF Meta
<1> HIDE DEF u, v
<1>3. q \in Seq(Write) /\ Len(q) = 2 /\ q[1] = u /\ q[2] = v /\ Head(q) = u /\ q # <<>>
  BY <1>1
<1> HIDE DEF q
<1>4. \A i \in 1 .. Len(q) : i = 1 \/ i = 2
  BY <1>3
<1>5. \A i \in 1 .. Len(q) : q[i] = u \/ q[i] = v
  BY <1>3, <1>4
<1>6. Plan(q, s, <<>>, sync, names, {})
  BY <1>1, <1>3, <1>5 DEF Plan
<1> QED BY <1>1, <1>2, <1>5, <1>6

\* Writes of metadata, if any, and then a return or nothing.
LEMMA PlanMore ==
  ASSUME NEW s \in Session, NEW lines, NEW sync, NEW names, NEW returns, NEW a, NEW b,
         Plan(a, s, lines, sync, names, {}), Plan(b, s, <<>>, sync, names, returns),
         \A i \in 1 .. Len(b) : b[i].op # "lines"
  PROVE  Plan(a \o b, s, lines, sync, names, returns)
<1> DEFINE c == a \o b
<1>1. a \in Seq(Write) /\ b \in Seq(Write)
  BY DEF Plan
<1>2. /\ c \in Seq(Write) /\ Len(c) = Len(a) + Len(b) /\ Len(a) \in Nat /\ Len(b) \in Nat
      /\ \A i \in 1 .. Len(b) : c[Len(a) + i] = b[i]
      /\ \A i \in 1 .. Len(c) :
           \/ i \in 1 .. Len(a) /\ c[i] = a[i]
           \/ i - Len(a) \in 1 .. Len(b) /\ i > Len(a) /\ c[i] = b[i - Len(a)]
      /\ a # <<>> => c # <<>> /\ Head(c) = Head(a)
      /\ a = <<>> => c = b
  BY <1>1, ConcatIs
<1> HIDE DEF c
<1>3. IF lines = <<>> THEN c = <<>> \/ Head(c).op # "lines"
      ELSE c # <<>> /\ Head(c) = [op |-> "lines", at |-> s, lines |-> lines, sync |-> sync]
  BY <1>2 DEF Plan
<1>4. ASSUME NEW i \in 1 .. Len(c)
      PROVE  /\ c[i].at = s
             /\ c[i].op = "lines" /\ i > 1 => c[i].lines = <<Docs>> /\ lines = <<Header>>
             /\ c[i].op = "put" => c[i].name \in names
             /\ c[i].op = "return" => c[i].runs \in returns /\ i = Len(c)
  <2>1. CASE i \in 1 .. Len(a) /\ c[i] = a[i]
    BY <2>1 DEF Plan
  <2>2. CASE i - Len(a) \in 1 .. Len(b) /\ c[i] = b[i - Len(a)]
    <3> DEFINE k == i - Len(a)
    <3>1. k = Len(b) => i = Len(c)
      BY <1>2
    <3> HIDE DEF k
    <3>2. /\ b[k].at = s /\ b[k].op # "lines" /\ (b[k].op = "put" => b[k].name \in names)
          /\ b[k].op = "return" => b[k].runs \in returns /\ k = Len(b)
      BY <2>2 DEF Plan, k
    <3> QED BY <2>2, <3>1, <3>2 DEF k
  <2> QED BY <1>2, <2>1, <2>2
<1>5. ASSUME NEW runs \in returns PROVE \E i \in 1 .. Len(c) : c[i].op = "return" /\ c[i].runs = runs
  <2>1. PICK i \in 1 .. Len(b) : b[i].op = "return" /\ b[i].runs = runs
    BY DEF Plan
  <2>2. Len(a) + i \in 1 .. Len(c) /\ c[Len(a) + i] = b[i]
    BY <1>2, <2>1
  <2> QED BY <2>1, <2>2
<1>6. ASSUME NEW i \in 2 .. Len(c), NEW j \in 2 .. Len(c), c[i].op = "lines", c[j].op = "lines"
      PROVE  i = j
  <2>1. i \in 1 .. Len(c) /\ j \in 1 .. Len(c)
    BY <1>2
  <2>2. i \in 1 .. Len(a) /\ c[i] = a[i] /\ j \in 1 .. Len(a) /\ c[j] = a[j]
    BY <1>2, <1>6, <2>1
  <2>3. i \in 2 .. Len(a) /\ j \in 2 .. Len(a)
    BY <2>2
  <2> QED BY <1>6, <2>2, <2>3 DEF Plan
<1>7. Plan(c, s, lines, sync, names, returns)
  BY <1>2, <1>3, <1>4, <1>5, <1>6 DEF Plan
<1> QED BY <1>7 DEF c

\* What is returned, as a plan.
LEMMA PlanReturn ==
  ASSUME NEW s \in Session, NEW sync, NEW names, NEW runs \in SUBSET Run
  PROVE  /\ Plan(Return(s, runs), s, <<>>, sync, names, {runs})
         /\ \A i \in 1 .. Len(Return(s, runs)) : Return(s, runs)[i].op # "lines"
<1> DEFINE w == [op |-> "return", at |-> s, runs |-> runs]
<1>1. w \in Write /\ w.at = s /\ w.op = "return" /\ w.runs = runs
  BY DEF Write
<1>2. Return(s, runs) = <<w>>
  BY DEF Return
<1> HIDE DEF w
<1>3. <<w>> \in Seq(Write) /\ Len(<<w>>) = 1 /\ <<w>>[1] = w /\ <<w>> # <<>> /\ Head(<<w>>) = w
  BY <1>1
<1>4. \A i \in 1 .. Len(<<w>>) : i = 1
  BY <1>3
<1>5. 1 \in 1 .. Len(<<w>>)
  BY <1>3
<1>6. Plan(<<w>>, s, <<>>, sync, names, {runs})
  BY <1>1, <1>3, <1>4, <1>5 DEF Plan
<1> QED BY <1>1, <1>2, <1>3, <1>4, <1>6

\* What stands after the first write.
LEMMA TailIs ==
  ASSUME NEW q \in Seq(Write), q # <<>>
  PROVE  /\ Tail(q) \in Seq(Write) /\ Head(q) = q[1] /\ Head(q) \in Write /\ 1 \in 1 .. Len(q)
         /\ Len(Tail(q)) = Len(q) - 1 /\ Len(q) \in Nat
         /\ \A i \in 1 .. Len(Tail(q)) : i + 1 \in 1 .. Len(q) /\ Tail(q)[i] = q[i + 1]
         /\ Tail(q) # <<>> => Head(Tail(q)) = q[2] /\ 2 \in 1 .. Len(q)
OBVIOUS

-----------------------------------------------------------------------------
(* Lines joined to a file.                                                 *)

\* The first n elements of a sequence.
LEMMA FirstIs ==
  ASSUME NEW S, NEW q \in Seq(S), NEW n \in 0 .. Len(q)
  PROVE  /\ SubSeq(q, 1, n) \in Seq(S) /\ Len(SubSeq(q, 1, n)) = n
         /\ \A i \in 1 .. n : SubSeq(q, 1, n)[i] = q[i]
<1>1. n \in Nat /\ 1 \in Int /\ n \in Int /\ \A i \in 1 .. n : q[i] \in S
  OBVIOUS
<1>2. /\ SubSeq(q, 1, n) \in Seq(S) /\ Len(SubSeq(q, 1, n)) = n
      /\ \A i \in 1 .. n : SubSeq(q, 1, n)[i] = q[i]
  BY <1>1, SubSeqProperties
<1> QED BY <1>2

\* The last line of a file is spoiled by the first that is joined to it.
LEMMA SpoiledIs ==
  ASSUME NEW f \in Seq(Line), NEW lines \in Seq(Line), f # <<>>, lines # <<>>
  PROVE  LET n == Len(f) - 1
             g == Front(f) \o <<Garbage>> \o Tail(lines)
         IN  /\ g \in Seq(Line) /\ Len(g) = n + Len(lines) /\ n \in Nat /\ n <= Len(f)
             /\ Len(lines) \in Nat /\ Len(f) \in Nat
             /\ \A k \in 1 .. n : g[k] = f[k]
             /\ \A k \in 1 .. Len(lines) : g[n + k] = IF k = 1 THEN Garbage ELSE lines[k]
<1> DEFINE a == Front(f)
           c == Tail(lines)
<1>1. a \in Seq(Line) /\ Len(a) = Len(f) - 1 /\ \A k \in 1 .. Len(f) - 1 : a[k] = f[k]
  <2>1. f # <<>>
    OBVIOUS
  <2>2. Front(f) = SubSeq(f, 1, Len(f) - 1)
    BY DEF Front
  <2>3. Len(f) \in Nat /\ Len(f) > 0
    BY <2>1
  <2>4. \A k \in 1 .. Len(f) - 1 : f[k] \in Line
    BY <2>3
  <2>5. /\ SubSeq(f, 1, Len(f) - 1) \in Seq(Line) /\ Len(SubSeq(f, 1, Len(f) - 1)) = Len(f) - 1
        /\ \A k \in 1 .. Len(f) - 1 : SubSeq(f, 1, Len(f) - 1)[k] = f[k]
    <3>1. Len(f) - 1 \in 0 .. Len(f)
      BY <2>3
    <3> QED BY <3>1, FirstIs
  <2> QED BY <2>2, <2>5
<1>2. c \in Seq(Line) /\ Len(c) = Len(lines) - 1 /\ \A k \in 1 .. Len(c) : c[k] = lines[k + 1]
  OBVIOUS
<1>3. Front(f) \o <<Garbage>> \o Tail(lines) = a \o <<Garbage>> \o c
  OBVIOUS
<1>4. Garbage \in Line
  BY DEF Garbage, Line
<1> HIDE DEF a, c
<1> DEFINE b == Append(a, Garbage)
<1>5. b = a \o <<Garbage>>
  BY <1>1, <1>4
<1>6. b \in Seq(Line) /\ Len(b) = Len(f) /\ b[Len(f)] = Garbage
      /\ \A k \in 1 .. Len(f) - 1 : b[k] = f[k]
  BY <1>1, <1>4
<1> HIDE DEF b
<1> DEFINE g == b \o c
<1>7. /\ g \in Seq(Line) /\ Len(g) = Len(f) + Len(lines) - 1
      /\ \A k \in 1 .. Len(f) : g[k] = b[k]
      /\ \A k \in 1 .. Len(c) : g[Len(f) + k] = c[k]
  <2>1. Len(b) = Len(f) /\ Len(f) \in Nat /\ Len(c) = Len(lines) - 1 /\ Len(lines) \in Nat
    BY <1>2, <1>6
  <2>2. /\ b \o c \in Seq(Line) /\ Len(b \o c) = Len(b) + Len(c)
        /\ \A i \in 1 .. Len(b) : (b \o c)[i] = b[i]
        /\ \A i \in 1 .. Len(c) : (b \o c)[Len(b) + i] = c[i]
    <3>1. b \in Seq(Line) /\ c \in Seq(Line)
      BY <1>2, <1>6
    <3> QED BY <3>1, ConcatIs
  <2> QED BY <2>1, <2>2
<1> HIDE DEF g
<1>8. Len(f) - 1 \in Nat /\ Len(f) \in Nat /\ Len(lines) \in Nat /\ Len(lines) > 0
  OBVIOUS
<1>9. \A k \in 1 .. Len(f) - 1 : g[k] = f[k]
  BY <1>6, <1>7, <1>8
<1>10. ASSUME NEW k \in 1 .. Len(lines)
       PROVE  g[(Len(f) - 1) + k] = IF k = 1 THEN Garbage ELSE lines[k]
  <2>1. CASE k = 1
    BY <1>6, <1>7, <1>8, <2>1
  <2>2. CASE k # 1
    <3>1. k - 1 \in 1 .. Len(c) /\ (Len(f) - 1) + k = Len(f) + (k - 1) /\ (k - 1) + 1 = k
      BY <1>2, <1>8, <2>2
    <3>2. g[Len(f) + (k - 1)] = c[k - 1] /\ c[k - 1] = lines[(k - 1) + 1]
      BY <1>2, <1>7, <3>1
    <3> QED BY <2>2, <3>1, <3>2
  <2> QED BY <2>1, <2>2
<1>11. Front(f) \o <<Garbage>> \o Tail(lines) = g
  BY <1>3, <1>5 DEF g
<1>12. Len(g) = (Len(f) - 1) + Len(lines)
  BY <1>7, <1>8
<1> DEFINE n == Len(f) - 1
<1>13. /\ \A k \in 1 .. n : g[k] = f[k]
       /\ \A k \in 1 .. Len(lines) : g[n + k] = IF k = 1 THEN Garbage ELSE lines[k]
       /\ Len(g) = n + Len(lines) /\ n \in Nat /\ n <= Len(f)
  BY <1>8, <1>9, <1>10, <1>12
<1> HIDE DEF n
<1>14. /\ g \in Seq(Line) /\ Len(g) = n + Len(lines) /\ n \in Nat /\ n <= Len(f)
       /\ Len(lines) \in Nat /\ Len(f) \in Nat
       /\ \A k \in 1 .. n : g[k] = f[k]
       /\ \A k \in 1 .. Len(lines) : g[n + k] = IF k = 1 THEN Garbage ELSE lines[k]
  BY <1>7, <1>8, <1>13
<1> QED BY <1>11, <1>14 DEF n

-----------------------------------------------------------------------------
(* The frame of every other invariant: who writes where.                   *)

Writer == [run : Run, events : Nat, ended : BOOLEAN]
Fork == [stage : {"loaded", "copied", "described"}, from : Session, to : Session,
         names : SUBSET Name, last : SUBSET Run]

Types ==
  /\ file \in [Session -> Seq(Line)] /\ bare \in SUBSET Session
  /\ synced \in [Session -> Nat] /\ \A s \in Session : synced[s] <= Len(file[s])
  /\ meta \in [Session -> [state : {"absent", "torn", "ok"}, name : SUBSET Name]]
  /\ dirty \in SUBSET Session
  /\ todo \in [Process -> Seq(Write)]
  /\ held \in [Session -> {"free", "run", "compaction"}]
  /\ writing \in [Session -> SUBSET Writer] /\ source \in [Session -> SUBSET Run]
  /\ forking = NoFork \/ forking \in Fork
  /\ done \in [Session -> SUBSET Run]
  /\ hurt \in SUBSET Session /\ launched \in SUBSET Session

\* The lines to be written next to the file of s.
Pending(p, s) ==
  IF todo[p] # <<>> /\ Head(todo[p]).op = "lines" /\ Head(todo[p]).at = s
  THEN Head(todo[p]).lines ELSE <<>>

\* A process writes to one session at a time, lines first; only a new session
\* gets more lines later.
Shape ==
  \A p \in Process :
    /\ \A i \in 1 .. Len(todo[p]) :
         /\ todo[p][i].at = Head(todo[p]).at
         /\ todo[p][i].op = "lines" => todo[p][i].lines # <<>>
         /\ todo[p][i].op = "lines" /\ i > 1 => p = "backend" /\ todo[p][i].lines = <<Docs>>
         /\ todo[p][i].op = "return" => p = "backend" /\ i = Len(todo[p])
         /\ todo[p][i].op = "lines" /\ i > 1 /\ Head(todo[p]).op = "lines" =>
              Head(todo[p]).lines = <<Header>>
    /\ \A i, j \in 2 .. Len(todo[p]) :
         todo[p][i].op = "lines" /\ todo[p][j].op = "lines" => i = j

\* A new session has no line, or its header.
Beginning(s) ==
  /\ held[s] = "free" /\ s \notin bare
  /\ file[s] = IF Pending("backend", s) = <<Header>> THEN <<>> ELSE <<Header>>

Creating ==
  \A i \in 1 .. Len(todo["backend"]) :
    todo["backend"][i].op = "lines" /\ todo["backend"][i].lines \in {<<Header>>, <<Docs>>} =>
      Beginning(todo["backend"][i].at)

\* The session lock keeps a run and a compaction apart, and each alone.
Locks ==
  /\ \A s \in Session : writing[s] # {} <=> held[s] = "run"
  /\ \A s \in Session : \A v, w \in writing[s] : v = w
  /\ \A s \in Session : source[s] # {} => held[s] = "compaction" /\ Pending("backend", s) = <<>>
  /\ \A s \in Session : held[s] # "free" => file[s] # <<>>
  /\ \A s \in bare : file[s] # <<>>
  /\ bare \subseteq hurt

\* The session the launcher makes or names is no one else's.
Target(t) ==
  \/ forking # NoFork /\ forking.to = t
  \/ todo["launcher"] # <<>> /\ Head(todo["launcher"]).at = t

Apart ==
  /\ \A t \in Session : Target(t) =>
       /\ held[t] = "free"
       /\ todo["backend"] # <<>> => Head(todo["backend"]).at # t
  /\ todo["launcher"] # <<>> =>
       IF forking = NoFork THEN file[Head(todo["launcher"]).at] # <<>>
       ELSE Head(todo["launcher"]).at = forking.to
  /\ forking # NoFork /\ forking.stage = "loaded" =>
       todo["launcher"] = <<>> /\ file[forking.to] = <<>>

\* Only a run's first line may meet a line without its newline.
BareFirst ==
  \A s \in bare : \A w \in writing[s] : Pending("backend", s) = <<Of("run", w.run)>>

\* What returns was begun.
Returns ==
  \A i \in 1 .. Len(todo["backend"]) :
    LET w == todo["backend"][i]
    IN  w.op = "return" =>
          /\ held[w.at] # "free" /\ source[w.at] = {}
          /\ w.runs # {} => \E v \in writing[w.at] : v.ended /\ w.runs = {v.run}
          /\ w.runs = {} => writing[w.at] = {}

\* A compaction in progress stands for all runs of the file.
Sources ==
  \A s \in Session : source[s] # {} => source[s] = ToSet(Load(file[s]).runs)

Frame == Types /\ Shape /\ Creating /\ Locks /\ Apart /\ BareFirst /\ Returns /\ Sources

\* The forks are in one of three stages.
LEMMA ForkStages ==
  /\ NoFork \notin Fork /\ NoFork.stage = "none"
  /\ Types => (forking.stage = "none" <=> forking = NoFork)
BY DEF NoFork, Fork, Types

\* No session is there at first.
LEMMA FrameInit == Init => Frame
<1> SUFFICES ASSUME Init PROVE Frame
  OBVIOUS
<1> USE DEF Init
<1>1. <<>> \in Seq(Line) /\ <<>> \in Seq(Write) /\ Len(<<>>) = 0
  OBVIOUS
<1>2. Types
  BY <1>1 DEF Types, NoFork
<1>3. todo["backend"] = <<>> /\ todo["launcher"] = <<>> /\ \A p \in Process : todo[p] = <<>>
  BY DEF Process
<1>4. Shape /\ Creating /\ Returns
  BY <1>1, <1>3 DEF Shape, Creating, Returns
<1>5. Locks /\ BareFirst
  BY DEF Locks, BareFirst
<1>6. Apart
  BY <1>3 DEF Apart, Target
<1>7. Sources
  BY DEF Sources
<1> QED BY <1>2, <1>4, <1>5, <1>6, <1>7 DEF Frame

-----------------------------------------------------------------------------
(* The backend plans its writes.                                           *)

Plans(p, s, lines, sync, names, returns) ==
  \E q : /\ todo[p] = <<>> /\ todo' = [todo EXCEPT ![p] = q]
         /\ Plan(q, s, lines, sync, names, returns)

\* What becomes of the session's lock, appender and compaction.
Takes(s, h, w, o) ==
  /\ held' = [held EXCEPT ![s] = h] /\ writing' = [writing EXCEPT ![s] = w]
  /\ source' = [source EXCEPT ![s] = o]

\* What a command leaves when it plans its writes.
LEMMA PlansEffect ==
  ASSUME Types, NEW p \in Process, NEW s \in Session, NEW lines \in Seq(Line), NEW sync,
         NEW names, NEW returns, Plans(p, s, lines, sync, names, returns)
  PROVE  /\ todo' \in [Process -> Seq(Write)] /\ todo[p] = <<>>
         /\ \A r \in Process \ {p} : todo'[r] = todo[r]
         /\ Plan(todo'[p], s, lines, sync, names, returns)
         /\ todo'[p] # <<>> => Head(todo'[p]).at = s
         /\ \A t \in Session : Pending(p, t)' = (IF t = s THEN lines ELSE <<>>)
         /\ \A t \in Session : Pending(p, t) = <<>>
<1>1. PICK q : /\ todo[p] = <<>> /\ todo' = [todo EXCEPT ![p] = q]
               /\ Plan(q, s, lines, sync, names, returns)
  BY DEF Plans
<1>2. q \in Seq(Write)
  BY <1>1 DEF Plan
<1>3. /\ todo' \in [Process -> Seq(Write)] /\ todo'[p] = q
      /\ \A r \in Process \ {p} : todo'[r] = todo[r]
  BY <1>1, <1>2 DEF Types
<1>4. q # <<>> => Head(q) = q[1] /\ 1 \in 1 .. Len(q)
  BY <1>2
<1>5. q # <<>> => Head(q).at = s
  BY <1>1, <1>4 DEF Plan
<1>6. ASSUME NEW t \in Session PROVE Pending(p, t)' = IF t = s THEN lines ELSE <<>>
  <2>1. CASE lines = <<>>
    BY <1>1, <1>3, <2>1 DEF Plan, Pending
  <2>2. CASE lines # <<>>
    <3>1. q # <<>> /\ Head(q) = [op |-> "lines", at |-> s, lines |-> lines, sync |-> sync]
      BY <1>1, <2>2 DEF Plan
    <3>2. Head(q).op = "lines" /\ Head(q).at = s /\ Head(q).lines = lines
      BY <3>1
    <3> QED BY <1>3, <3>1, <3>2 DEF Pending
  <2> QED BY <2>1, <2>2
<1>7. \A t \in Session : Pending(p, t) = <<>>
  BY <1>1 DEF Pending
<1> QED BY <1>1, <1>3, <1>5, <1>6, <1>7

\* What the backend may plan, and what it then holds.
Orderly(s, lines, returns, h, w, o) ==
  /\ h \in {"free", "run", "compaction"} /\ w \in SUBSET Writer /\ o \in SUBSET Run
  /\ w # {} <=> h = "run"
  /\ \A u, v \in w : u = v
  /\ o # {} => h = "compaction" /\ lines = <<>> /\ o = source[s]
  /\ h # "free" => file[s] # <<>>
  /\ lines # <<Docs>>
  /\ lines = <<Header>> => h = "free" /\ file[s] = <<>>
  /\ s \in bare => \A v \in w : lines = <<Of("run", v.run)>>
  /\ \A runs \in returns :
       /\ h # "free" /\ o = {}
       /\ runs # {} => \E v \in w : v.ended /\ runs = {v.run}
       /\ runs = {} => w = {}

\* The backend's writes, at a session that the launcher is not making.
LEMMA BackendPlans ==
  ASSUME Frame, NEW s \in Session, NEW lines \in Seq(Line), NEW sync, NEW names, NEW returns,
         Plans("backend", s, lines, sync, names, returns), ~Target(s),
         NEW h, NEW w, NEW o, Takes(s, h, w, o),
         UNCHANGED <<disk, forking, done, hurt, launched>>,
         Orderly(s, lines, returns, h, w, o)
  PROVE  Frame'
<1>1. Types /\ Shape /\ Creating /\ Locks /\ Apart /\ BareFirst /\ Returns /\ Sources
  BY DEF Frame
<1>2. "backend" \in Process /\ "launcher" \in Process /\ \A p \in Process : p = "backend" \/ p = "launcher"
  BY DEF Process
<1>0. /\ h \in {"free", "run", "compaction"} /\ w \in SUBSET Writer /\ o \in SUBSET Run
      /\ w # {} <=> h = "run"
      /\ \A u, v \in w : u = v
      /\ o # {} => h = "compaction" /\ lines = <<>> /\ o = source[s]
      /\ h # "free" => file[s] # <<>>
      /\ lines # <<Docs>>
      /\ lines = <<Header>> => h = "free" /\ file[s] = <<>>
      /\ s \in bare => \A v \in w : lines = <<Of("run", v.run)>>
      /\ \A runs \in returns :
           /\ h # "free" /\ o = {}
           /\ runs # {} => \E v \in w : v.ended /\ runs = {v.run}
           /\ runs = {} => w = {}
  BY DEF Orderly
<1> DEFINE q == todo'["backend"]
<1>3. /\ todo' \in [Process -> Seq(Write)] /\ todo["backend"] = <<>>
      /\ todo'["launcher"] = todo["launcher"]
      /\ Plan(q, s, lines, sync, names, returns)
      /\ q # <<>> => Head(q).at = s
      /\ \A t \in Session : Pending("backend", t)' = IF t = s THEN lines ELSE <<>>
      /\ \A t \in Session : Pending("backend", t) = <<>>
  BY <1>1, <1>2, PlansEffect
<1> HIDE DEF q
<1>4. UNCHANGED <<file, bare, synced, meta, dirty, forking, done, hurt, launched>>
  BY DEF disk
<1>5. /\ held' \in [Session -> {"free", "run", "compaction"}] /\ writing' \in [Session -> SUBSET Writer]
      /\ source' \in [Session -> SUBSET Run]
      /\ held'[s] = h /\ writing'[s] = w /\ source'[s] = o
      /\ \A t \in Session : t # s => held'[t] = held[t] /\ writing'[t] = writing[t] /\ source'[t] = source[t]
  BY <1>0, <1>1 DEF Takes, Types
<1>6. Types'
  BY <1>1, <1>3, <1>4, <1>5 DEF Types
<1>7. /\ q \in Seq(Write) /\ Len(q) \in Nat
      /\ \A i \in 1 .. Len(q) :
           /\ q[i].at = s
           /\ q[i].op = "lines" /\ i > 1 => q[i].lines = <<Docs>> /\ lines = <<Header>>
           /\ q[i].op = "return" => q[i].runs \in returns /\ i = Len(q)
      /\ \A i, j \in 2 .. Len(q) : q[i].op = "lines" /\ q[j].op = "lines" => i = j
      /\ IF lines = <<>> THEN q = <<>> \/ Head(q).op # "lines"
         ELSE q # <<>> /\ Head(q) = [op |-> "lines", at |-> s, lines |-> lines, sync |-> sync]
      /\ q # <<>> => Head(q) = q[1] /\ 1 \in 1 .. Len(q)
  BY <1>3 DEF Plan
<1>8. lines # <<>> => Head(q).op = "lines" /\ Head(q).lines = lines
  BY <1>7
<1>9. \A i \in 1 .. Len(q) : q # <<>> /\ (i = 1 \/ i > 1)
  BY <1>7
<1> USE <1>0
<1>10. Shape'
  <2>1. ASSUME NEW i \in 1 .. Len(q)
        PROVE  /\ q[i].at = Head(q).at /\ (q[i].op = "lines" => q[i].lines # <<>>)
               /\ q[i].op = "lines" /\ i > 1 => q[i].lines = <<Docs>>
               /\ q[i].op = "lines" /\ i > 1 /\ Head(q).op = "lines" => Head(q).lines = <<Header>>
               /\ q[i].op = "return" => i = Len(q)
    <3>1. q[i].op = "lines" /\ i = 1 => lines # <<>> /\ q[i].lines = lines
      BY <1>7, <1>8, <1>9
    <3>2. q[i].op = "lines" /\ i > 1 => lines # <<>>
      BY <1>7
    <3> QED BY <1>3, <1>7, <1>8, <1>9, <3>1, <3>2
  <2>2. \A i, j \in 2 .. Len(todo'["backend"]) :
          todo'["backend"][i].op = "lines" /\ todo'["backend"][j].op = "lines" => i = j
    BY <1>7 DEF q
  <2> QED BY SMTT(40), <1>1, <1>2, <1>3, <2>1, <2>2 DEF Shape, q
<1>11. Creating'
  <2>1. ASSUME NEW i \in 1 .. Len(q), q[i].op = "lines", q[i].lines \in {<<Header>>, <<Docs>>}
        PROVE  q[i].at = s /\ Beginning(s)'
    <3>1. lines = <<Header>>
      <4>1. CASE i = 1
        BY <1>7, <1>8, <1>9, <2>1, <4>1
      <4>2. CASE i > 1
        BY <1>7, <2>1, <4>2
      <4> QED BY <1>9, <4>1, <4>2
    <3>2. h = "free" /\ file[s] = <<>> /\ s \notin bare
      BY <1>1, <3>1 DEF Locks
    <3>3. Pending("backend", s)' = <<Header>>
      BY <1>3, <3>1
    <3> QED BY <1>4, <1>5, <1>7, <3>2, <3>3 DEF Beginning
  <2>2. \A i \in 1 .. Len(todo'["backend"]) :
          todo'["backend"][i].op = "lines" /\ todo'["backend"][i].lines \in {<<Header>>, <<Docs>>} =>
            todo'["backend"][i].at = s /\ Beginning(s)'
    BY <2>1 DEF q
  <2> QED BY <2>2 DEF Creating
<1>12. Locks'
  <2>1. ASSUME NEW t \in Session
        PROVE  /\ writing'[t] # {} <=> held'[t] = "run"
               /\ \A u, v \in writing'[t] : u = v
               /\ source'[t] # {} => held'[t] = "compaction" /\ Pending("backend", t)' = <<>>
               /\ held'[t] # "free" => file'[t] # <<>>
    <3>1. CASE t = s
      BY <1>3, <1>4, <1>5, <3>1
    <3>2. CASE t # s
      BY <1>1, <1>3, <1>4, <1>5, <3>2 DEF Locks
    <3> QED BY <3>1, <3>2
  <2>2. (\A t \in bare' : file'[t] # <<>>) /\ bare' \subseteq hurt'
    BY <1>1, <1>4 DEF Locks
  <2> QED BY <2>1, <2>2 DEF Locks
<1>13. Apart'
  <2>1. \A t \in Session : Target(t)' => Target(t)
    BY <1>3, <1>4 DEF Target
  <2>2. ASSUME NEW t \in Session, Target(t)'
        PROVE  held'[t] = "free" /\ (q # <<>> => Head(q).at # t)
    <3>1. t # s
      BY <2>1, <2>2
    <3> QED BY <1>1, <1>3, <1>5, <2>1, <2>2, <3>1 DEF Apart
  <2> QED BY <1>1, <1>3, <1>4, <2>2 DEF Apart, q
<1>14. BareFirst'
  <2>1. ASSUME NEW t \in bare, NEW v \in writing'[t] PROVE Pending("backend", t)' = <<Of("run", v.run)>>
    <3>1. t \in Session
      BY <1>1 DEF Types
    <3>2. CASE t = s
      BY <1>3, <1>5, <2>1, <3>1, <3>2
    <3>3. CASE t # s
      <4>1. v \in writing[t] /\ Pending("backend", t) = <<>>
        BY <1>3, <1>5, <2>1, <3>1, <3>3
      <4>2. <<>> = <<Of("run", v.run)>>
        BY <1>1, <4>1 DEF BareFirst
      <4> QED BY <4>2
    <3> QED BY <3>2, <3>3
  <2> QED BY <1>4, <2>1 DEF BareFirst
<1>15. Returns'
  <2>1. ASSUME NEW i \in 1 .. Len(q), q[i].op = "return"
        PROVE  /\ held'[q[i].at] # "free" /\ source'[q[i].at] = {}
               /\ q[i].runs # {} => \E v \in writing'[q[i].at] : v.ended /\ q[i].runs = {v.run}
               /\ q[i].runs = {} => writing'[q[i].at] = {}
    <3>1. q[i].at = s /\ q[i].runs \in returns
      BY <1>7, <2>1
    <3> QED BY <1>5, <3>1
  <2> QED BY <2>1 DEF Returns, q
<1>16. Sources'
  <2>1. \A t \in Session : source'[t] # {} => source'[t] = source[t]
    BY <1>5
  <2> QED BY <1>1, <1>4, <2>1 DEF Sources
<1> QED BY <1>6, <1>10, <1>11, <1>12, <1>13, <1>14, <1>15, <1>16 DEF Frame

\* What each command of the backend plans.
LEMMA DoesPlans ==
  ASSUME NEW p, NEW q, NEW s, NEW lines, NEW sync, NEW names, NEW returns,
         Does(p, q), Plan(q, s, lines, sync, names, returns)
  PROVE  Plans(p, s, lines, sync, names, returns)
BY DEF Does, Free, Plans

\* A command that leaves the lock alone takes what is there.
LEMMA TakesNone ==
  ASSUME Types, NEW s \in Session
  PROVE  /\ held' = held => held' = [held EXCEPT ![s] = held[s]]
         /\ writing' = writing => writing' = [writing EXCEPT ![s] = writing[s]]
         /\ source' = source => source' = [source EXCEPT ![s] = source[s]]
<1>1. /\ held = [held EXCEPT ![s] = held[s]] /\ writing = [writing EXCEPT ![s] = writing[s]]
      /\ source = [source EXCEPT ![s] = source[s]]
  BY DEF Types
<1> QED BY <1>1

\* A session that can be opened is not the launcher's.
LEMMA KnownIs ==
  ASSUME Frame, NEW s \in Session
  PROVE  /\ Known(s) => ~Target(s) /\ file[s] # <<>>
         /\ writing[s] # {} => ~Target(s) /\ file[s] # <<>>
         /\ source[s] # {} => ~Target(s) /\ file[s] # <<>>
<1>1. Types /\ Locks /\ Apart
  BY DEF Frame
<1>2. todo["launcher"] \in Seq(Write)
  BY <1>1 DEF Types, Process
<1>3. todo["launcher"] # <<>> => 1 \in DOMAIN todo["launcher"] /\ Head(todo["launcher"]) = todo["launcher"][1]
  BY <1>2
<1>4. Known(s) => ~Target(s) /\ file[s] # <<>>
  BY <1>1, <1>3, ForkStages DEF Known, Target
<1>5. writing[s] # {} \/ source[s] # {} => held[s] # "free"
  BY <1>1 DEF Locks
<1> QED BY <1>1, <1>4, <1>5 DEF Apart, Locks

\* The lines of the model.
LEMMA LinesAre ==
  /\ Header \in Line /\ Docs \in Line /\ Garbage \in Line
  /\ \A r \in Run : \A type \in OfRun \cup Trailer : Of(type, r) \in Line
  /\ \A n \in Name : Info(n) \in Line
  /\ \A r \in Run, S \in SUBSET Run : [type |-> "compaction", run |-> r, covers |-> S] \in Line
  /\ \A S \in SUBSET Run : [type |-> "fork", parent |-> S] \in Line
BY DEF Line, Header, Docs, Garbage, Of, Info, OfRun, Trailer

\* Lines of different types differ.
LEMMA LinesDiffer ==
  /\ Header # Docs /\ Header.type = "header" /\ Docs.type = "docs" /\ Garbage.type = "garbage"
  /\ \A type, r : Of(type, r).type = type /\ Of(type, r).run = r
  /\ \A n : Info(n).type = "info" /\ Info(n).name = n
BY DEF Header, Docs, Garbage, Of, Info

\* A line with its metadata, once and twice.
LEMMA Written ==
  ASSUME NEW l, NEW m, NEW u, NEW v
  PROVE  /\ <<l>> \o <<u, v>> \o <<>> = <<l, u, v>>
         /\ <<l>> \o <<u, v>> \o (<<m>> \o <<u, v>>) = <<l, u, v, m, u, v>>
<1> DEFINE S == {l, m, u, v}
           c == <<m>> \o <<u, v>>
           d == <<l>> \o <<u, v>>
<1>1. <<l>> \in Seq(S) /\ <<m>> \in Seq(S) /\ <<u, v>> \in Seq(S)
  OBVIOUS
<1>2. c \in Seq(S) /\ Len(c) = 3 /\ c[1] = m /\ c[2] = u /\ c[3] = v
  BY <1>1
<1>3. d \in Seq(S) /\ Len(d) = 3 /\ d[1] = l /\ d[2] = u /\ d[3] = v
  BY <1>1
<1> HIDE DEF S, c, d
<1>4. d = <<l, u, v>>
  BY <1>3
<1>5. d \o <<>> = d
  BY <1>3
<1>6. d \o c \in Seq(S) /\ Len(d \o c) = 6 /\ \A i \in 1 .. 3 : (d \o c)[i] = d[i] /\ (d \o c)[3 + i] = c[i]
  <2>1. d \in Seq(S) /\ c \in Seq(S)
    BY <1>2, <1>3
  <2>2. /\ d \o c \in Seq(S) /\ Len(d \o c) = Len(d) + Len(c)
        /\ \A i \in 1 .. Len(d) : (d \o c)[i] = d[i]
        /\ \A i \in 1 .. Len(c) : (d \o c)[Len(d) + i] = c[i]
    BY <2>1, ConcatIs
  <2> QED BY <1>2, <1>3, <2>2
<1> DEFINE e == d \o c
<1>7. e \in Seq(S) /\ Len(e) = 6 /\ e[1] = l /\ e[2] = u /\ e[3] = v /\ e[4] = m /\ e[5] = u /\ e[6] = v
  BY <1>2, <1>3, <1>6
<1> HIDE DEF e
<1>8. e = <<l, u, v, m, u, v>>
  BY <1>7
<1> QED BY <1>4, <1>5, <1>8 DEF c, d, e

\* create_session plans the header.
LEMMA CreateSessionIs ==
  ASSUME Frame, NEW s \in Session, NEW docs \in BOOLEAN, CreateSession(s, docs)
  PROVE  /\ Plans("backend", s, <<Header>>, TRUE, {{}}, {}) /\ Takes(s, "free", {}, {})
         /\ ~Target(s) /\ file[s] = <<>> /\ s \notin bare
         /\ UNCHANGED <<disk, forking, done, hurt, launched>>
<1>1. Types /\ Locks /\ Apart
  BY DEF Frame
<1>2. file[s] = <<>> /\ held[s] = "free" /\ writing[s] = {} /\ source[s] = {} /\ s \notin bare
  BY <1>1 DEF CreateSession, Fresh, Locks
<1>3. ~Target(s)
  BY <1>1, <1>2, ForkStages DEF CreateSession, Target, Apart
<1>4. Takes(s, "free", {}, {})
  BY <1>1, <1>2, TakesNone DEF CreateSession, Takes
<1> DEFINE l == [op |-> "lines", at |-> s, lines |-> <<Header>>, sync |-> TRUE]
           u == [op |-> "truncate", at |-> s]
           v == [op |-> "put", at |-> s, name |-> {}]
           m == [op |-> "lines", at |-> s, lines |-> <<Docs>>, sync |-> TRUE]
<1>5. /\ l \in Write /\ l.at = s /\ l.op = "lines"
      /\ u \in Write /\ u.at = s /\ u.op = "truncate"
      /\ v \in Write /\ v.at = s /\ v.op = "put" /\ v.name = {}
      /\ m \in Write /\ m.at = s /\ m.op = "lines" /\ m.lines = <<Docs>>
  <2>1. <<Header>> \in Seq(Line) /\ <<Docs>> \in Seq(Line)
    BY LinesAre
  <2> QED BY <2>1 DEF Write
<1> DEFINE a == <<l>> \o <<u, v>> \o <<>>
           b == <<l>> \o <<u, v>> \o (<<m>> \o <<u, v>>)
<1>6. a = <<l, u, v>> /\ b = <<l, u, v, m, u, v>>
  <2> HIDE DEF l, m, u, v
  <2> QED BY Written
<1>7. Does("backend", IF docs THEN b ELSE a)
  BY DEF CreateSession, Lines, Meta
<1>8. Plan(a, s, <<Header>>, TRUE, {{}}, {})
  <2> HIDE DEF a, u, v
  <2>1. <<Header>> # <<>>
    OBVIOUS
  <2>2. l = [op |-> "lines", at |-> s, lines |-> <<Header>>, sync |-> TRUE]
    OBVIOUS
  <2> HIDE DEF l
  <2>3. /\ a \in Seq(Write) /\ Len(a) = 3 /\ a # <<>> /\ Head(a) = l
        /\ a[1] = l /\ a[2] = u /\ a[3] = v
    BY <1>5, <1>6
  <2>4. \A i \in 1 .. Len(a) : i = 1 \/ a[i] = u \/ a[i] = v
    BY <2>3
  <2>5. \A i \in 2 .. Len(a) : a[i] = u \/ a[i] = v
    BY <2>3
  <2> QED BY <1>5, <2>1, <2>2, <2>3, <2>4, <2>5 DEF Plan
<1>9. Plan(b, s, <<Header>>, TRUE, {{}}, {})
  <2> HIDE DEF b, u, v
  <2>1. <<Header>> # <<>>
    OBVIOUS
  <2>2. l = [op |-> "lines", at |-> s, lines |-> <<Header>>, sync |-> TRUE]
    OBVIOUS
  <2> HIDE DEF l, m
  <2>3. /\ b \in Seq(Write) /\ Len(b) = 6 /\ b # <<>> /\ Head(b) = l
        /\ b[1] = l /\ b[2] = u /\ b[3] = v /\ b[4] = m /\ b[5] = u /\ b[6] = v
    BY <1>5, <1>6
  <2>4. \A i \in 1 .. Len(b) : i = 1 \/ b[i] = u \/ b[i] = v \/ b[i] = m
    BY <2>3
  <2>5. \A i \in 2 .. Len(b) : i = 4 \/ b[i] = u \/ b[i] = v
    BY <2>3
  <2> QED BY <1>5, <2>1, <2>2, <2>3, <2>4, <2>5 DEF Plan
<1>10. Plans("backend", s, <<Header>>, TRUE, {{}}, {})
  <2> HIDE DEF a, b
  <2> QED BY <1>7, <1>8, <1>9, DoesPlans
<1> QED BY <1>2, <1>3, <1>4, <1>10 DEF CreateSession

\* start plans the line of the run and takes the lock.
LEMMA StartRunIs ==
  ASSUME Frame, NEW s \in Session, NEW r \in Run, StartRun(s, r)
  PROVE  /\ Plans("backend", s, <<Of("run", r)>>, FALSE, {}, {})
         /\ Takes(s, "run", {[run |-> r, events |-> 0, ended |-> FALSE]}, {})
         /\ ~Target(s) /\ file[s] # <<>> /\ held[s] = "free" /\ writing[s] = {}
         /\ UNCHANGED <<disk, forking, done, hurt, launched>>
<1>1. Types /\ Locks
  BY DEF Frame
<1>2. held[s] = "free" /\ writing[s] = {} /\ source[s] = {}
  BY <1>1 DEF StartRun, Locks
<1>3. <<Of("run", r)>> \in Seq(Line) /\ <<Of("run", r)>> # <<>>
  BY LinesAre DEF OfRun
<1>4. Plan(Lines(s, <<Of("run", r)>>, FALSE), s, <<Of("run", r)>>, FALSE, {}, {})
  BY <1>3, PlanLines
<1>5. Plans("backend", s, <<Of("run", r)>>, FALSE, {}, {})
  BY <1>4, DoesPlans DEF StartRun
<1>6. Takes(s, "run", {[run |-> r, events |-> 0, ended |-> FALSE]}, {})
  BY <1>1, <1>2, TakesNone DEF StartRun, Takes
<1> QED BY <1>2, <1>5, <1>6, KnownIs DEF StartRun

\* The validator state after one more event.
More(w, type) == IF type = "event" THEN [w EXCEPT !.events = @ + 1] ELSE [w EXCEPT !.ended = TRUE]

\* append plans one line of the run that is written.
LEMMA AppendEventIs ==
  ASSUME Frame, NEW s \in Session, NEW type \in {"event", "end"}, AppendEvent(s, type)
  PROVE  \E w \in writing[s] :
           /\ Plans("backend", s, <<Of(type, w.run)>>, FALSE, {}, {})
           /\ Takes(s, "run", {More(w, type)}, {})
           /\ w.ended = FALSE /\ (type = "end" => w.events > 0)
           /\ More(w, type) \in Writer /\ More(w, type).run = w.run
           /\ More(w, type).events = (IF type = "event" THEN w.events + 1 ELSE w.events)
           /\ More(w, type).ended = (type = "end")
           /\ ~Target(s) /\ file[s] # <<>> /\ s \notin bare
           /\ UNCHANGED <<disk, forking, done, hurt, launched>>
<1>1. Types /\ Locks /\ BareFirst
  BY DEF Frame
<1>2. PICK w \in writing[s] :
        /\ ~w.ended /\ (type = "end" => w.events > 0)
        /\ Does("backend", Lines(s, <<Of(type, w.run)>>, FALSE))
        /\ writing' = [writing EXCEPT ![s] = {More(w, type)}]
  BY DEF AppendEvent, More
<1>3. UNCHANGED <<disk, held, source, forking, done, hurt, launched>>
  BY DEF AppendEvent
<1>4. w \in Writer
  BY <1>1 DEF Types
<1>5. held[s] = "run" /\ source[s] = {}
  BY <1>1, <1>2 DEF Locks
<1>6. <<Of(type, w.run)>> \in Seq(Line) /\ <<Of(type, w.run)>> # <<>>
  BY <1>4, LinesAre DEF OfRun, Writer
<1>7. Plan(Lines(s, <<Of(type, w.run)>>, FALSE), s, <<Of(type, w.run)>>, FALSE, {}, {})
  BY <1>6, PlanLines
<1>8. Plans("backend", s, <<Of(type, w.run)>>, FALSE, {}, {})
  BY <1>2, <1>7, DoesPlans
<1>9. Takes(s, "run", {More(w, type)}, {})
  BY <1>1, <1>2, <1>3, <1>5, TakesNone DEF Takes
<1>10. /\ More(w, type) = [run |-> w.run, events |-> IF type = "event" THEN w.events + 1 ELSE w.events,
                           ended |-> IF type = "event" THEN w.ended ELSE TRUE]
       /\ w.ended = FALSE
  BY <1>2, <1>4 DEF More, Writer
<1>11. More(w, type) \in Writer /\ More(w, type).run = w.run
       /\ More(w, type).events = (IF type = "event" THEN w.events + 1 ELSE w.events)
       /\ More(w, type).ended = (type = "end")
  <2> DEFINE n == IF type = "event" THEN w.events + 1 ELSE w.events
             d == IF type = "event" THEN w.ended ELSE TRUE
  <2>1. n \in Nat /\ d \in BOOLEAN /\ w.run \in Run
    <3>1. w.events \in Nat /\ w.ended \in BOOLEAN /\ w.run \in Run
      BY <1>4 DEF Writer
    <3>2. CASE type = "event"
      BY <3>1, <3>2
    <3>3. CASE type # "event"
      BY <3>1, <3>3
    <3> QED BY <3>2, <3>3
  <2>2. d = (type = "end")
    BY <1>10
  <2> HIDE DEF n, d
  <2>3. More(w, type) = [run |-> w.run, events |-> n, ended |-> d]
    BY <1>10 DEF n, d
  <2>4. More(w, type) \in Writer /\ More(w, type).run = w.run
        /\ More(w, type).events = n /\ More(w, type).ended = d
    BY <2>1, <2>3 DEF Writer
  <2> QED BY <2>2, <2>4 DEF n
<1>12. s \notin bare
  <2>1. Pending("backend", s) = <<>>
    BY <1>2 DEF Pending, Does, Free
  <2>2. s \in bare => Pending("backend", s) = <<Of("run", w.run)>>
    BY <1>1, <1>2 DEF BareFirst
  <2>3. <<Of("run", w.run)>> # <<>>
    OBVIOUS
  <2> QED BY <2>1, <2>2, <2>3
<1> QED BY <1>2, <1>3, <1>8, <1>9, <1>10, <1>11, <1>12, KnownIs

\* The lines a finalization writes.
Ending(r, extras) == <<Of("messages", r)>> \o After(r, extras)

\* The lines a run ends with.
LEMMA EndingIs ==
  ASSUME NEW r \in Run, NEW extras \in SUBSET Trailer
  PROVE  /\ After(r, extras) \in Seq(Line)
         /\ Ending(r, extras) \in Seq(Line) /\ Ending(r, extras) # <<>>
         /\ Len(Ending(r, extras)) \in Nat /\ Len(Ending(r, extras)) > 0
         /\ Ending(r, extras)[1] = Of("messages", r)
         /\ \A k \in 1 .. Len(Ending(r, extras)) : Ending(r, extras)[k].type \in {"messages"} \cup Trailer
<1> DEFINE some(t) == IF t \in extras THEN <<Of(t, r)>> ELSE <<>>
           L == {Of(t, r) : t \in Trailer}
<1>1. L \subseteq Line /\ Of("messages", r) \in Line
  BY LinesAre DEF OfRun
<1>2. \A t \in Trailer : some(t) \in Seq(L)
  <2>1. \A t \in Trailer : Of(t, r) \in L
    OBVIOUS
  <2> HIDE DEF L
  <2> QED BY <2>1
<1> HIDE DEF some
<1> DEFINE a == some("inventory")
           b == some("turn")
           c == some("grants")
<1>3. a \in Seq(L) /\ b \in Seq(L) /\ c \in Seq(L)
  BY <1>2 DEF Trailer
<1> DEFINE d == a \o b \o c
<1> HIDE DEF a, b, c
<1>4. d \in Seq(L)
  BY <1>3
<1>5. After(r, extras) = d
  BY DEF After, some, a, b, c, d
<1> HIDE DEF d
<1>6. \A e \in L : e \in Line /\ e.type \in Trailer
  BY <1>1, LinesDiffer
<1> HIDE DEF L
<1>7. d \in Seq(Line) /\ Len(d) \in Nat /\ \A i \in 1 .. Len(d) : d[i].type \in Trailer
  BY <1>4, <1>6
<1> DEFINE m == <<Of("messages", r)>>
<1>8. m \in Seq(Line) /\ Len(m) = 1 /\ m[1] = Of("messages", r) /\ m[1].type = "messages"
  BY <1>1, LinesDiffer
<1> HIDE DEF m
<1> DEFINE e == m \o d
<1>9. /\ e \in Seq(Line) /\ Len(e) = 1 + Len(d) /\ e[1] = m[1]
      /\ \A i \in 1 .. Len(e) : i = 1 \/ (i - 1 \in 1 .. Len(d) /\ e[i] = d[i - 1])
  <2>1. /\ m \o d \in Seq(Line) /\ Len(m \o d) = Len(m) + Len(d)
        /\ \A i \in 1 .. Len(m) : (m \o d)[i] = m[i]
        /\ \A i \in 1 .. Len(m \o d) :
              \/ i \in 1 .. Len(m) /\ (m \o d)[i] = m[i]
              \/ i - Len(m) \in 1 .. Len(d) /\ i > Len(m) /\ (m \o d)[i] = d[i - Len(m)]
    <3>1. m \in Seq(Line) /\ d \in Seq(Line)
      BY <1>7, <1>8
    <3> QED BY <3>1, ConcatIs
  <2> QED BY <1>7, <1>8, <2>1
<1>10. Ending(r, extras) = e
  BY <1>5 DEF Ending, e, m
<1> HIDE DEF e
<1>11. e # <<>> /\ Len(e) > 0 /\ Len(e) \in Nat
  BY <1>7, <1>9
<1>12. \A i \in 1 .. Len(e) : e[i].type \in {"messages"} \cup Trailer
  BY <1>7, <1>8, <1>9
<1> QED BY <1>5, <1>7, <1>8, <1>9, <1>10, <1>11, <1>12

\* The metadata is written when it can be read.
LEMMA PlanUpdate ==
  ASSUME Types, NEW s \in Session, NEW lines \in Seq(Line), lines # <<>>, NEW sync \in BOOLEAN,
         NEW runs \in SUBSET Run
  PROVE  Plan(Lines(s, lines, sync) \o Update(s, meta[s].name) \o Return(s, runs),
              s, lines, sync, {meta[s].name}, {runs})
<1> DEFINE names == {meta[s].name}
           l == Lines(s, lines, sync)
           u == Update(s, meta[s].name)
           r == Return(s, runs)
<1>1. meta[s].name \in names \cap SUBSET Name
  BY DEF Types
<1>2. Plan(l, s, lines, sync, names, {})
  BY PlanLines
<1>3. Plan(r, s, <<>>, sync, names, {runs}) /\ \A i \in 1 .. Len(r) : r[i].op # "lines"
  BY PlanReturn
<1> HIDE DEF names, l, r
<1>4. Plan(u, s, <<>>, sync, names, {}) /\ \A i \in 1 .. Len(u) : u[i].op # "lines"
  <2>1. CASE meta[s].state = "ok"
    <3>1. u = Meta(s, meta[s].name)
      BY <2>1 DEF Update
    <3>2. Plan(Meta(s, meta[s].name), s, <<>>, sync, names, {})
          /\ \A i \in 1 .. Len(Meta(s, meta[s].name)) :
               Meta(s, meta[s].name)[i].op \in {"truncate", "put"}
      BY <1>1, PlanMeta
    <3> HIDE DEF u
    <3> QED BY <3>1, <3>2
  <2>2. CASE meta[s].state # "ok"
    <3>1. u = <<>>
      BY <2>2 DEF Update
    <3> HIDE DEF u
    <3> QED BY <3>1 DEF Plan
  <2> QED BY <2>1, <2>2
<1> HIDE DEF u
<1>5. Plan(l \o u, s, lines, sync, names, {})
  BY <1>2, <1>4, PlanMore
<1>6. Plan((l \o u) \o r, s, lines, sync, names, {runs})
  BY <1>3, <1>5, PlanMore
<1> QED BY <1>6 DEF names, l, u, r

\* finalize plans the last lines of the run, synced, and its return.
LEMMA FinalizeIs ==
  ASSUME Frame, BoundsAssumption, NEW s \in Session, NEW extras \in SUBSET Extras, Finalize(s, extras)
  PROVE  \E w \in writing[s] :
           /\ Plans("backend", s, Ending(w.run, extras), TRUE, {meta[s].name}, {{w.run}})
           /\ Takes(s, "run", writing[s], {})
           /\ w.ended /\ w.run \in Run /\ extras \in SUBSET Trailer
           /\ ~Target(s) /\ file[s] # <<>> /\ s \notin bare
           /\ UNCHANGED <<disk, forking, done, hurt, launched>>
<1>1. Types /\ Locks /\ BareFirst
  BY DEF Frame
<1>2. PICK w \in writing[s] :
        /\ w.ended
        /\ Does("backend", Lines(s, Ending(w.run, extras), TRUE)
                             \o Update(s, meta[s].name) \o Return(s, {w.run}))
  BY DEF Finalize, Ending
<1>3. UNCHANGED <<disk, held, writing, source, forking, done, hurt, launched>>
  BY DEF Finalize
<1>4. w.run \in Run /\ extras \in SUBSET Trailer
  BY <1>1, <1>2 DEF Types, Writer, BoundsAssumption
<1>5. held[s] = "run" /\ source[s] = {}
  BY <1>1, <1>2 DEF Locks
<1>6. Ending(w.run, extras) \in Seq(Line) /\ Ending(w.run, extras) # <<>>
  BY <1>4, EndingIs
<1>7. Plan(Lines(s, Ending(w.run, extras), TRUE) \o Update(s, meta[s].name) \o Return(s, {w.run}),
           s, Ending(w.run, extras), TRUE, {meta[s].name}, {{w.run}})
  BY <1>1, <1>4, <1>6, PlanUpdate
<1>8. Plans("backend", s, Ending(w.run, extras), TRUE, {meta[s].name}, {{w.run}})
  BY <1>2, <1>7, DoesPlans
<1>9. Takes(s, "run", writing[s], {})
  BY <1>1, <1>3, <1>5, TakesNone DEF Takes
<1>10. s \notin bare
  <2>1. Pending("backend", s) = <<>>
    BY <1>2 DEF Pending, Does, Free
  <2>2. s \in bare => Pending("backend", s) = <<Of("run", w.run)>>
    BY <1>1, <1>2 DEF BareFirst
  <2>3. <<Of("run", w.run)>> # <<>>
    OBVIOUS
  <2> QED BY <2>1, <2>2, <2>3
<1> QED BY <1>2, <1>3, <1>4, <1>8, <1>9, <1>10, KnownIs

\* A compaction that fails writes nothing.
LEMMA FailCompactionIs ==
  ASSUME Frame, NEW s \in Session, FailCompaction(s)
  PROVE  /\ Plans("backend", s, <<>>, FALSE, {}, {{}})
         /\ Takes(s, "compaction", {}, {})
         /\ ~Target(s) /\ file[s] # <<>> /\ writing[s] = {}
         /\ UNCHANGED <<disk, forking, done, hurt, launched>>
<1>1. Types /\ Locks
  BY DEF Frame
<1>2. Plan(Return(s, {}), s, <<>>, FALSE, {}, {{}})
  BY PlanReturn
<1>3. Plans("backend", s, <<>>, FALSE, {}, {{}})
  BY <1>2, DoesPlans DEF FailCompaction
<1>4. held[s] = "compaction" /\ writing[s] = {}
  BY <1>1 DEF FailCompaction, Locks
<1>5. Takes(s, "compaction", {}, {})
  BY <1>1, <1>4, TakesNone DEF FailCompaction, Takes
<1> QED BY <1>3, <1>4, <1>5, KnownIs DEF FailCompaction

Compacting(s) == [type |-> "compaction", run |-> Last(Load(file[s]).runs), covers |-> source[s]]

\* A compaction plans a line for the runs it has read.
LEMMA EndCompactionIs ==
  ASSUME Frame, NEW s \in Session, EndCompaction(s)
  PROVE  /\ Plans("backend", s, <<Compacting(s)>>, TRUE, {meta[s].name}, {{}})
         /\ Takes(s, "compaction", {}, {})
         /\ Compacting(s) \in Line /\ Loads(file[s]) /\ Load(file[s]).runs # <<>>
         /\ source[s] = ToSet(Load(file[s]).runs)
         /\ ~Target(s) /\ file[s] # <<>> /\ writing[s] = {}
         /\ UNCHANGED <<disk, forking, done, hurt, launched>>
<1>1. Types /\ Locks /\ Sources
  BY DEF Frame
<1>2. file[s] \in Seq(Line)
  BY <1>1 DEF Types
<1> DEFINE runs == Load(file[s]).runs
<1>3. runs \in Seq(Run)
  BY <1>2, LoadIs DEF LoadState
<1>4. source[s] = ToSet(runs) /\ source[s] # {}
  BY <1>1 DEF EndCompaction, Sources
<1> HIDE DEF runs
<1>5. runs # <<>>
  <2>1. ToSet(<<>>) = {}
    BY DEF ToSet
  <2> QED BY <1>4, <2>1
<1>6. Last(runs) \in Run
  BY <1>3, <1>5 DEF Last
<1>7. Compacting(s) \in Line
  BY <1>1, <1>6, LinesAre DEF Compacting, Types, runs
<1> DEFINE lines == <<Compacting(s)>>
<1>8. lines \in Seq(Line) /\ lines # <<>>
  BY <1>7
<1>9. Plan(Lines(s, lines, TRUE) \o Update(s, meta[s].name) \o Return(s, {}),
           s, lines, TRUE, {meta[s].name}, {{}})
  <2> HIDE DEF lines
  <2> QED BY <1>1, <1>8, PlanUpdate
<1>10. Plans("backend", s, lines, TRUE, {meta[s].name}, {{}})
  BY <1>9, DoesPlans DEF EndCompaction, Compacting
<1>11. held[s] = "compaction" /\ writing[s] = {}
  BY <1>1, <1>4 DEF Locks
<1>12. Takes(s, "compaction", {}, {})
  BY <1>1, <1>11, TakesNone DEF EndCompaction, Takes
<1> QED BY <1>4, <1>5, <1>7, <1>10, <1>11, <1>12, KnownIs DEF EndCompaction, runs

\* A name is planned that fits those there are.
LEMMA NameSessionIs ==
  ASSUME Frame, NEW s \in Session, NEW n \in Name, NameSession(s, n)
  PROVE  /\ Plans("backend", s, <<Info(n)>>, TRUE, {{n}}, {})
         /\ Takes(s, "free", {}, {})
         /\ Loads(file[s]) /\ NameAccepted(s, n)
         /\ ~Target(s) /\ file[s] # <<>> /\ writing[s] = {}
         /\ UNCHANGED <<disk, forking, done, hurt, launched>>
<1>1. Types /\ Locks
  BY DEF Frame
<1>2. <<Info(n)>> \in Seq(Line) /\ <<Info(n)>> # <<>>
  BY LinesAre
<1>3. Plan(Lines(s, <<Info(n)>>, TRUE), s, <<Info(n)>>, TRUE, {{n}}, {})
  BY <1>2, PlanLines
<1>4. /\ Plan(Meta(s, {n}), s, <<>>, TRUE, {{n}}, {})
      /\ \A i \in 1 .. Len(Meta(s, {n})) : Meta(s, {n})[i].op \in {"truncate", "put"}
  <2>1. {n} \in {{n}} \cap SUBSET Name
    OBVIOUS
  <2> QED BY <2>1, PlanMeta
<1>5. Plan(NameWrites(s, n), s, <<Info(n)>>, TRUE, {{n}}, {})
  <2>1. \A i \in 1 .. Len(Meta(s, {n})) : Meta(s, {n})[i].op # "lines"
    BY <1>4
  <2>2. Plan(Lines(s, <<Info(n)>>, TRUE) \o Meta(s, {n}), s, <<Info(n)>>, TRUE, {{n}}, {})
    BY <1>3, <1>4, <2>1, PlanMore
  <2> QED BY <2>2 DEF NameWrites
<1>6. Plans("backend", s, <<Info(n)>>, TRUE, {{n}}, {})
  BY <1>5, DoesPlans DEF NameSession
<1>7. held[s] = "free" /\ writing[s] = {} /\ source[s] = {}
  BY <1>1 DEF NameSession, Locks
<1>8. Takes(s, "free", {}, {})
  BY <1>1, <1>7, TakesNone DEF NameSession, Takes
<1> QED BY <1>6, <1>7, <1>8, KnownIs DEF NameSession

\* Another mode is metadata only.
LEMMA SetModeIs ==
  ASSUME Frame, NEW s \in Session, SetMode(s)
  PROVE  /\ Plans("backend", s, <<>>, TRUE, {meta[s].name}, {})
         /\ Takes(s, held[s], writing[s], source[s])
         /\ ~Target(s) /\ file[s] # <<>>
         /\ UNCHANGED <<disk, forking, done, hurt, launched>>
<1>1. Types
  BY DEF Frame
<1>2. meta[s].name \in {meta[s].name} \cap SUBSET Name
  BY <1>1 DEF Types
<1>3. Plan(Meta(s, meta[s].name), s, <<>>, TRUE, {meta[s].name}, {})
  BY <1>2, PlanMeta
<1>4. Plans("backend", s, <<>>, TRUE, {meta[s].name}, {})
  BY <1>3, DoesPlans DEF SetMode
<1>5. Takes(s, held[s], writing[s], source[s])
  BY <1>1, TakesNone DEF SetMode, Takes
<1> QED BY <1>4, <1>5, KnownIs DEF SetMode

\* The commands of the backend keep the frame.
LEMMA BackendFrame ==
  ASSUME Frame, BoundsAssumption, NEW s \in Session,
         \/ \E docs \in BOOLEAN : CreateSession(s, docs)
         \/ \E r \in Run : StartRun(s, r)
         \/ \E type \in {"event", "end"} : AppendEvent(s, type)
         \/ \E extras \in SUBSET Extras : Finalize(s, extras)
         \/ FailCompaction(s) \/ EndCompaction(s) \/ SetMode(s)
         \/ \E n \in Name : NameSession(s, n)
  PROVE  Frame'
<1>1. Types /\ Locks /\ BareFirst
  BY DEF Frame
<1>2. /\ held[s] \in {"free", "run", "compaction"} /\ writing[s] \in SUBSET Writer
      /\ source[s] \in SUBSET Run /\ file[s] \in Seq(Line)
  BY <1>1 DEF Types
<1> DEFINE N == SUBSET Run
<1>3. CASE \E docs \in BOOLEAN : CreateSession(s, docs)
  <2>1. <<Header>> \in Seq(Line) /\ <<Header>> # <<Docs>>
    BY LinesAre, LinesDiffer
  <2>2. /\ Plans("backend", s, <<Header>>, TRUE, {{}}, {}) /\ Takes(s, "free", {}, {})
        /\ ~Target(s) /\ file[s] = <<>> /\ s \notin bare
        /\ UNCHANGED <<disk, forking, done, hurt, launched>>
    BY <1>3, CreateSessionIs
  <2>3. Orderly(s, <<Header>>, {}, "free", {}, {})
    BY <2>1, <2>2 DEF Orderly
  <2>4. Frame'
    BY <2>1, <2>2, <2>3, BackendPlans
  <2> QED BY <2>4
<1>4. CASE \E r \in Run : StartRun(s, r)
  <2>1. PICK r \in Run : StartRun(s, r)
    BY <1>4
  <2> DEFINE w == [run |-> r, events |-> 0, ended |-> FALSE]
             L == <<Of("run", r)>>
  <2>2. L \in Seq(Line) /\ L # <<Docs>> /\ L # <<Header>>
    BY LinesAre, LinesDiffer DEF OfRun
  <2>3. /\ Plans("backend", s, L, FALSE, {}, {}) /\ Takes(s, "run", {w}, {})
        /\ ~Target(s) /\ file[s] # <<>>
        /\ UNCHANGED <<disk, forking, done, hurt, launched>>
    BY <2>1, StartRunIs
  <2>4. w \in Writer /\ w.run = r
    BY DEF Writer
  <2>5. \A v \in {w} : L = <<Of("run", v.run)>>
    BY <2>4
  <2> HIDE DEF L, w
  <2>6. {w} \in SUBSET Writer /\ {w} # {} /\ \A u, v \in {w} : u = v
    BY <2>4
  <2>7. Orderly(s, L, {}, "run", {w}, {})
    BY <2>2, <2>3, <2>5, <2>6 DEF Orderly
  <2>8. Frame'
    BY <2>2, <2>3, <2>7, BackendPlans
  <2> QED BY <2>8
<1>5. CASE \E type \in {"event", "end"} : AppendEvent(s, type)
  <2>1. PICK type \in {"event", "end"} : AppendEvent(s, type)
    BY <1>5
  <2>2. PICK w \in writing[s] :
          /\ Plans("backend", s, <<Of(type, w.run)>>, FALSE, {}, {})
          /\ Takes(s, "run", {More(w, type)}, {}) /\ More(w, type) \in Writer
          /\ ~Target(s) /\ file[s] # <<>> /\ s \notin bare
          /\ UNCHANGED <<disk, forking, done, hurt, launched>>
    BY <2>1, AppendEventIs
  <2> DEFINE L == <<Of(type, w.run)>>
             m == More(w, type)
  <2>3. L \in Seq(Line) /\ L # <<Docs>> /\ L # <<Header>>
    BY <1>2, <2>1, LinesAre, LinesDiffer DEF OfRun, Writer
  <2> HIDE DEF L, m
  <2>4. {m} \in SUBSET Writer /\ {m} # {} /\ \A u, v \in {m} : u = v
    BY <2>2 DEF m
  <2>5. Plans("backend", s, L, FALSE, {}, {}) /\ Takes(s, "run", {m}, {})
    BY <2>2 DEF L, m
  <2>6. Orderly(s, L, {}, "run", {m}, {})
    BY <2>2, <2>3, <2>4 DEF Orderly
  <2>7. Frame'
    BY <2>2, <2>3, <2>5, <2>6, BackendPlans
  <2> QED BY <2>7
<1>6. CASE \E extras \in SUBSET Extras : Finalize(s, extras)
  <2>1. PICK extras \in SUBSET Extras : Finalize(s, extras)
    BY <1>6
  <2>2. PICK w \in writing[s] :
          /\ Plans("backend", s, Ending(w.run, extras), TRUE, {meta[s].name}, {{w.run}})
          /\ Takes(s, "run", writing[s], {})
          /\ w.ended /\ w.run \in Run /\ extras \in SUBSET Trailer
          /\ ~Target(s) /\ file[s] # <<>> /\ s \notin bare
          /\ UNCHANGED <<disk, forking, done, hurt, launched>>
    BY <2>1, FinalizeIs
  <2> DEFINE L == Ending(w.run, extras)
  <2>3. L \in Seq(Line) /\ Len(L) > 0 /\ L[1] = Of("messages", w.run)
    BY <2>2, EndingIs
  <2>4. L[1] # Docs /\ L[1] # Header
    BY <2>3, LinesDiffer
  <2> HIDE DEF L
  <2>5. L # <<Docs>> /\ L # <<Header>>
    BY <2>4
  <2>6. Plans("backend", s, L, TRUE, {meta[s].name}, {{w.run}})
    BY <2>2 DEF L
  <2>7. \A u, v \in writing[s] : u = v
    BY <1>1 DEF Locks
  <2>8. Orderly(s, L, {{w.run}}, "run", writing[s], {})
    BY <1>2, <2>2, <2>5, <2>7 DEF Orderly
  <2>9. Frame'
    BY <2>2, <2>3, <2>6, <2>8, BackendPlans
  <2> QED BY <2>9
<1>7. CASE FailCompaction(s)
  <2>1. <<>> \in Seq(Line) /\ <<>> # <<Docs>> /\ <<>> # <<Header>>
    OBVIOUS
  <2>2. /\ Plans("backend", s, <<>>, FALSE, {}, {{}}) /\ Takes(s, "compaction", {}, {})
        /\ ~Target(s) /\ file[s] # <<>> /\ writing[s] = {}
        /\ UNCHANGED <<disk, forking, done, hurt, launched>>
    BY <1>7, FailCompactionIs
  <2>3. Orderly(s, <<>>, {{}}, "compaction", {}, {})
    BY <2>1, <2>2 DEF Orderly
  <2>4. Frame'
    BY <2>1, <2>2, <2>3, BackendPlans
  <2> QED BY <2>4
<1>8. CASE EndCompaction(s)
  <2> DEFINE L == <<Compacting(s)>>
  <2>1. /\ Plans("backend", s, L, TRUE, {meta[s].name}, {{}}) /\ Takes(s, "compaction", {}, {})
        /\ Compacting(s) \in Line /\ ~Target(s) /\ file[s] # <<>> /\ writing[s] = {}
        /\ UNCHANGED <<disk, forking, done, hurt, launched>>
    BY <1>8, EndCompactionIs
  <2>2. Compacting(s).type = "compaction"
    BY DEF Compacting
  <2>3. L \in Seq(Line) /\ L # <<Docs>> /\ L # <<Header>>
    BY <2>1, <2>2, LinesDiffer
  <2> HIDE DEF L
  <2>4. Orderly(s, L, {{}}, "compaction", {}, {})
    BY <2>1, <2>3 DEF Orderly
  <2>5. Frame'
    BY <2>1, <2>3, <2>4, BackendPlans
  <2> QED BY <2>5
<1>9. CASE SetMode(s)
  <2>1. <<>> \in Seq(Line) /\ <<>> # <<Docs>> /\ <<>> # <<Header>>
    OBVIOUS
  <2>2. /\ Plans("backend", s, <<>>, TRUE, {meta[s].name}, {}) /\ Takes(s, held[s], writing[s], source[s])
        /\ ~Target(s) /\ file[s] # <<>>
        /\ UNCHANGED <<disk, forking, done, hurt, launched>>
    BY <1>9, SetModeIs
  <2>3. /\ writing[s] # {} <=> held[s] = "run"
        /\ \A u, v \in writing[s] : u = v
        /\ source[s] # {} => held[s] = "compaction"
        /\ held[s] # "free" => file[s] # <<>>
    BY <1>1 DEF Locks
  <2>4. s \in bare => \A v \in writing[s] : <<>> = <<Of("run", v.run)>>
    <3>1. Pending("backend", s) = <<>>
      BY <1>1, <2>1, <2>2, PlansEffect DEF Process
    <3> QED BY <1>1, <3>1 DEF BareFirst
  <2>5. Orderly(s, <<>>, {}, held[s], writing[s], source[s])
    BY <1>2, <2>1, <2>2, <2>3, <2>4 DEF Orderly
  <2>6. Frame'
    BY <2>1, <2>2, <2>5, BackendPlans
  <2> QED BY <2>6
<1>10. CASE \E n \in Name : NameSession(s, n)
  <2>1. PICK n \in Name : NameSession(s, n)
    BY <1>10
  <2> DEFINE L == <<Info(n)>>
  <2>2. L \in Seq(Line) /\ L # <<Docs>> /\ L # <<Header>>
    BY LinesAre, LinesDiffer
  <2>3. /\ Plans("backend", s, L, TRUE, {{n}}, {}) /\ Takes(s, "free", {}, {})
        /\ ~Target(s) /\ file[s] # <<>> /\ writing[s] = {}
        /\ UNCHANGED <<disk, forking, done, hurt, launched>>
    BY <2>1, NameSessionIs
  <2> HIDE DEF L
  <2>4. Orderly(s, L, {}, "free", {}, {})
    BY <2>2, <2>3 DEF Orderly
  <2>5. Frame'
    BY <2>2, <2>3, <2>4, BackendPlans
  <2> QED BY <2>5
<1> QED BY <1>3, <1>4, <1>5, <1>6, <1>7, <1>8, <1>9, <1>10

-----------------------------------------------------------------------------
(* The launcher plans its writes.                                          *)

\* So does what the launcher plans for its own session.
LEMMA LauncherPlans ==
  ASSUME Frame, NEW t \in Session, NEW lines \in Seq(Line), NEW sync, NEW names,
         Plans("launcher", t, lines, sync, names, {}), lines # <<Header>>,
         forking # NoFork, forking.to = t,
         \/ forking' = NoFork /\ (lines # <<>> => file[t] # <<>>)
                              /\ (todo'["launcher"] # <<>> => file[t] # <<>>)
         \/ forking' # NoFork /\ forking' \in Fork /\ forking'.to = t /\ forking'.stage # "loaded",
         UNCHANGED <<disk, held, writing, source, done>>,
         hurt \subseteq hurt', hurt' \in SUBSET Session, launched' \in SUBSET Session
  PROVE  Frame'
<1>1. Types /\ Shape /\ Creating /\ Locks /\ Apart /\ BareFirst /\ Returns /\ Sources
  BY DEF Frame
<1>2. "backend" \in Process /\ "launcher" \in Process /\ \A p \in Process : p = "backend" \/ p = "launcher"
  BY DEF Process
<1> DEFINE q == todo'["launcher"]
<1>3. /\ todo' \in [Process -> Seq(Write)] /\ todo["launcher"] = <<>>
      /\ todo'["backend"] = todo["backend"]
      /\ Plan(q, t, lines, sync, names, {})
      /\ q # <<>> => Head(q).at = t
  BY <1>1, <1>2, PlansEffect
<1> HIDE DEF q
<1>4. UNCHANGED <<file, bare, synced, meta, dirty, held, writing, source, done>>
  BY DEF disk
<1>5. Types'
  BY <1>1, <1>3, <1>4 DEF Types
<1>6. /\ q \in Seq(Write) /\ Len(q) \in Nat
      /\ \A i \in 1 .. Len(q) :
           /\ q[i].at = t
           /\ q[i].op = "lines" => i = 1
           /\ q[i].op # "return"
      /\ IF lines = <<>> THEN q = <<>> \/ Head(q).op # "lines"
         ELSE q # <<>> /\ Head(q) = [op |-> "lines", at |-> t, lines |-> lines, sync |-> sync]
      /\ q # <<>> => Head(q) = q[1] /\ 1 \in 1 .. Len(q)
  BY <1>3 DEF Plan
<1>7. Shape'
  <2>1. \A i \in 1 .. Len(q) :
          /\ q[i].at = Head(q).at /\ (q[i].op = "lines" => q[i].lines # <<>>)
          /\ ~(q[i].op = "lines" /\ i > 1) /\ q[i].op # "return"
    <3>1. lines # <<>> => Head(q).lines = lines
      BY <1>6
    <3>2. lines = <<>> => \A i \in 1 .. Len(q) : q[i].op # "lines"
      BY <1>6
    <3>3. \A i \in 1 .. Len(q) : q # <<>>
      BY <1>6
    <3> QED BY <1>3, <1>6, <3>1, <3>2, <3>3
  <2>2. \A i, j \in 2 .. Len(q) : q[i].op = "lines" /\ q[j].op = "lines" => i = j
    <3>1. \A i \in 2 .. Len(q) : i \in 1 .. Len(q) /\ i # 1
      BY <1>6
    <3> QED BY <1>6, <3>1
  <2>3. ASSUME NEW p \in Process
        PROVE  /\ \A i \in 1 .. Len(todo'[p]) :
                    /\ todo'[p][i].at = Head(todo'[p]).at
                    /\ todo'[p][i].op = "lines" => todo'[p][i].lines # <<>>
                    /\ todo'[p][i].op = "lines" /\ i > 1 => p = "backend" /\ todo'[p][i].lines = <<Docs>>
                    /\ todo'[p][i].op = "return" => p = "backend" /\ i = Len(todo'[p])
                    /\ todo'[p][i].op = "lines" /\ i > 1 /\ Head(todo'[p]).op = "lines" =>
                         Head(todo'[p]).lines = <<Header>>
               /\ \A i, j \in 2 .. Len(todo'[p]) :
                    todo'[p][i].op = "lines" /\ todo'[p][j].op = "lines" => i = j
    <3>1. CASE p = "backend"
      BY <1>1, <1>3, <3>1 DEF Shape
    <3>2. CASE p = "launcher"
      BY <2>1, <2>2, <3>2 DEF q
    <3> QED BY <1>2, <3>1, <3>2
  <2> QED BY <2>3 DEF Shape
<1>8. \A s \in Session : Pending("backend", s)' = Pending("backend", s)
  BY <1>3 DEF Pending
<1>9. Creating'
  <2>1. \A i \in 1 .. Len(todo["backend"]) : todo["backend"][i].at \in Session
    BY <1>1, <1>2 DEF Types, Write
  <2>2. \A s \in Session : Beginning(s)' <=> Beginning(s)
    BY <1>4, <1>8 DEF Beginning
  <2>3. ASSUME NEW i \in 1 .. Len(todo["backend"]), todo["backend"][i].op = "lines",
               todo["backend"][i].lines \in {<<Header>>, <<Docs>>}, NEW s, s = todo["backend"][i].at
        PROVE  Beginning(s)'
    <3>1. Beginning(s) /\ s \in Session
      BY <1>1, <2>1, <2>3 DEF Creating
    <3> QED BY <2>2, <3>1
  <2> QED BY <1>3, <2>3 DEF Creating
<1>10. Locks'
  BY <1>1, <1>4, <1>8 DEF Locks
<1>11. Apart'
  <2>1. \A u \in Session : Target(u)' => u = t
    BY <1>3 DEF Target, q
  <2>2. Target(t)
    BY DEF Target
  <2>3. held[t] = "free" /\ (todo["backend"] # <<>> => Head(todo["backend"]).at # t)
    BY <1>1, <2>2 DEF Apart
  <2>4. \A u \in Session : Target(u)' =>
          held'[u] = "free" /\ (todo'["backend"] # <<>> => Head(todo'["backend"]).at # u)
    BY <1>3, <1>4, <2>1, <2>3
  <2>5. todo'["launcher"] # <<>> =>
          IF forking' = NoFork THEN file'[Head(todo'["launcher"]).at] # <<>>
          ELSE Head(todo'["launcher"]).at = forking'.to
    BY <1>3, <1>4 DEF q
  <2>6. forking' # NoFork => forking'.stage # "loaded"
    OBVIOUS
  <2> QED BY <2>4, <2>5, <2>6 DEF Apart
<1>12. BareFirst'
  BY <1>1, <1>4, <1>8 DEF BareFirst, Types
<1>13. Returns'
  BY <1>1, <1>3, <1>4 DEF Returns
<1>14. Sources'
  BY <1>1, <1>4 DEF Sources
<1> QED BY <1>5, <1>7, <1>9, <1>10, <1>11, <1>12, <1>13, <1>14 DEF Frame

\* A fork is its origin and the lines of the source that are not dropped.
LEMMA ForkOfType ==
  ASSUME NEW lines \in Seq(Line), NEW last \in SUBSET Run
  PROVE  /\ ForkOf(lines, last) \in Seq(Line) /\ Len(ForkOf(lines, last)) > 1
         /\ ForkOf(lines, last) = Origin(last) \o Without(lines, Dropped)[Len(lines)]
<1>1. ForkOf(lines, last) = Origin(last) \o Without(lines, Dropped)[Len(lines)]
  BY DEF ForkOf, Copied, Origin, Dropped
<1> DEFINE a == Origin(last)
           b == Without(lines, Dropped)[Len(lines)]
<1>2. b \in Seq(Line)
  <2>1. Len(lines) \in 0 .. Len(lines)
    OBVIOUS
  <2> QED BY <2>1, WithoutType
<1>3. a \in Seq(Line) /\ Len(a) = 2
  BY OriginLoads DEF Origin
<1> HIDE DEF a, b
<1>4. a \o b \in Seq(Line) /\ Len(a \o b) = Len(a) + Len(b) /\ Len(b) \in Nat
  <2>1. a \in Seq(Line) /\ b \in Seq(Line)
    BY <1>2, <1>3
  <2> QED BY <2>1, ConcatIs
<1> QED BY <1>1, <1>3, <1>4 DEF a, b

\* The launcher copies the source as it is then.
LEMMA CopyForkIs ==
  ASSUME Frame, CopyFork
  PROVE  /\ forking \in Fork /\ forking.stage = "loaded" /\ forking.to \in Session
         /\ file[forking.from] \in Seq(Line) /\ forking.last \in SUBSET Run
         /\ ForkOf(file[forking.from], forking.last) \in Seq(Line)
         /\ Len(ForkOf(file[forking.from], forking.last)) > 1
         /\ Plans("launcher", forking.to, ForkOf(file[forking.from], forking.last), TRUE, {}, {})
         /\ hurt' = (IF Loads(file[forking.from]) THEN hurt ELSE hurt \cup {forking.to})
         /\ forking' \in Fork /\ forking'.stage = "copied" /\ forking'.to = forking.to
         /\ file[forking.to] = <<>>
         /\ UNCHANGED <<disk, held, writing, source, done, launched>>
<1>1. Types /\ Apart
  BY DEF Frame
<1>2. forking \in Fork /\ forking.stage = "loaded"
  BY <1>1, ForkStages DEF CopyFork, Types
<1>3. /\ forking.to \in Session /\ forking.from \in Session /\ forking.last \in SUBSET Run
      /\ file[forking.from] \in Seq(Line)
  BY <1>1, <1>2 DEF Types, Fork
<1> DEFINE lines == ForkOf(file[forking.from], forking.last)
<1>4. lines \in Seq(Line) /\ Len(lines) > 1
  BY <1>3, ForkOfType
<1> HIDE DEF lines
<1>5. lines # <<>>
  BY <1>4
<1>6. Plan(Lines(forking.to, lines, TRUE), forking.to, lines, TRUE, {}, {})
  BY <1>3, <1>4, <1>5, PlanLines
<1>7. Plans("launcher", forking.to, lines, TRUE, {}, {})
  BY <1>6, DoesPlans DEF CopyFork, lines
<1>8. forking' \in Fork /\ forking'.stage = "copied" /\ forking'.to = forking.to
  BY <1>2 DEF CopyFork, Fork
<1>9. file[forking.to] = <<>>
  BY <1>1, <1>2, ForkStages DEF Apart
<1> QED BY <1>2, <1>3, <1>4, <1>7, <1>8, <1>9 DEF CopyFork, lines

\* It writes the metadata of the fork.
LEMMA DescribeForkIs ==
  ASSUME Frame, DescribeFork
  PROVE  /\ forking \in Fork /\ forking.to \in Session
         /\ Plans("launcher", forking.to, <<>>, TRUE, {{}}, {})
         /\ forking' \in Fork /\ forking'.stage = "described" /\ forking'.to = forking.to
         /\ UNCHANGED <<disk, held, writing, source, done, hurt, launched>>
<1>1. Types
  BY DEF Frame
<1>2. forking \in Fork /\ forking.to \in Session
  BY <1>1, ForkStages DEF DescribeFork, Types, Fork
<1>3. {} \in {{}} \cap SUBSET Name
  OBVIOUS
<1>4. Plan(Meta(forking.to, {}), forking.to, <<>>, TRUE, {{}}, {})
  BY <1>2, <1>3, PlanMeta
<1>5. Plans("launcher", forking.to, <<>>, TRUE, {{}}, {})
  BY <1>4, DoesPlans DEF DescribeFork
<1>6. forking' \in Fork /\ forking'.stage = "described" /\ forking'.to = forking.to
  BY <1>2 DEF DescribeFork, Fork
<1> QED BY <1>2, <1>5, <1>6 DEF DescribeFork

\* It names the fork, or gives up.
LEMMA NameForkIs ==
  ASSUME Frame, NameFork
  PROVE  /\ forking \in Fork /\ forking.to \in Session /\ forking' = NoFork
         /\ \/ /\ Plans("launcher", forking.to, <<>>, TRUE, {}, {}) /\ todo'["launcher"] = <<>>
               /\ launched' = launched
            \/ /\ \E n \in Name :
                    Plans("launcher", forking.to, <<Info(n)>>, TRUE, {{n}}, {})
               /\ Loads(file[forking.to])
               /\ launched' = launched \cup {forking.to}
         /\ UNCHANGED <<disk, held, writing, source, done, hurt>>
<1>1. Types
  BY DEF Frame
<1>2. forking \in Fork /\ forking.to \in Session /\ forking.names \subseteq Name
  BY <1>1, ForkStages DEF NameFork, Types, Fork
<1>3. CASE forking.names = {} /\ Does("launcher", <<>>)
  <2>1. Plan(<<>>, forking.to, <<>>, TRUE, {}, {})
    BY DEF Plan
  <2>2. todo'["launcher"] = <<>>
    BY <1>1, <1>3 DEF Does, Types, Process
  <2>3. Plans("launcher", forking.to, <<>>, TRUE, {}, {})
    BY <1>3, <2>1, DoesPlans
  <2> QED BY <1>2, <1>3, <2>2, <2>3 DEF NameFork
<1>4. CASE \E n \in forking.names :
             /\ Loads(file[forking.to]) /\ NameAccepted(forking.to, n)
             /\ Does("launcher", NameWrites(forking.to, n))
  <2>1. PICK n \in forking.names : Loads(file[forking.to]) /\ Does("launcher", NameWrites(forking.to, n))
    BY <1>4
  <2>2. n \in Name /\ forking.names # {}
    BY <1>2
  <2>3. <<Info(n)>> \in Seq(Line) /\ <<Info(n)>> # <<>>
    BY <2>2, LinesAre
  <2>4. Plan(Lines(forking.to, <<Info(n)>>, TRUE), forking.to, <<Info(n)>>, TRUE, {{n}}, {})
    BY <1>2, <2>3, PlanLines
  <2>5. /\ Plan(Meta(forking.to, {n}), forking.to, <<>>, TRUE, {{n}}, {})
        /\ \A i \in 1 .. Len(Meta(forking.to, {n})) : Meta(forking.to, {n})[i].op \in {"truncate", "put"}
    <3>1. {n} \in {{n}} \cap SUBSET Name
      BY <2>2
    <3> QED BY <1>2, <3>1, PlanMeta
  <2>6. \A i \in 1 .. Len(Meta(forking.to, {n})) : Meta(forking.to, {n})[i].op # "lines"
    BY <2>5
  <2>7. Plan(Lines(forking.to, <<Info(n)>>, TRUE) \o Meta(forking.to, {n}),
             forking.to, <<Info(n)>>, TRUE, {{n}}, {})
    BY <1>2, <2>4, <2>5, <2>6, PlanMore
  <2>8. Plans("launcher", forking.to, <<Info(n)>>, TRUE, {{n}}, {})
    BY <2>1, <2>7, DoesPlans DEF NameWrites
  <2> QED BY <1>2, <2>1, <2>2, <2>8 DEF NameFork
<1> QED BY <1>2, <1>3, <1>4 DEF NameFork

\* The steps of a fork keep the frame.
LEMMA LauncherFrame ==
  ASSUME Frame, CopyFork \/ DescribeFork \/ NameFork
  PROVE  Frame'
<1>1. Types /\ Locks /\ Apart
  BY DEF Frame
<1>2. NoFork \notin Fork
  BY ForkStages
<1>3. CASE CopyFork
  <2> DEFINE L == ForkOf(file[forking.from], forking.last)
             t == forking.to
  <2>1. /\ forking \in Fork /\ t \in Session /\ L \in Seq(Line) /\ Len(L) > 1
        /\ Plans("launcher", t, L, TRUE, {}, {})
        /\ hurt' = (IF Loads(file[forking.from]) THEN hurt ELSE hurt \cup {t})
        /\ forking' \in Fork /\ forking'.stage = "copied" /\ forking'.to = t
        /\ UNCHANGED <<disk, held, writing, source, done, launched>>
    BY <1>3, CopyForkIs
  <2>2. hurt \subseteq hurt' /\ hurt' \in SUBSET Session /\ launched' \in SUBSET Session
    BY <1>1, <2>1 DEF Types
  <2> HIDE DEF L, t
  <2>3. L # <<Header>>
    <3>1. Len(L) > 1 /\ Len(L) \in Nat
      BY <2>1
    <3> QED BY <3>1
  <2>4. forking # NoFork /\ forking' # NoFork /\ forking'.stage # "loaded"
    BY <1>2, <2>1
  <2> QED BY <2>1, <2>2, <2>3, <2>4, LauncherPlans DEF t
<1>4. CASE DescribeFork
  <2>1. /\ forking \in Fork /\ forking.to \in Session
        /\ Plans("launcher", forking.to, <<>>, TRUE, {{}}, {})
        /\ forking' \in Fork /\ forking'.stage = "described" /\ forking'.to = forking.to
        /\ UNCHANGED <<disk, held, writing, source, done, hurt, launched>>
    BY <1>4, DescribeForkIs
  <2>2. hurt \subseteq hurt' /\ hurt' \in SUBSET Session /\ launched' \in SUBSET Session
    BY <1>1, <2>1 DEF Types
  <2>3. <<>> # <<Header>> /\ <<>> \in Seq(Line)
    OBVIOUS
  <2>4. forking # NoFork /\ forking' # NoFork /\ forking'.stage # "loaded"
    BY <1>2, <2>1
  <2> QED BY <2>1, <2>2, <2>3, <2>4, LauncherPlans
<1>5. CASE NameFork
  <2>1. /\ forking \in Fork /\ forking.to \in Session /\ forking' = NoFork
        /\ \/ /\ Plans("launcher", forking.to, <<>>, TRUE, {}, {}) /\ todo'["launcher"] = <<>>
              /\ launched' = launched
           \/ /\ \E n \in Name :
                    Plans("launcher", forking.to, <<Info(n)>>, TRUE, {{n}}, {})
              /\ Loads(file[forking.to])
              /\ launched' = launched \cup {forking.to}
        /\ UNCHANGED <<disk, held, writing, source, done, hurt>>
    BY <1>5, NameForkIs
  <2>2. hurt \subseteq hurt' /\ hurt' \in SUBSET Session /\ launched' \in SUBSET Session
    BY <1>1, <2>1 DEF Types
  <2>3. forking # NoFork
    BY <1>2, <2>1
  <2>4. CASE Plans("launcher", forking.to, <<>>, TRUE, {}, {}) /\ todo'["launcher"] = <<>>
    <3>1. <<>> # <<Header>> /\ <<>> \in Seq(Line)
      OBVIOUS
    <3> QED BY <2>1, <2>2, <2>3, <2>4, <3>1, LauncherPlans
  <2>5. CASE /\ \E n \in Name : Plans("launcher", forking.to, <<Info(n)>>, TRUE, {{n}}, {})
             /\ Loads(file[forking.to])
    <3>1. PICK n \in Name : Plans("launcher", forking.to, <<Info(n)>>, TRUE, {{n}}, {})
      BY <2>5
    <3>2. <<Info(n)>> # <<Header>> /\ <<Info(n)>> \in Seq(Line)
      BY LinesAre, LinesDiffer
    <3>3. file[forking.to] # <<>>
      BY <2>5, LoadEmpty, BlankIs DEF Loads
    <3> HIDE DEF NoFork
    <3> QED BY <2>1, <2>2, <2>3, <3>1, <3>2, <3>3, LauncherPlans
  <2> QED BY <2>1, <2>4, <2>5
<1> QED BY <1>3, <1>4, <1>5

-----------------------------------------------------------------------------
(* Steps that plan no write.                                               *)

\* A run whose writer is closed lets go of the lock.
LEMMA AbandonFrame ==
  ASSUME Frame, NEW s \in Session, Abandon(s)
  PROVE  Frame'
<1>1. Types /\ Shape /\ Creating /\ Locks /\ Apart /\ BareFirst /\ Returns /\ Sources
  BY DEF Frame
<1>2. /\ UNCHANGED <<file, bare, synced, meta, dirty, todo, source, forking, done, launched>>
      /\ hurt' = hurt \cup {s} /\ todo["backend"] = <<>>
      /\ held' = [held EXCEPT ![s] = "free"] /\ writing' = [writing EXCEPT ![s] = {}]
      /\ writing[s] # {}
  BY DEF Abandon, disk, Free
<1>3. /\ held' \in [Session -> {"free", "run", "compaction"}] /\ writing' \in [Session -> SUBSET Writer]
      /\ held'[s] = "free" /\ writing'[s] = {} /\ source[s] = {}
      /\ \A t \in Session : t # s => held'[t] = held[t] /\ writing'[t] = writing[t]
  BY <1>1, <1>2 DEF Types, Locks
<1>4. Types'
  BY <1>1, <1>2, <1>3 DEF Types
<1>5. Shape'
  BY <1>1, <1>2 DEF Shape
<1>6. Creating' /\ Returns'
  BY <1>2 DEF Creating, Returns
<1>7. \A t \in Session : Pending("backend", t)' = Pending("backend", t)
  BY <1>2 DEF Pending
<1>8. Locks'
  BY <1>1, <1>2, <1>3, <1>7 DEF Locks
<1>9. Apart'
  BY <1>1, <1>2, <1>3 DEF Apart, Target
<1>10. BareFirst'
  BY <1>1, <1>2, <1>3, <1>7 DEF BareFirst, Types
<1>11. Sources'
  BY <1>1, <1>2 DEF Sources
<1> QED BY <1>4, <1>5, <1>6, <1>8, <1>9, <1>10, <1>11 DEF Frame

\* A compaction takes the lock.
LEMMA BeginCompactionFrame ==
  ASSUME Frame, NEW s \in Session, BeginCompaction(s)
  PROVE  Frame'
<1>1. Types /\ Shape /\ Creating /\ Locks /\ Apart /\ BareFirst /\ Returns /\ Sources
  BY DEF Frame
<1>2. /\ UNCHANGED <<file, bare, synced, meta, dirty, todo, writing, forking, done, hurt, launched>>
      /\ todo["backend"] = <<>>
      /\ held' = [held EXCEPT ![s] = "compaction"]
      /\ source' = [source EXCEPT ![s] = ToSet(Load(file[s]).runs)]
      /\ held[s] = "free" /\ Known(s)
  BY DEF BeginCompaction, disk, Free
<1>3. ~Target(s) /\ file[s] # <<>> /\ writing[s] = {}
  BY <1>1, <1>2, KnownIs DEF Locks
<1> DEFINE runs == Load(file[s]).runs
<1>4. runs \in Seq(Run)
  BY <1>1, LoadIs DEF Types, LoadState
<1>5. ToSet(runs) \in SUBSET Run
  <2> HIDE DEF runs
  <2> QED BY <1>4 DEF ToSet
<1>6. /\ held' \in [Session -> {"free", "run", "compaction"}] /\ source' \in [Session -> SUBSET Run]
      /\ held'[s] = "compaction" /\ source'[s] = ToSet(runs)
      /\ \A t \in Session : t # s => held'[t] = held[t] /\ source'[t] = source[t]
  BY <1>1, <1>2, <1>5 DEF Types
<1> HIDE DEF runs
<1>7. Types'
  BY <1>1, <1>2, <1>6 DEF Types
<1>8. Shape'
  BY <1>1, <1>2 DEF Shape
<1>9. Creating' /\ Returns'
  BY <1>2 DEF Creating, Returns
<1>10. \A t \in Session : Pending("backend", t)' = <<>>
  BY <1>2 DEF Pending
<1>11. Locks'
  BY <1>1, <1>2, <1>3, <1>6, <1>10 DEF Locks
<1>12. Apart'
  BY <1>1, <1>2, <1>3, <1>6 DEF Apart, Target
<1>13. BareFirst'
  <2>1. \A t \in Session : Pending("backend", t) = <<>>
    BY <1>2 DEF Pending
  <2> QED BY <1>1, <1>2, <1>10, <2>1 DEF BareFirst, Types
<1>14. Sources'
  <2>1. source'[s] = ToSet(Load(file'[s]).runs)
    BY <1>2, <1>6 DEF runs
  <2> QED BY <1>1, <1>2, <1>6, <2>1 DEF Sources
<1> QED BY <1>7, <1>8, <1>9, <1>11, <1>12, <1>13, <1>14 DEF Frame

\* A fork begins, or is given up.
LEMMA ForkFrame ==
  ASSUME Frame, BoundsAssumption,
         \/ GiveUpFork
         \/ \E s \in Session : \E t \in Session \ {s}, names \in {{}} \cup {{n} : n \in ForkNames} :
              BeginFork(s, t, names)
  PROVE  Frame'
<1>1. Types /\ Shape /\ Creating /\ Locks /\ Apart /\ BareFirst /\ Returns /\ Sources
  BY DEF Frame
<1>2. /\ UNCHANGED <<file, bare, synced, meta, dirty, todo, held, writing, source, done, hurt, launched>>
      /\ todo["launcher"] = <<>>
  BY DEF GiveUpFork, BeginFork, disk, memory, Free
<1>3. Shape'
  BY <1>1, <1>2 DEF Shape
<1>4. \A t \in Session : Pending("backend", t)' = Pending("backend", t)
  BY <1>2 DEF Pending
<1>5. Creating' /\ Returns'
  <2>1. \A t \in Session : Beginning(t)' <=> Beginning(t)
    BY <1>2, <1>4 DEF Beginning
  <2>2. \A i \in 1 .. Len(todo["backend"]) : todo["backend"][i].at \in Session
    BY <1>1 DEF Types, Write, Process
  <2>3. ASSUME NEW i \in 1 .. Len(todo["backend"]), todo["backend"][i].op = "lines",
               todo["backend"][i].lines \in {<<Header>>, <<Docs>>}, NEW u, u = todo["backend"][i].at
        PROVE  Beginning(u)'
    BY <1>1, <2>1, <2>2, <2>3 DEF Creating
  <2>4. Creating'
    BY <1>2, <2>3 DEF Creating
  <2> QED BY <1>1, <1>2, <2>4 DEF Returns
<1>6. Locks' /\ BareFirst' /\ Sources'
  BY <1>1, <1>2, <1>4 DEF Locks, BareFirst, Sources, Types
<1>7. CASE GiveUpFork
  <2>1. forking' = NoFork
    BY <1>7 DEF GiveUpFork
  <2>2. Types'
    BY <1>1, <1>2, <2>1 DEF Types
  <2>3. Apart'
    BY <1>1, <1>2, <2>1 DEF Apart, Target
  <2> QED BY <1>3, <1>5, <1>6, <2>2, <2>3 DEF Frame
<1>8. CASE \E s \in Session : \E t \in Session \ {s}, names \in {{}} \cup {{n} : n \in ForkNames} :
              BeginFork(s, t, names)
  <2>1. PICK s \in Session, t \in Session, names \in {{}} \cup {{n} : n \in ForkNames} :
          BeginFork(s, t, names)
    BY <1>8
  <2>2. names \in SUBSET Name
    BY DEF BoundsAssumption
  <2>3. LastRun(file[s]) \in SUBSET Run
    BY <1>1, LoadIs DEF Types
  <2>4. forking' = [stage |-> "loaded", from |-> s, to |-> t, names |-> names, last |-> LastRun(file[s])]
    BY <2>1 DEF BeginFork
  <2>5. forking' \in Fork /\ forking'.to = t
    BY <2>2, <2>3, <2>4 DEF Fork
  <2>6. Types'
    BY <1>1, <1>2, <2>5 DEF Types
  <2>7. file[t] = <<>> /\ held[t] = "free"
    BY <1>1, <2>1 DEF BeginFork, Fresh, Locks
  <2>8. todo["backend"] # <<>> => Head(todo["backend"]).at # t
    <3>1. todo["backend"] \in Seq(Write)
      BY <1>1 DEF Types, Process
    <3>2. todo["backend"] # <<>> => 1 \in DOMAIN todo["backend"] /\ Head(todo["backend"]) = todo["backend"][1]
      BY <3>1
    <3> QED BY <2>1, <3>2 DEF BeginFork
  <2>9. \A u \in Session : Target(u)' => u = t
    BY <1>2, <2>5 DEF Target
  <2>10. Apart'
    BY <1>2, <2>5, <2>7, <2>8, <2>9 DEF Apart
  <2> QED BY <1>3, <1>5, <1>6, <2>6, <2>10 DEF Frame
<1> QED BY <1>7, <1>8

-----------------------------------------------------------------------------
(* A write is performed.                                                   *)

\* What remains to be written.
LEMMA Popped ==
  ASSUME Frame, NEW p \in Process, Perform(p)
  PROVE  /\ todo[p] # <<>> /\ Head(todo[p]) \in Write /\ Head(todo[p]) = todo[p][1]
         /\ 1 \in 1 .. Len(todo[p])
         /\ todo' \in [Process -> Seq(Write)]
         /\ \A r \in Process \ {p} : todo'[r] = todo[r]
         /\ \A i \in 1 .. Len(todo'[p]) :
              /\ i + 1 \in 1 .. Len(todo[p]) /\ todo'[p][i] = todo[p][i + 1]
              /\ todo'[p][i].at = Head(todo[p]).at /\ todo'[p][i].at \in Session
         /\ todo'[p] # <<>> => Head(todo'[p]).at = Head(todo[p]).at
         /\ Shape'
         /\ \A s \in Session : Pending(p, s)' = <<>>
              \/ /\ p = "backend" /\ Pending(p, s)' = <<Docs>> /\ s = Head(todo[p]).at
                 /\ 2 \in 1 .. Len(todo[p]) /\ todo[p][2].op = "lines" /\ todo[p][2].lines = <<Docs>>
<1>1. Types /\ Shape
  BY DEF Frame
<1>2. todo[p] \in Seq(Write) /\ todo[p] # <<>> /\ todo' = [todo EXCEPT ![p] = Tail(@)]
  BY <1>1 DEF Types, Perform, Free
<1> DEFINE q == todo[p]
           l == Tail(q)
<1>3. /\ l \in Seq(Write) /\ Head(q) = q[1] /\ Head(q) \in Write /\ 1 \in 1 .. Len(q)
      /\ Len(l) = Len(q) - 1 /\ Len(q) \in Nat /\ Len(l) \in Nat
      /\ \A i \in 1 .. Len(l) : i + 1 \in 1 .. Len(q) /\ l[i] = q[i + 1]
      /\ l # <<>> => Head(l) = q[2] /\ 2 \in 1 .. Len(q)
  BY <1>2, TailIs
<1>4. /\ todo' \in [Process -> Seq(Write)] /\ todo'[p] = l
      /\ \A r \in Process \ {p} : todo'[r] = todo[r]
  BY <1>1, <1>2, <1>3 DEF Types
<1>5. /\ \A i \in 1 .. Len(q) :
           /\ q[i].at = Head(q).at
           /\ q[i].op = "lines" => q[i].lines # <<>>
           /\ q[i].op = "lines" /\ i > 1 => p = "backend" /\ q[i].lines = <<Docs>>
           /\ q[i].op = "return" => p = "backend" /\ i = Len(q)
      /\ \A i, j \in 2 .. Len(q) : q[i].op = "lines" /\ q[j].op = "lines" => i = j
  BY <1>1 DEF Shape
<1> HIDE DEF q, l
<1>6. \A i \in 1 .. Len(l) :
        /\ i + 1 \in 1 .. Len(q) /\ i + 1 > 1 /\ l[i] = q[i + 1]
        /\ l[i].at = Head(q).at /\ l[i].at \in Session
        /\ l[i].op = "lines" => p = "backend" /\ l[i].lines = <<Docs>>
        /\ l[i].op = "return" => p = "backend" /\ i = Len(l)
  <2>1. \A i \in 1 .. Len(l) : l[i] \in Write
    BY <1>3
  <2>2. \A i \in 1 .. Len(l) : l[i].at \in Session
    BY <2>1 DEF Write
  <2> QED BY <1>3, <1>5, <2>2
<1>7. l # <<>> => Head(l) = l[1] /\ 1 \in 1 .. Len(l)
  BY <1>3
<1>8. l # <<>> => Head(l).at = Head(q).at
  BY <1>6, <1>7
<1>9. \A i, j \in 2 .. Len(l) : l[i].op = "lines" /\ l[j].op = "lines" => i = j
  <2>1. ASSUME NEW i \in 2 .. Len(l), NEW j \in 2 .. Len(l), l[i].op = "lines", l[j].op = "lines"
        PROVE  i = j
    <3>1. i \in 1 .. Len(l) /\ j \in 1 .. Len(l) /\ i + 1 \in 2 .. Len(q) /\ j + 1 \in 2 .. Len(q)
      BY <1>3
    <3>2. q[i + 1].op = "lines" /\ q[j + 1].op = "lines"
      BY <1>3, <2>1, <3>1
    <3>3. i + 1 = j + 1
      BY <1>5, <3>1, <3>2
    <3> QED BY <3>1, <3>3
  <2> QED BY <2>1
<1>10. Shape'
  <2>1. ASSUME NEW i \in 1 .. Len(l)
        PROVE  /\ l[i].at = Head(l).at
               /\ l[i].op = "lines" => l[i].lines # <<>>
               /\ l[i].op = "lines" => p = "backend" /\ l[i].lines = <<Docs>>
               /\ l[i].op = "return" => p = "backend" /\ i = Len(l)
               /\ ~(l[i].op = "lines" /\ i > 1 /\ Head(l).op = "lines")
    <3>1. l # <<>>
      BY <1>3
    <3>2. l[i].at = Head(l).at
      BY <1>6, <1>8, <3>1
    <3>3. <<Docs>> # <<>>
      OBVIOUS
    <3>4. ~(l[i].op = "lines" /\ i > 1 /\ Head(l).op = "lines")
      <4>1. SUFFICES ASSUME l[i].op = "lines", i > 1, Head(l).op = "lines" PROVE FALSE
        OBVIOUS
      <4>2. i + 1 \in 2 .. Len(q) /\ 2 \in 2 .. Len(q) /\ q[i + 1].op = "lines" /\ q[2].op = "lines"
        BY <1>3, <3>1, <4>1
      <4>3. i + 1 = 2
        BY <1>5, <4>2
      <4> QED BY <4>1, <4>3
    <3>5. l[i].op = "return" => p = "backend" /\ i = Len(l)
      BY <1>6
    <3>6. l[i].op = "lines" => p = "backend" /\ l[i].lines = <<Docs>>
      BY <1>6
    <3> QED BY <3>2, <3>3, <3>4, <3>5, <3>6
  <2>2. ASSUME NEW r \in Process
        PROVE  /\ \A i \in 1 .. Len(todo'[r]) :
                    /\ todo'[r][i].at = Head(todo'[r]).at
                    /\ todo'[r][i].op = "lines" => todo'[r][i].lines # <<>>
                    /\ todo'[r][i].op = "lines" /\ i > 1 => r = "backend" /\ todo'[r][i].lines = <<Docs>>
                    /\ todo'[r][i].op = "return" => r = "backend" /\ i = Len(todo'[r])
                    /\ todo'[r][i].op = "lines" /\ i > 1 /\ Head(todo'[r]).op = "lines" =>
                         Head(todo'[r]).lines = <<Header>>
               /\ \A i, j \in 2 .. Len(todo'[r]) :
                    todo'[r][i].op = "lines" /\ todo'[r][j].op = "lines" => i = j
    <3>1. CASE r = p
      BY <1>4, <1>9, <2>1, <3>1
    <3>2. CASE r # p
      BY <1>1, <1>4, <3>2 DEF Shape
    <3> QED BY <3>1, <3>2
  <2> QED BY <2>2 DEF Shape
<1>11. ASSUME NEW s \in Session
       PROVE  Pending(p, s)' = <<>>
                \/ /\ p = "backend" /\ Pending(p, s)' = <<Docs>> /\ s = Head(q).at
                   /\ 2 \in 1 .. Len(q) /\ q[2].op = "lines" /\ q[2].lines = <<Docs>>
  <2>1. CASE l # <<>> /\ Head(l).op = "lines" /\ Head(l).at = s
    <3>1. Pending(p, s)' = Head(l).lines
      BY <1>4, <2>1 DEF Pending
    <3>2. p = "backend" /\ Head(l).lines = <<Docs>>
      BY <1>6, <1>7, <2>1
    <3> QED BY <1>3, <1>8, <2>1, <3>1, <3>2
  <2>2. CASE ~(l # <<>> /\ Head(l).op = "lines" /\ Head(l).at = s)
    BY <1>4, <2>2 DEF Pending
  <2> QED BY <2>1, <2>2
<1> QED BY <1>2, <1>3, <1>4, <1>6, <1>8, <1>10, <1>11 DEF q

\* The lines of the first write are the lines pending.
LEMMA HeadIs ==
  ASSUME Frame, NEW p \in Process, todo[p] # <<>>, NEW w, w = Head(todo[p])
  PROVE  /\ w \in Write /\ w.at \in Session
         /\ w.op \in {"lines", "truncate", "put", "return"}
         /\ w.op = "lines" => /\ Pending(p, w.at) = w.lines /\ w.lines \in Seq(Line) /\ w.lines # <<>>
                              /\ w.sync \in BOOLEAN
         /\ w.op # "lines" => Pending(p, w.at) = <<>>
         /\ w.op = "put" => w.name \in SUBSET Name
         /\ w.op = "return" => p = "backend" /\ w.runs \in SUBSET Run
         /\ \A s \in Session : s # w.at => Pending(p, s) = <<>>
         /\ p = "launcher" => /\ Target(w.at)
                              /\ todo["backend"] # <<>> => Head(todo["backend"]).at # w.at
<1>1. Types /\ Shape /\ Apart
  BY DEF Frame
<1>2. todo[p] \in Seq(Write)
  BY <1>1 DEF Types
<1>3. w \in Write /\ w = todo[p][1] /\ 1 \in 1 .. Len(todo[p])
  BY <1>2
<1>4. /\ w.at \in Session /\ w.op \in {"lines", "truncate", "put", "return"}
      /\ w.op = "lines" => w.lines \in Seq(Line) /\ w.sync \in BOOLEAN
      /\ w.op = "put" => w.name \in SUBSET Name
      /\ w.op = "return" => w.runs \in SUBSET Run
  BY <1>3 DEF Write
<1>5. (w.op = "lines" => w.lines # <<>>) /\ (w.op = "return" => p = "backend")
  BY <1>1, <1>3 DEF Shape
<1>6. p = "launcher" => Target(w.at)
  BY DEF Target
<1> QED BY <1>1, <1>3, <1>4, <1>5, <1>6 DEF Pending, Apart

\* What a file is with lines appended, its bare last line cut off before.
LEMMA AppendedIs ==
  ASSUME Frame, NEW s \in Session, NEW lines \in Seq(Line)
  PROVE  LET n == IF s \in bare /\ lines # <<>> THEN Len(file[s]) - 1 ELSE Len(file[s])
             g == Appended(s, lines)
         IN  /\ g \in Seq(Line) /\ Len(g) = n + Len(lines) /\ n \in Nat /\ n <= Len(file[s])
             /\ Len(lines) \in Nat /\ Len(file[s]) \in Nat
             /\ \A k \in 1 .. n : g[k] = file[s][k]
             /\ \A k \in 1 .. Len(lines) :
                  g[n + k] = IF s \in bare /\ k = 1 THEN Garbage ELSE lines[k]
             /\ lines # <<>> => g # <<>> /\ Len(g) >= Len(file[s])
             /\ lines = <<>> => g = file[s]
             /\ file[s] = <<>> => g = lines
<1> DEFINE f == file[s]
           g == Appended(s, lines)
<1>1. f \in Seq(Line) /\ (s \in bare => f # <<>>)
  BY DEF Frame, Types, Locks
<1>2. Len(lines) \in Nat /\ Len(f) \in Nat /\ (lines # <<>> => Len(lines) > 0)
  BY <1>1
<1>3. CASE s \in bare /\ lines # <<>>
  <2> DEFINE h == Front(f) \o <<Garbage>> \o Tail(lines)
             n == Len(f) - 1
  <2>1. g = h
    BY <1>3 DEF Appended
  <2> HIDE DEF f
  <2>2. /\ h \in Seq(Line) /\ Len(h) = n + Len(lines) /\ n \in Nat /\ n <= Len(f)
        /\ \A k \in 1 .. n : h[k] = f[k]
        /\ \A k \in 1 .. Len(lines) : h[n + k] = IF k = 1 THEN Garbage ELSE lines[k]
    BY <1>1, <1>3, SpoiledIs
  <2> HIDE DEF h, g
  <2>3. g # <<>> /\ Len(g) >= Len(f) /\ f # <<>>
    BY <1>1, <1>2, <1>3, <2>1, <2>2
  <2> QED BY <1>2, <1>3, <2>1, <2>2, <2>3 DEF f, g
<1>4. CASE ~(s \in bare /\ lines # <<>>)
  <2> DEFINE h == f \o lines
  <2>1. g = h
    BY <1>4 DEF Appended
  <2> HIDE DEF f
  <2>2. /\ h \in Seq(Line) /\ Len(h) = Len(f) + Len(lines)
        /\ \A k \in 1 .. Len(f) : h[k] = f[k]
        /\ \A k \in 1 .. Len(lines) : h[Len(f) + k] = lines[k]
        /\ (f = <<>> => h = lines) /\ (lines = <<>> => h = f)
    BY <1>1, ConcatIs
  <2> HIDE DEF h, g
  <2>3. \A k \in 1 .. Len(lines) : ~(s \in bare /\ k = 1)
    BY <1>2, <1>4
  <2>4. lines # <<>> => g # <<>> /\ Len(g) >= Len(f)
    BY <1>2, <2>1, <2>2
  <2> QED BY <1>2, <1>4, <2>1, <2>2, <2>3, <2>4 DEF f, g
<1> QED BY <1>3, <1>4

\* What the write does, by its kind.
Writes(w) ==
  \/ /\ w.op = "lines"
     /\ file' = [file EXCEPT ![w.at] = Appended(w.at, w.lines)]
     /\ bare' = bare \ {w.at}
     /\ synced' = IF w.sync THEN [synced EXCEPT ![w.at] = Len(file'[w.at])] ELSE synced
     /\ UNCHANGED <<meta, dirty, held, writing, done>>
  \/ /\ w.op = "truncate"
     /\ meta' = [meta EXCEPT ![w.at].state = "torn"]
     /\ dirty' = dirty \cup {w.at}
     /\ UNCHANGED <<file, bare, synced, held, writing, done>>
  \/ /\ w.op = "put"
     /\ meta' = [meta EXCEPT ![w.at] = [state |-> "ok", name |-> w.name]]
     /\ UNCHANGED <<file, bare, synced, dirty, held, writing, done>>
  \/ /\ w.op = "return"
     /\ held' = [held EXCEPT ![w.at] = "free"]
     /\ writing' = [writing EXCEPT ![w.at] = {}]
     /\ done' = [done EXCEPT ![w.at] = @ \cup w.runs]
     /\ UNCHANGED disk

\* A write is performed, and nothing else.
LEMMA PerformIs ==
  ASSUME NEW p \in Process, Perform(p)
  PROVE  Writes(Head(todo[p])) /\ UNCHANGED <<source, forking, hurt, faults, launched>>
BY DEF Perform, Writes

\* A session that the write is not to.
Untouched(s) ==
  /\ file'[s] = file[s] /\ held'[s] = held[s] /\ writing'[s] = writing[s] /\ done'[s] = done[s]
  /\ synced'[s] = synced[s] /\ meta'[s] = meta[s]
  /\ s \in bare' <=> s \in bare

\* The files and the lock table after a write.
Performed(w) ==
  /\ w.at \in Session
  /\ \A s \in Session : s # w.at => Untouched(s)
  /\ file'[w.at] = IF w.op = "lines" THEN Appended(w.at, w.lines) ELSE file[w.at]
  /\ IF w.op = "lines" THEN w.at \notin bare' ELSE bare' = bare
  /\ synced'[w.at] = IF w.op = "lines" /\ w.sync THEN Len(file'[w.at]) ELSE synced[w.at]
  /\ held'[w.at] = IF w.op = "return" THEN "free" ELSE held[w.at]
  /\ writing'[w.at] = IF w.op = "return" THEN {} ELSE writing[w.at]
  /\ done'[w.at] = IF w.op = "return" THEN done[w.at] \cup w.runs ELSE done[w.at]
  /\ meta'[w.at].name = IF w.op = "put" THEN w.name ELSE meta[w.at].name
  /\ bare' \subseteq bare
  /\ \A s \in Session : file[s] # <<>> => file'[s] # <<>>
  /\ \A s \in Session : Len(file'[s]) >= Len(file[s])

\* What a performed write leaves.
LEMMA WritesState ==
  ASSUME Frame, NEW p \in Process, Perform(p), NEW w, w = Head(todo[p])
  PROVE  Types' /\ Performed(w)
<1>1. Types
  BY DEF Frame
<1>2. Writes(w) /\ UNCHANGED <<source, forking, hurt, faults, launched>>
  BY PerformIs
<1>3. todo[p] # <<>> /\ todo' \in [Process -> Seq(Write)]
  BY Popped
<1>4. /\ w \in Write /\ w.at \in Session
      /\ w.op = "lines" => w.lines \in Seq(Line) /\ w.lines # <<>> /\ w.sync \in BOOLEAN
      /\ w.op = "put" => w.name \in SUBSET Name
      /\ w.op = "return" => w.runs \in SUBSET Run
  BY <1>3, HeadIs
<1> DEFINE s == w.at
           g == Appended(s, w.lines)
<1>5. CASE w.op = "lines"
  <2>1. /\ file' = [file EXCEPT ![s] = g]
        /\ bare' = bare \ {s}
        /\ synced' = IF w.sync THEN [synced EXCEPT ![s] = Len(file'[s])] ELSE synced
        /\ UNCHANGED <<meta, dirty, held, writing, done>>
    BY <1>2, <1>5 DEF Writes
  <2>2. g \in Seq(Line) /\ g # <<>> /\ Len(g) >= Len(file[s])
    BY <1>4, <1>5, AppendedIs
  <2> HIDE DEF g
  <2>3. /\ file' \in [Session -> Seq(Line)] /\ file'[s] = g /\ Len(g) \in Nat
        /\ \A t \in Session : t # s => file'[t] = file[t]
    BY <1>1, <1>4, <2>1, <2>2 DEF Types
  <2>4. /\ synced' \in [Session -> Nat] /\ synced'[s] = (IF w.sync THEN Len(file'[s]) ELSE synced[s])
        /\ \A t \in Session : t # s => synced'[t] = synced[t]
    BY <1>1, <1>4, <2>1, <2>3 DEF Types
  <2>5. \A t \in Session : synced'[t] <= Len(file'[t])
    <3>1. synced'[s] <= Len(file'[s])
      <4>1. synced[s] \in Nat /\ synced[s] <= Len(file[s]) /\ Len(file[s]) \in Nat
        BY <1>1, <1>4 DEF Types
      <4> QED BY <2>2, <2>3, <2>4, <4>1
    <3> QED BY <1>1, <2>3, <2>4, <3>1 DEF Types
  <2>6. \A t \in Session : Len(file[t]) \in Nat
    BY <1>1 DEF Types
  <2>7. Types'
    BY <1>1, <1>2, <1>3, <2>1, <2>3, <2>4, <2>5 DEF Types
  <2>8. \A t \in Session : t # s => Len(file'[t]) >= Len(file[t])
    BY <2>3, <2>6
  <2>9. /\ (\A t \in Session : file[t] # <<>> => file'[t] # <<>>)
        /\ \A t \in Session : Len(file'[t]) >= Len(file[t])
    BY <2>2, <2>3, <2>8
  <2> QED BY <1>4, <1>5, <2>1, <2>3, <2>4, <2>7, <2>9 DEF g, Performed, Untouched
<1>6. CASE w.op = "truncate"
  <2>1. /\ meta' = [meta EXCEPT ![s].state = "torn"]
        /\ dirty' = dirty \cup {s}
        /\ UNCHANGED <<file, bare, synced, held, writing, done>>
    BY <1>2, <1>6 DEF Writes
  <2>2. meta'[s].name = meta[s].name /\ meta' \in [Session -> [state : {"absent", "torn", "ok"}, name : SUBSET Name]]
        /\ \A t \in Session : t # s => meta'[t] = meta[t]
    BY ZenonT(60), <1>1, <1>4, <2>1 DEF Types
  <2>3. Types'
    BY <1>1, <1>2, <1>3, <1>4, <2>1, <2>2 DEF Types
  <2>4. \A t \in Session : Len(file[t]) \in Nat
    BY <1>1 DEF Types
  <2> QED BY <1>4, <1>6, <2>1, <2>2, <2>3, <2>4 DEF Performed, Untouched
<1>7. CASE w.op = "put"
  <2>1. /\ meta' = [meta EXCEPT ![s] = [state |-> "ok", name |-> w.name]]
        /\ UNCHANGED <<file, bare, synced, dirty, held, writing, done>>
    BY <1>2, <1>7 DEF Writes
  <2>2. meta'[s].name = w.name /\ meta' \in [Session -> [state : {"absent", "torn", "ok"}, name : SUBSET Name]]
        /\ \A t \in Session : t # s => meta'[t] = meta[t]
    BY <1>1, <1>4, <1>7, <2>1 DEF Types
  <2>3. Types'
    BY <1>1, <1>2, <1>3, <1>4, <2>1, <2>2 DEF Types
  <2>4. \A t \in Session : Len(file[t]) \in Nat
    BY <1>1 DEF Types
  <2> QED BY <1>4, <1>7, <2>1, <2>2, <2>3, <2>4 DEF Performed, Untouched
<1>8. CASE w.op = "return"
  <2>1. /\ held' = [held EXCEPT ![s] = "free"]
        /\ writing' = [writing EXCEPT ![s] = {}]
        /\ done' = [done EXCEPT ![s] = @ \cup w.runs]
        /\ UNCHANGED <<file, bare, synced, meta, dirty>>
    BY <1>2, <1>8 DEF Writes, disk
  <2>2. /\ held' \in [Session -> {"free", "run", "compaction"}] /\ writing' \in [Session -> SUBSET Writer]
        /\ done' \in [Session -> SUBSET Run]
        /\ held'[s] = "free" /\ writing'[s] = {} /\ done'[s] = done[s] \cup w.runs
        /\ \A t \in Session : t # s => held'[t] = held[t] /\ writing'[t] = writing[t] /\ done'[t] = done[t]
    BY <1>1, <1>4, <1>8, <2>1 DEF Types
  <2>3. Types'
    BY <1>1, <1>2, <1>3, <1>4, <2>1, <2>2 DEF Types
  <2>4. \A t \in Session : Len(file[t]) \in Nat
    BY <1>1 DEF Types
  <2> QED BY <1>4, <1>8, <2>1, <2>2, <2>3, <2>4 DEF Performed, Untouched
<1> QED BY <1>2, <1>5, <1>6, <1>7, <1>8 DEF Writes

\* Parts of it.
LEMMA PerformedIs ==
  ASSUME NEW w, Performed(w)
  PROVE  /\ w.at \in Session
         /\ \A s \in Session : s # w.at => /\ file'[s] = file[s] /\ held'[s] = held[s]
                                          /\ writing'[s] = writing[s] /\ done'[s] = done[s]
         /\ \A s \in Session : s # w.at => synced'[s] = synced[s] /\ meta'[s] = meta[s]
         /\ \A s \in Session : s # w.at => (s \in bare' <=> s \in bare)
<1>1. w.at \in Session
  BY DEF Performed
<1>2. \A s \in Session : s # w.at => Untouched(s)
  BY Zenon DEF Performed
<1> QED BY <1>1, <1>2 DEF Untouched

\* A write keeps the frame.
LEMMA PerformFrame ==
  ASSUME Frame, NEW p \in Process, Perform(p)
  PROVE  Frame'
<1> SUFFICES ASSUME NEW w, w = Head(todo[p]), NEW s, s = w.at PROVE Frame'
  OBVIOUS
<1>1. Types /\ Shape /\ Creating /\ Locks /\ Apart /\ BareFirst /\ Returns /\ Sources
  BY DEF Frame
<1>2. p = "backend" \/ p = "launcher"
  BY DEF Process
<1>3. UNCHANGED <<source, forking, hurt, launched>>
  BY PerformIs
<1>4. /\ todo[p] # <<>> /\ w = todo[p][1] /\ 1 \in 1 .. Len(todo[p])
      /\ todo' \in [Process -> Seq(Write)]
      /\ \A r \in Process \ {p} : todo'[r] = todo[r]
      /\ \A i \in 1 .. Len(todo'[p]) :
           /\ i + 1 \in 1 .. Len(todo[p]) /\ todo'[p][i] = todo[p][i + 1]
           /\ todo'[p][i].at = s
      /\ todo'[p] # <<>> => Head(todo'[p]).at = s
      /\ Shape'
  BY Popped
<1>5. \A t \in Session : \/ Pending(p, t)' = <<>>
                         \/ /\ p = "backend" /\ Pending(p, t)' = <<Docs>> /\ t = s
                            /\ 2 \in 1 .. Len(todo[p]) /\ todo[p][2].op = "lines" /\ todo[p][2].lines = <<Docs>>
  BY Popped
<1>6. /\ s \in Session /\ w.op \in {"lines", "truncate", "put", "return"}
      /\ w.op = "lines" => Pending(p, s) = w.lines /\ w.lines \in Seq(Line) /\ w.lines # <<>>
      /\ w.op # "lines" => Pending(p, s) = <<>>
      /\ w.op = "return" => p = "backend"
      /\ \A t \in Session : t # s => Pending(p, t) = <<>>
      /\ p = "launcher" => /\ Target(s)
                           /\ todo["backend"] # <<>> => Head(todo["backend"]).at # s
  BY <1>4, HeadIs
<1>7. /\ Types'
      /\ \A t \in Session : t # s => /\ file'[t] = file[t] /\ held'[t] = held[t]
                                     /\ writing'[t] = writing[t] /\ (t \in bare' <=> t \in bare)
      /\ file'[s] = (IF w.op = "lines" THEN Appended(s, w.lines) ELSE file[s])
      /\ (IF w.op = "lines" THEN s \notin bare' ELSE bare' = bare)
      /\ held'[s] = (IF w.op = "return" THEN "free" ELSE held[s])
      /\ writing'[s] = (IF w.op = "return" THEN {} ELSE writing[s])
      /\ bare' \subseteq bare
      /\ \A t \in Session : file[t] # <<>> => file'[t] # <<>>
  <2>1. Types' /\ Performed(w)
    BY WritesState
  <2>2. \A t \in Session : t # w.at => /\ file'[t] = file[t] /\ held'[t] = held[t]
                                       /\ writing'[t] = writing[t] /\ (t \in bare' <=> t \in bare)
    BY <2>1, PerformedIs
  <2>3. /\ file'[w.at] = (IF w.op = "lines" THEN Appended(w.at, w.lines) ELSE file[w.at])
        /\ (IF w.op = "lines" THEN w.at \notin bare' ELSE bare' = bare)
        /\ held'[w.at] = (IF w.op = "return" THEN "free" ELSE held[w.at])
        /\ writing'[w.at] = (IF w.op = "return" THEN {} ELSE writing[w.at])
    BY <2>1, Zenon DEF Performed
  <2>4. bare' \subseteq bare /\ \A t \in Session : file[t] # <<>> => file'[t] # <<>>
    BY <2>1 DEF Performed
  <2> QED BY <2>1, <2>2, <2>3, <2>4
<1>8. p # "backend" => \A t \in Session : Pending("backend", t)' = Pending("backend", t)
  BY <1>4 DEF Pending, Process
<1>9. ~(<<Docs>> = <<Header>>) /\ <<Docs>> # <<>> /\ <<Header>> # <<>>
  <2>1. Docs # Header
    BY DEF Docs, Header
  <2> QED BY <2>1
\* The docs follow only in a new session.
<1>10. ASSUME p = "backend", 2 \in 1 .. Len(todo[p]), todo[p][2].op = "lines"
       PROVE  /\ Beginning(s) /\ held[s] = "free"
              /\ w.op = "lines" => w.lines = <<Header>> /\ file[s] = <<>>
              /\ w.op # "lines" => file[s] = <<Header>>
  <2>1. todo[p][2].lines = <<Docs>> /\ todo[p][2].at = s
    BY <1>1, <1>10 DEF Shape
  <2>2. Beginning(s)
    BY <1>1, <1>10, <2>1 DEF Creating
  <2>3. w.op = "lines" => w.lines = <<Header>>
    BY <1>1, <1>4, <1>10 DEF Shape
  <2> QED BY <1>6, <1>9, <1>10, <2>2, <2>3 DEF Beginning
<1>11. Creating'
  <2>1. CASE p = "backend"
    <3>1. ASSUME NEW i \in 1 .. Len(todo'[p]), todo'[p][i].op = "lines"
          PROVE  todo'[p][i].at = s /\ Beginning(s)'
      <4>1. i + 1 \in 1 .. Len(todo[p]) /\ i + 1 > 1 /\ todo[p][i + 1].op = "lines" /\ todo[p][i + 1].at = s
            /\ todo[p][i + 1].lines = <<Docs>>
        <5>1. i + 1 > 1 /\ i + 1 \in 1 .. Len(todo[p]) /\ todo'[p][i] = todo[p][i + 1] /\ todo'[p][i].at = s
          BY <1>4
        <5> QED BY <1>1, <3>1, <5>1 DEF Shape
      <4>2. Beginning(s)
        BY <1>1, <2>1, <4>1 DEF Creating
      <4>3. w.op = "lines" => w.lines = <<Header>>
        BY <1>1, <4>1 DEF Shape
      <4>4. Pending("backend", s)' # <<Header>>
        BY <1>5, <1>6, <1>9, <2>1
      <4>5. CASE w.op = "lines"
        <5>1. file[s] = <<>> /\ held[s] = "free"
          BY <1>6, <2>1, <4>2, <4>3, <4>5 DEF Beginning
        <5>2. file'[s] = <<Header>>
          BY ZenonT(60), <1>6, <1>7, <4>3, <4>5, <5>1, AppendedIs
        <5> QED BY <1>4, <1>7, <4>4, <4>5, <5>1, <5>2 DEF Beginning
      <4>6. CASE w.op # "lines"
        <5>1. file[s] = <<Header>> /\ held[s] = "free" /\ s \notin bare
          BY <1>6, <1>9, <2>1, <4>2, <4>6 DEF Beginning
        <5> QED BY <1>4, <1>7, <4>4, <4>6, <5>1 DEF Beginning
      <4> QED BY <4>5, <4>6
    <3> QED BY <2>1, <3>1 DEF Creating
  <2>2. CASE p = "launcher"
    <3>1. todo'["backend"] = todo["backend"]
      BY <1>4, <2>2 DEF Process
    <3>2. ASSUME NEW i \in 1 .. Len(todo["backend"]), todo["backend"][i].op = "lines",
                 todo["backend"][i].lines \in {<<Header>>, <<Docs>>}, NEW t, t = todo["backend"][i].at
          PROVE  Beginning(t)'
      <4>1. todo["backend"] \in Seq(Write)
        BY <1>1 DEF Types, Process
      <4>2. todo["backend"] # <<>> /\ todo["backend"][i] \in Write
        BY <4>1
      <4>3. t = Head(todo["backend"]).at /\ t \in Session
        BY <1>1, <3>2, <4>2 DEF Shape, Process, Write
      <4>4. t # s
        BY <1>6, <2>2, <4>2, <4>3
      <4>5. Beginning(t)
        BY <1>1, <3>2 DEF Creating
      <4> QED BY <1>7, <1>8, <2>2, <4>3, <4>4, <4>5 DEF Beginning
    <3> QED BY <3>1, <3>2 DEF Creating
  <2> QED BY <1>2, <2>1, <2>2
<1>12. Locks'
  <2>1. ASSUME NEW t \in Session
        PROVE  /\ writing'[t] # {} <=> held'[t] = "run"
               /\ \A u, v \in writing'[t] : u = v
               /\ source'[t] # {} => held'[t] = "compaction" /\ Pending("backend", t)' = <<>>
               /\ held'[t] # "free" => file'[t] # <<>>
               /\ t \in bare' => file'[t] # <<>>
    <3>1. \/ held'[t] = held[t] /\ writing'[t] = writing[t]
          \/ held'[t] = "free" /\ writing'[t] = {} /\ t = s /\ w.op = "return"
      BY <1>7
    <3>2. source[t] # {} => ~(t = s /\ w.op = "return")
      <4>1. w.op = "return" => source[s] = {}
        BY <1>1, <1>4, <1>6 DEF Returns
      <4> QED BY <4>1
    <3>3. source[t] # {} => Pending("backend", t)' = <<>>
      <4>1. CASE p = "backend"
        <5>1. source[t] # {} => held[t] # "free"
          BY <1>1 DEF Locks
        <5> QED BY <1>5, <1>10, <4>1, <5>1
      <4>2. CASE p = "launcher"
        BY <1>1, <1>8, <4>2 DEF Locks
      <4> QED BY <1>2, <4>1, <4>2
    <3> QED BY <1>1, <1>3, <1>7, <3>1, <3>2, <3>3 DEF Locks
  <2>2. bare' \subseteq hurt'
    BY <1>1, <1>3, <1>7 DEF Locks
  <2>3. bare' \subseteq Session
    BY <1>7 DEF Types
  <2> QED BY <2>1, <2>2, <2>3 DEF Locks
<1>13. /\ todo'["launcher"] # <<>> => todo["launcher"] # <<>> /\ Head(todo'["launcher"]).at = Head(todo["launcher"]).at
       /\ todo'["backend"] # <<>> => todo["backend"] # <<>> /\ Head(todo'["backend"]).at = Head(todo["backend"]).at
  <2>1. CASE p = "backend"
    BY <1>4, <2>1 DEF Process
  <2>2. CASE p = "launcher"
    BY <1>4, <2>2 DEF Process
  <2> QED BY <1>2, <2>1, <2>2
<1>14. Apart'
  <2>1. ASSUME NEW t \in Session, Target(t)'
        PROVE  held'[t] = "free" /\ (todo'["backend"] # <<>> => Head(todo'["backend"]).at # t)
    <3>1. Target(t)
      BY <1>3, <1>13, <2>1 DEF Target
    <3>2. held[t] = "free" /\ (todo["backend"] # <<>> => Head(todo["backend"]).at # t)
      BY <1>1, <3>1 DEF Apart
    <3> QED BY <1>7, <1>13, <3>2
  <2>2. ASSUME todo'["launcher"] # <<>>
        PROVE  IF forking' = NoFork THEN file'[Head(todo'["launcher"]).at] # <<>>
               ELSE Head(todo'["launcher"]).at = forking'.to
    <3>1. IF forking = NoFork THEN file[Head(todo["launcher"]).at] # <<>>
          ELSE Head(todo["launcher"]).at = forking.to
      BY <1>1, <1>13, <2>2 DEF Apart
    <3>2. Head(todo["launcher"]).at \in Session
      <4>1. todo["launcher"] \in Seq(Write) /\ todo["launcher"] # <<>>
        BY <1>1, <1>13, <2>2 DEF Types, Process
      <4>2. Head(todo["launcher"]) \in Write
        BY <4>1
      <4> QED BY <4>2 DEF Write
    <3> QED BY <1>3, <1>7, <1>13, <2>2, <3>1, <3>2
  <2>3. ASSUME forking' # NoFork, forking'.stage = "loaded"
        PROVE  todo'["launcher"] = <<>> /\ file'[forking'.to] = <<>>
    <3>1. todo["launcher"] = <<>> /\ file[forking.to] = <<>> /\ Target(forking.to) /\ forking.to \in Session
      BY <1>1, <1>3, <2>3 DEF Apart, Target, Types, Fork
    <3>2. p = "backend"
      BY <1>2, <1>4, <3>1
    <3>3. s # forking.to
      BY <1>1, <1>4, <3>1, <3>2 DEF Apart
    <3> QED BY <1>3, <1>7, <1>13, <3>1, <3>3
  <2> QED BY <2>1, <2>2, <2>3 DEF Apart
<1>15. BareFirst'
  <2>1. ASSUME NEW t \in bare', NEW v \in writing'[t]
        PROVE  Pending("backend", t)' = <<Of("run", v.run)>>
    <3>1. t \in Session /\ t \in bare /\ v \in writing[t]
      BY <1>7, <2>1 DEF Types
    <3>2. Pending("backend", t) = <<Of("run", v.run)>>
      BY <1>1, <3>1 DEF BareFirst
    <3>3. p # "backend"
      <4>1. ASSUME p = "backend" PROVE FALSE
        <5>1. t = s /\ w.op = "lines"
          BY <1>6, <3>1, <3>2, <4>1
        <5> QED BY <1>7, <2>1, <5>1
      <4> QED BY <4>1
    <3> QED BY <1>8, <3>1, <3>2, <3>3
  <2> QED BY <2>1 DEF BareFirst
<1>16. Returns'
  <2>1. ASSUME NEW i \in 1 .. Len(todo'["backend"]), NEW u, u = todo'["backend"][i], u.op = "return"
        PROVE  /\ held'[u.at] # "free" /\ source'[u.at] = {}
               /\ u.runs # {} => \E v \in writing'[u.at] : v.ended /\ u.runs = {v.run}
               /\ u.runs = {} => writing'[u.at] = {}
    <3>1. PICK j \in 1 .. Len(todo["backend"]) : todo["backend"][j] = u
      BY <1>2, <1>4, <2>1 DEF Process
    <3>2. /\ held[u.at] # "free" /\ source[u.at] = {}
          /\ u.runs # {} => \E v \in writing[u.at] : v.ended /\ u.runs = {v.run}
          /\ u.runs = {} => writing[u.at] = {}
      BY <1>1, <2>1, <3>1 DEF Returns
    <3>3. u.at \in Session
      <4>1. u \in Write
        BY <1>1, <3>1 DEF Types, Process
      <4> QED BY <4>1 DEF Write
    <3>4. ~(u.at = s /\ w.op = "return")
      <4>1. ASSUME w.op = "return" PROVE FALSE
        <5>1. p = "backend" /\ Len(todo[p]) = 1
          BY <1>1, <1>4, <1>6, <4>1 DEF Shape
        <5>2. i + 1 \in 1 .. 1 /\ i \in Nat /\ i >= 1
          BY <1>4, <2>1, <5>1
        <5> QED BY <5>2
      <4> QED BY <4>1
    <3>5. held'[u.at] = held[u.at] /\ writing'[u.at] = writing[u.at]
      BY <1>7, <3>3, <3>4
    <3> QED BY <1>3, <3>2, <3>5
  <2> QED BY <2>1 DEF Returns
<1>17. Sources'
  <2>1. ASSUME NEW t \in Session, source[t] # {} PROVE file'[t] = file[t]
    <3>1. held[t] # "free" /\ Pending("backend", t) = <<>>
      BY <1>1, <2>1 DEF Locks
    <3>2. t = s => w.op # "lines"
      <4>1. CASE p = "backend"
        BY <1>6, <3>1, <4>1
      <4>2. CASE p = "launcher"
        <5>1. held[s] = "free"
          BY <1>1, <1>6, <4>2 DEF Apart
        <5> QED BY <3>1, <5>1
      <4> QED BY <1>2, <4>1, <4>2
    <3> QED BY <1>7, <3>2
  <2> QED BY <1>1, <1>3, <2>1 DEF Sources
<1> QED BY <1>4, <1>7, <1>11, <1>12, <1>14, <1>15, <1>16, <1>17 DEF Frame

-----------------------------------------------------------------------------
(* Faults.                                                                 *)

\* The first lines of a write that a death leaves in the file.
Torn(w) ==
  \E k \in DOMAIN w.lines :
    /\ file' = [file EXCEPT ![w.at] = Appended(w.at, SubSeq(w.lines, 1, k))]
    /\ bare' \in {bare \ {w.at}, bare \cup {w.at}}

\* The files after a death: at most one write has torn an end.
LEMMA DieState ==
  ASSUME Frame, NEW p \in Process, Die(p)
  PROVE  /\ Types' /\ UNCHANGED <<synced, meta, dirty, done, launched>>
         /\ todo'[p] = <<>> /\ \A r \in Process \ {p} : todo'[r] = todo[r]
         /\ bare' \subseteq hurt' /\ hurt \subseteq hurt'
         /\ \/ UNCHANGED <<file, bare>>
            \/ /\ todo[p] # <<>> /\ Head(todo[p]).op = "lines" /\ Head(todo[p]).at \in Session
               /\ Torn(Head(todo[p]))
               /\ Head(todo[p]).lines \in Seq(Line)
               /\ file'[Head(todo[p]).at] # <<>>
               /\ \A s \in Session : s # Head(todo[p]).at =>
                    file'[s] = file[s] /\ (s \in bare' <=> s \in bare)
         /\ \A s \in Session : file[s] # <<>> => file'[s] # <<>>
         /\ \A s \in Session : Len(file'[s]) >= Len(file[s])
<1>1. Types
  BY DEF Frame
<1>2. /\ todo' = [todo EXCEPT ![p] = <<>>]
      /\ UNCHANGED <<synced, meta, dirty, done, launched>>
      /\ IF p = "backend"
         THEN /\ held' = [s \in Session |-> "free"]
              /\ writing' = [s \in Session |-> {}]
              /\ source' = [s \in Session |-> {}]
              /\ hurt' = hurt \cup bare' \cup {s \in Session : writing[s] # {}}
              /\ UNCHANGED forking
         ELSE /\ forking' = NoFork
              /\ hurt' = hurt \cup bare' \cup (IF forking.stage = "none" THEN {} ELSE {forking.to})
              /\ UNCHANGED <<held, writing, source>>
  BY DEF Die
<1>3. /\ todo' \in [Process -> Seq(Write)] /\ todo'[p] = <<>>
      /\ \A r \in Process \ {p} : todo'[r] = todo[r]
  BY <1>1, <1>2 DEF Types
<1>4. forking.stage # "none" => forking.to \in Session
  BY <1>1, ForkStages DEF Types, Fork
<1>5. /\ held' \in [Session -> {"free", "run", "compaction"}]
      /\ writing' \in [Session -> SUBSET Writer] /\ source' \in [Session -> SUBSET Run]
      /\ forking' = NoFork \/ forking' \in Fork
  BY <1>1, <1>2 DEF Types
<1>6. bare' \in SUBSET Session => hurt' \in SUBSET Session
  <2>1. CASE p = "backend"
    BY <1>1, <1>2, <2>1 DEF Types
  <2>2. CASE p # "backend"
    BY <1>1, <1>2, <1>4, <2>2 DEF Types
  <2> QED BY <2>1, <2>2
<1>7. ASSUME /\ file' \in [Session -> Seq(Line)] /\ bare' \in SUBSET Session
             /\ \A s \in Session : synced[s] <= Len(file'[s])
      PROVE  Types'
  BY <1>1, <1>2, <1>3, <1>5, <1>6, <1>7 DEF Types
<1>8. bare' \subseteq hurt' /\ hurt \subseteq hurt'
  BY <1>2
<1>9. CASE UNCHANGED <<file, bare>>
  <2>1. Types'
    BY <1>1, <1>7, <1>9 DEF Types
  <2>2. \A s \in Session : Len(file[s]) \in Nat
    BY <1>1 DEF Types
  <2> QED BY <1>2, <1>3, <1>8, <1>9, <2>1, <2>2
<1>10. CASE ~UNCHANGED <<file, bare>>
  <2> DEFINE w == Head(todo[p])
  <2>1. /\ todo[p] # <<>> /\ w.op = "lines"
        /\ \E k \in DOMAIN w.lines, whole \in BOOLEAN :
             /\ file' = [file EXCEPT ![w.at] = Appended(w.at, SubSeq(w.lines, 1, k))]
             /\ bare' = IF whole THEN bare \ {w.at} ELSE bare \cup {w.at}
    BY <1>10 DEF Die, Free
  <2>2. w.at \in Session /\ w.lines \in Seq(Line)
    BY <2>1, HeadIs
  <2> HIDE DEF w
  <2>3. PICK k \in DOMAIN w.lines :
          /\ file' = [file EXCEPT ![w.at] = Appended(w.at, SubSeq(w.lines, 1, k))]
          /\ bare' \in {bare \ {w.at}, bare \cup {w.at}}
    BY <2>1
  <2> DEFINE l == SubSeq(w.lines, 1, k)
             g == Appended(w.at, l)
  <2>4. k \in 1 .. Len(w.lines) /\ k \in 0 .. Len(w.lines) /\ Len(w.lines) \in Nat
    BY <2>2
  <2>5. l \in Seq(Line) /\ Len(l) = k
    BY <2>2, <2>4, FirstIs
  <2>6. l # <<>>
    BY <2>4, <2>5
  <2> HIDE DEF l
  <2>7. g \in Seq(Line) /\ g # <<>> /\ Len(g) >= Len(file[w.at])
    BY <2>2, <2>5, <2>6, AppendedIs
  <2>8. file' = [file EXCEPT ![w.at] = g]
    BY <2>3 DEF l
  <2> HIDE DEF g
  <2>9. /\ file' \in [Session -> Seq(Line)] /\ file'[w.at] = g /\ Len(g) \in Nat
        /\ \A s \in Session : s # w.at => file'[s] = file[s]
        /\ \A s \in Session : Len(file[s]) \in Nat
    BY <1>1, <2>2, <2>7, <2>8 DEF Types
  <2>10. \A s \in Session : Len(file'[s]) >= Len(file[s]) /\ (file[s] # <<>> => file'[s] # <<>>)
    BY <2>7, <2>9
  <2>11. \A s \in Session : synced[s] <= Len(file'[s])
    <3>1. \A s \in Session : synced[s] \in Nat /\ synced[s] <= Len(file[s]) /\ Len(file'[s]) \in Nat
      BY <1>1, <2>9 DEF Types
    <3> QED BY <2>9, <2>10, <3>1
  <2>12. bare' \in SUBSET Session
    BY <1>1, <2>2, <2>3 DEF Types
  <2>13. \A s \in Session : s # w.at => (s \in bare' <=> s \in bare)
    BY <2>3
  <2>14. Types'
    BY <1>7, <2>9, <2>11, <2>12
  <2>15. Torn(w)
    BY <2>3 DEF Torn
  <2> QED BY <1>2, <1>3, <1>8, <2>1, <2>2, <2>7, <2>9, <2>10, <2>13, <2>14, <2>15 DEF w
<1> QED BY <1>9, <1>10

\* A death, with a part of what was to be written, keeps it.
LEMMA DieFrame ==
  ASSUME Frame, NEW p \in Process, Die(p)
  PROVE  Frame'
<1>1. Types /\ Shape /\ Creating /\ Locks /\ Apart /\ BareFirst /\ Returns /\ Sources
  BY DEF Frame
<1>2. /\ Types' /\ todo'[p] = <<>> /\ \A r \in Process \ {p} : todo'[r] = todo[r]
      /\ bare' \subseteq hurt'
      /\ \A s \in Session : file[s] # <<>> => file'[s] # <<>>
  BY DieState
<1>3. \/ UNCHANGED <<file, bare>>
      \/ /\ todo[p] # <<>> /\ Head(todo[p]).at \in Session
         /\ file'[Head(todo[p]).at] # <<>>
         /\ \A s \in Session : s # Head(todo[p]).at =>
              file'[s] = file[s] /\ (s \in bare' <=> s \in bare)
  BY DieState
<1>4. \A s \in Session : ~(todo[p] # <<>> /\ Head(todo[p]).at = s) =>
        file'[s] = file[s] /\ (s \in bare' <=> s \in bare)
  BY <1>3
<1>5. bare' \subseteq Session /\ \A s \in bare' : file'[s] # <<>>
  BY <1>1, <1>2, <1>3 DEF Locks, Types
<1>6. Shape'
  <2>1. Len(<<>>) = 0
    OBVIOUS
  <2> QED BY <1>1, <1>2, <2>1 DEF Shape
<1>7. CASE p = "backend"
  <2>1. /\ \A s \in Session : held'[s] = "free" /\ writing'[s] = {} /\ source'[s] = {}
        /\ forking' = forking
        /\ todo'["backend"] = <<>> /\ todo'["launcher"] = todo["launcher"]
    BY <1>2, <1>7 DEF Die, Process
  <2>2. Creating' /\ Returns'
    <3>1. Len(<<>>) = 0
      OBVIOUS
    <3> QED BY <2>1, <3>1 DEF Creating, Returns
  <2>3. Locks'
    BY <1>2, <1>5, <2>1 DEF Locks
  <2>4. Apart'
    <3>1. ASSUME forking # NoFork, forking.stage = "loaded" PROVE file'[forking.to] = <<>>
      <4>1. file[forking.to] = <<>> /\ Target(forking.to) /\ forking.to \in Session
        BY <1>1, <3>1 DEF Apart, Target, Types, Fork
      <4> QED BY <1>1, <1>4, <1>7, <4>1 DEF Apart
    <3>2. todo["launcher"] # <<>> => Head(todo["launcher"]).at \in Session
      <4>1. todo["launcher"] \in Seq(Write)
        BY <1>1 DEF Types, Process
      <4>2. todo["launcher"] # <<>> => Head(todo["launcher"]) \in Write
        BY <4>1
      <4> QED BY <4>2 DEF Write
    <3> QED BY <1>1, <1>2, <2>1, <3>1, <3>2 DEF Apart
  <2>5. BareFirst' /\ Sources'
    BY <1>5, <2>1 DEF BareFirst, Sources
  <2> QED BY <1>2, <1>6, <2>2, <2>3, <2>4, <2>5 DEF Frame
<1>8. CASE p = "launcher"
  <2>1. /\ UNCHANGED <<held, writing, source>>
        /\ forking' = NoFork
        /\ todo'["launcher"] = <<>> /\ todo'["backend"] = todo["backend"]
    BY <1>2, <1>8 DEF Die, Process
  <2>2. \A t \in Session : Pending("backend", t)' = Pending("backend", t)
    BY <2>1 DEF Pending
  <2>3. \A t \in Session : ~Target(t) => file'[t] = file[t] /\ (t \in bare' <=> t \in bare)
    BY <1>4, <1>8 DEF Target
  <2>4. Creating'
    <3>1. ASSUME NEW i \in 1 .. Len(todo["backend"]), todo["backend"][i].op = "lines",
                 todo["backend"][i].lines \in {<<Header>>, <<Docs>>}, NEW t, t = todo["backend"][i].at
          PROVE  Beginning(t)'
      <4>1. todo["backend"] \in Seq(Write)
        BY <1>1 DEF Types, Process
      <4>2. todo["backend"] # <<>> /\ todo["backend"][i] \in Write
        BY <4>1
      <4>3. t = Head(todo["backend"]).at /\ t \in Session
        BY <1>1, <3>1, <4>2 DEF Shape, Process, Write
      <4>4. ~Target(t)
        BY <1>1, <4>2, <4>3 DEF Apart
      <4>5. Beginning(t)
        BY <1>1, <3>1 DEF Creating
      <4> QED BY <2>1, <2>2, <2>3, <4>3, <4>4, <4>5 DEF Beginning
    <3> QED BY <2>1, <3>1 DEF Creating
  <2>5. Returns'
    BY <1>1, <2>1 DEF Returns
  <2>6. Locks'
    BY <1>1, <1>2, <1>5, <2>1, <2>2 DEF Locks
  <2>7. Apart'
    BY <2>1 DEF Apart, Target
  <2>8. BareFirst'
    <3>1. ASSUME NEW t \in bare', NEW v \in writing[t] PROVE Pending("backend", t) = <<Of("run", v.run)>>
      <4>1. t \in Session /\ held[t] # "free"
        BY <1>1, <1>5, <3>1 DEF Locks
      <4>2. ~Target(t)
        BY <1>1, <4>1 DEF Apart
      <4> QED BY <1>1, <2>3, <3>1, <4>1, <4>2 DEF BareFirst
    <3> QED BY <1>5, <2>1, <2>2, <3>1 DEF BareFirst
  <2>9. Sources'
    <3>1. ASSUME NEW t \in Session, source[t] # {} PROVE file'[t] = file[t]
      <4>1. held[t] # "free"
        BY <1>1, <3>1 DEF Locks
      <4>2. ~Target(t)
        BY <1>1, <4>1 DEF Apart
      <4> QED BY <2>3, <4>2
    <3> QED BY <1>1, <2>1, <3>1 DEF Sources
  <2> QED BY <1>2, <1>6, <2>4, <2>5, <2>6, <2>7, <2>8, <2>9 DEF Frame
<1> QED BY <1>7, <1>8 DEF Process

\* The files after a power loss: the first lines of each, and perhaps one more
\* that does not parse.
Lost(kept) ==
  \A s \in Session :
    /\ kept[s] \in Nat /\ synced[s] <= kept[s] /\ kept[s] <= Len(file[s])
    /\ file'[s] \in {SubSeq(file[s], 1, kept[s]), SubSeq(file[s], 1, kept[s]) \o <<Garbage>>}
    /\ file'[s] # SubSeq(file[s], 1, kept[s]) => s \in hurt'
    /\ kept[s] < Len(file[s]) => s \in hurt'
    /\ synced'[s] = Len(file'[s])
    /\ s \in bare' <=> s \in bare /\ kept[s] = Len(file[s])
    /\ s \in bare' => file'[s] = file[s]
    /\ file'[s] \in Seq(Line) /\ Len(file'[s]) \in Nat /\ kept[s] <= Len(file'[s])
    /\ \A k \in 1 .. kept[s] : file'[s][k] = file[s][k]
    /\ \A k \in kept[s] + 1 .. Len(file'[s]) : file'[s][k] = Garbage

\* A loss of power: each file keeps its synced lines and some more.
LEMMA LostIs ==
  ASSUME Frame, LosePower
  PROVE  /\ Types' /\ \E kept \in [Session -> Int] : Lost(kept)
         /\ UNCHANGED <<done, launched>>
         /\ bare' \subseteq hurt' /\ hurt \subseteq hurt'
         /\ \A s \in Session : meta'[s].name = meta[s].name
         /\ \A s \in Session : writing[s] # {} => s \in hurt'
         /\ \A s \in Session : held'[s] = "free" /\ writing'[s] = {} /\ source'[s] = {}
         /\ forking' = NoFork /\ todo'["backend"] = <<>> /\ todo'["launcher"] = <<>>
<1>1. Types
  BY DEF Frame
<1>2. PICK kept \in [Session -> 0 .. MaxLines + 1], torn \in SUBSET Session, lost \in SUBSET dirty :
        /\ \A s \in Session : kept[s] \in synced[s] .. Len(file[s])
        /\ \A s \in torn : kept[s] < Len(file[s])
        /\ file' = [s \in Session |-> SubSeq(file[s], 1, kept[s])
                                        \o (IF s \in torn THEN <<Garbage>> ELSE <<>>)]
        /\ bare' = {s \in bare : kept[s] = Len(file[s])}
        /\ synced' = [s \in Session |-> Len(file'[s])]
        /\ meta' = [s \in Session |-> IF s \in lost THEN [meta[s] EXCEPT !.state = "torn"] ELSE meta[s]]
        /\ hurt' = hurt \cup torn \cup bare' \cup {s \in Session : writing[s] # {}}
                        \cup {s \in Session : kept[s] < Len(file[s])}
                        \cup (IF forking.stage = "none" THEN {} ELSE {forking.to})
  BY DEF LosePower
<1>3. /\ dirty' = {}
      /\ todo' = [p \in Process |-> <<>>]
      /\ held' = [s \in Session |-> "free"] /\ writing' = [s \in Session |-> {}]
      /\ source' = [s \in Session |-> {}]
      /\ forking' = NoFork
      /\ UNCHANGED <<done, launched>>
  BY DEF LosePower
<1>4. ASSUME NEW s \in Session
      PROVE  LET k == kept[s]
                 a == SubSeq(file[s], 1, k)
             IN  /\ k \in Nat /\ synced[s] <= k /\ k <= Len(file[s])
                 /\ a \in Seq(Line) /\ Len(a) = k /\ \A i \in 1 .. k : a[i] = file[s][i]
                 /\ k = Len(file[s]) => a = file[s]
                 /\ a \o <<Garbage>> \in Seq(Line) /\ Len(a \o <<Garbage>>) = k + 1
                 /\ \A i \in 1 .. k : (a \o <<Garbage>>)[i] = file[s][i]
                 /\ (a \o <<Garbage>>)[k + 1] = Garbage
                 /\ a \o <<>> = a
  <2> DEFINE k == kept[s]
             f == file[s]
             a == SubSeq(f, 1, k)
             b == a \o <<Garbage>>
  <2>1. f \in Seq(Line) /\ k \in synced[s] .. Len(f) /\ synced[s] \in Nat /\ Len(f) \in Nat
    BY <1>1, <1>2 DEF Types
  <2>2. k \in Nat /\ synced[s] <= k /\ k <= Len(f) /\ k \in 0 .. Len(f)
    BY <2>1
  <2> HIDE DEF k, f
  <2>3. a \in Seq(Line) /\ Len(a) = k /\ \A i \in 1 .. k : a[i] = f[i]
    BY <2>1, <2>2, FirstIs
  <2>4. ASSUME k = Len(f) PROVE a = f
    <3>1. Len(a) = Len(f) /\ \A i \in 1 .. Len(f) : a[i] = f[i]
      BY <2>3, <2>4
    <3> QED BY <2>1, <2>3, <3>1
  <2> HIDE DEF a
  <2>5. Garbage \in Line
    BY DEF Garbage, Line
  <2>6. b \in Seq(Line) /\ Len(b) = k + 1 /\ (\A i \in 1 .. k : b[i] = a[i]) /\ b[k + 1] = Garbage
    <3>1. b = Append(a, Garbage)
      BY <2>3, <2>5
    <3> QED BY <2>2, <2>3, <2>5, <3>1
  <2>7. a \o <<>> = a
    BY <2>3
  <2> HIDE DEF b
  <2>8. \A i \in 1 .. k : b[i] = f[i]
    BY <2>3, <2>6
  <2> QED BY <2>2, <2>3, <2>4, <2>6, <2>7, <2>8 DEF a, b, f, k
<1>5. \A s \in Session : file'[s] = IF s \in torn THEN SubSeq(file[s], 1, kept[s]) \o <<Garbage>>
                                    ELSE SubSeq(file[s], 1, kept[s])
  BY <1>2, <1>4
<1>6. file' \in [Session -> Seq(Line)]
  <2>1. \A s \in Session : file'[s] \in Seq(Line)
    BY <1>4, <1>5
  <2>2. file' = [s \in Session |-> file'[s]]
    BY <1>2
  <2> QED BY <2>1, <2>2
<1>7. Lost(kept)
  <2> SUFFICES ASSUME NEW s \in Session
               PROVE  /\ kept[s] \in Nat /\ synced[s] <= kept[s] /\ kept[s] <= Len(file[s])
                      /\ file'[s] \in {SubSeq(file[s], 1, kept[s]), SubSeq(file[s], 1, kept[s]) \o <<Garbage>>}
                      /\ file'[s] # SubSeq(file[s], 1, kept[s]) => s \in hurt'
                      /\ kept[s] < Len(file[s]) => s \in hurt'
                      /\ synced'[s] = Len(file'[s])
                      /\ s \in bare' <=> s \in bare /\ kept[s] = Len(file[s])
                      /\ s \in bare' => file'[s] = file[s]
                      /\ file'[s] \in Seq(Line) /\ Len(file'[s]) \in Nat /\ kept[s] <= Len(file'[s])
                      /\ \A k \in 1 .. kept[s] : file'[s][k] = file[s][k]
                      /\ \A k \in kept[s] + 1 .. Len(file'[s]) : file'[s][k] = Garbage
    BY DEF Lost
  <2>1. kept[s] \in Nat /\ synced[s] <= kept[s] /\ kept[s] <= Len(file[s])
    BY <1>4
  <2>2. file'[s] \in Seq(Line) /\ Len(file'[s]) \in Nat
    BY <1>6
  <2>3. synced'[s] = Len(file'[s]) /\ (s \in bare' <=> s \in bare /\ kept[s] = Len(file[s]))
    BY <1>2
  <2>4. (s \in torn => s \in hurt') /\ (kept[s] < Len(file[s]) => s \in hurt')
    BY <1>2
  <2>5. s \in bare' => file'[s] = file[s]
    <3>1. ASSUME s \in bare' PROVE file'[s] = file[s]
      <4>1. kept[s] = Len(file[s])
        BY <2>3, <3>1
      <4>2. s \notin torn
        BY <1>2, <2>1, <4>1
      <4> QED BY <1>4, <1>5, <4>1, <4>2
    <3> QED BY <3>1
  <2>6. /\ kept[s] <= Len(file'[s])
        /\ \A k \in 1 .. kept[s] : file'[s][k] = file[s][k]
        /\ \A k \in kept[s] + 1 .. Len(file'[s]) : file'[s][k] = Garbage
    <3>1. CASE s \in torn
      <4>1. file'[s] = SubSeq(file[s], 1, kept[s]) \o <<Garbage>>
        BY <1>5, <3>1
      <4>2. Len(file'[s]) = kept[s] + 1 /\ file'[s][kept[s] + 1] = Garbage
            /\ \A k \in 1 .. kept[s] : file'[s][k] = file[s][k]
        BY <1>4, <4>1
      <4>3. \A k \in kept[s] + 1 .. Len(file'[s]) : k = kept[s] + 1
        BY <2>1, <4>2
      <4> QED BY <2>1, <4>2, <4>3
    <3>2. CASE s \notin torn
      <4>1. file'[s] = SubSeq(file[s], 1, kept[s])
        BY <1>5, <3>2
      <4>2. Len(file'[s]) = kept[s] /\ \A k \in 1 .. kept[s] : file'[s][k] = file[s][k]
        BY <1>4, <4>1
      <4>3. \A k \in kept[s] + 1 .. Len(file'[s]) : FALSE
        BY <2>1, <4>2
      <4> QED BY <2>1, <4>2, <4>3
    <3> QED BY <3>1, <3>2
  <2> QED BY <1>5, <2>1, <2>2, <2>3, <2>4, <2>5, <2>6
<1>8. /\ synced' \in [Session -> Nat] /\ \A s \in Session : synced'[s] <= Len(file'[s])
  <2>1. \A s \in Session : synced'[s] = Len(file'[s]) /\ Len(file'[s]) \in Nat
    BY <1>2, <1>6
  <2>2. \A s \in Session : synced'[s] \in Nat /\ synced'[s] <= Len(file'[s])
    BY <2>1
  <2>3. synced' = [s \in Session |-> synced'[s]]
    BY <1>2
  <2> QED BY <2>2, <2>3
<1>9. /\ meta' \in [Session -> [state : {"absent", "torn", "ok"}, name : SUBSET Name]]
      /\ \A s \in Session : meta'[s].name = meta[s].name
  BY ZenonT(60), <1>1, <1>2 DEF Types
<1>10. hurt' \in SUBSET Session /\ bare' \in SUBSET Session
  <2>1. forking.stage # "none" => forking.to \in Session
    BY <1>1, ForkStages DEF Types, Fork
  <2>2. bare' \in SUBSET Session
    BY <1>1, <1>2 DEF Types
  <2> QED BY <1>1, <1>2, <2>1, <2>2 DEF Types
<1>11. todo' \in [Process -> Seq(Write)]
  <2>1. <<>> \in Seq(Write)
    OBVIOUS
  <2> QED BY <1>3, <2>1
<1>12. Types'
  BY <1>1, <1>3, <1>6, <1>8, <1>9, <1>10, <1>11 DEF Types
<1>13. kept \in [Session -> Int]
  <2>1. \A s \in Session : kept[s] \in Int
    BY <1>4
  <2> QED BY <1>2, <2>1
<1>14. todo'["backend"] = <<>> /\ todo'["launcher"] = <<>>
  BY <1>3 DEF Process
<1>15. /\ bare' \subseteq hurt' /\ hurt \subseteq hurt'
       /\ \A s \in Session : writing[s] # {} => s \in hurt'
  BY <1>2
<1> QED BY <1>3, <1>7, <1>9, <1>12, <1>13, <1>14, <1>15

\* It keeps the frame.
LEMMA LosePowerFrame ==
  ASSUME Frame, LosePower
  PROVE  Frame'
<1>1. Types /\ Locks
  BY DEF Frame
<1>2. /\ Types' /\ bare' \subseteq hurt'
      /\ \A s \in Session : held'[s] = "free" /\ writing'[s] = {} /\ source'[s] = {}
      /\ forking' = NoFork /\ todo'["backend"] = <<>> /\ todo'["launcher"] = <<>>
  BY LostIs
<1>3. PICK kept \in [Session -> Int] : Lost(kept)
  BY LostIs
<1>4. \A p \in Process : todo'[p] = <<>>
  BY <1>2 DEF Process
<1>5. Len(<<>>) = 0
  OBVIOUS
<1>6. Shape' /\ Creating' /\ Returns'
  BY <1>2, <1>4, <1>5 DEF Shape, Creating, Returns
<1>7. \A s \in bare' : file'[s] # <<>>
  BY <1>1, <1>2, <1>3 DEF Locks, Types, Lost
<1>8. Locks'
  BY <1>2, <1>7 DEF Locks
<1>9. Apart'
  BY <1>2 DEF Apart, Target
<1>10. BareFirst' /\ Sources'
  BY <1>2 DEF BareFirst, Sources, Types
<1> QED BY <1>2, <1>6, <1>8, <1>9, <1>10 DEF Frame

-----------------------------------------------------------------------------
(* The frame always holds.                                                 *)

\* Every step keeps the frame.
LEMMA FrameStep ==
  ASSUME Frame, BoundsAssumption, [Next]_vars
  PROVE  Frame'
<1>1. CASE UNCHANGED vars
  <2>1. UNCHANGED <<file, bare, synced, meta, dirty, todo, held, writing, source, forking, done, hurt, launched>>
    BY <1>1 DEF vars, disk, memory
  <2>2. \A p \in Process, s \in Session : Pending(p, s)' = Pending(p, s)
    BY <2>1 DEF Pending
  <2>3. Types' /\ Shape' /\ Creating' /\ Locks' /\ Apart' /\ BareFirst' /\ Returns' /\ Sources'
    <3>1. Types' /\ Shape' /\ Returns' /\ Sources'
      <4>1. Types'
        BY <2>1 DEF Frame, Types
      <4>2. Shape'
        BY <2>1 DEF Frame, Shape
      <4>3. Returns' /\ Sources'
        BY <2>1 DEF Frame, Returns, Sources
      <4> QED BY <4>1, <4>2, <4>3
    <3>2. Creating'
      BY <2>1 DEF Frame, Creating, Beginning, Pending
    <3>3. Locks' /\ BareFirst'
      BY <2>1 DEF Frame, Locks, BareFirst, Pending
    <3>4. Apart'
      BY <2>1 DEF Frame, Apart, Target
    <3> QED BY <3>1, <3>2, <3>3, <3>4
  <2> QED BY <2>3 DEF Frame
<1>2. CASE \E p \in Process : Perform(p)
  BY <1>2, PerformFrame
<1>3. CASE \E p \in Process : Die(p)
  BY <1>3, DieFrame
<1>4. CASE \E s \in Session :
             \/ \E docs \in BOOLEAN : CreateSession(s, docs)
             \/ \E r \in Run : StartRun(s, r)
             \/ \E type \in {"event", "end"} : AppendEvent(s, type)
             \/ \E extras \in SUBSET Extras : Finalize(s, extras)
             \/ FailCompaction(s) \/ EndCompaction(s) \/ SetMode(s)
             \/ \E n \in Name : NameSession(s, n)
  BY <1>4, BackendFrame
<1>5. CASE \E s \in Session : Abandon(s)
  BY <1>5, AbandonFrame
<1>6. CASE \E s \in Session : BeginCompaction(s)
  BY <1>6, BeginCompactionFrame
<1>7. CASE \/ GiveUpFork
           \/ \E s \in Session : \E t \in Session \ {s}, names \in {{}} \cup {{n} : n \in ForkNames} :
                BeginFork(s, t, names)
  BY <1>7, ForkFrame
<1>8. CASE CopyFork \/ DescribeFork \/ NameFork
  BY <1>8, LauncherFrame
<1>9. CASE LosePower
  BY <1>9, LosePowerFrame
<1> QED BY <1>1, <1>2, <1>3, <1>4, <1>5, <1>6, <1>7, <1>8, <1>9 DEF Next

\* The writes of the backend and of the launcher never meet in one session; a run
\* and a compaction exclude each other by the lock of their session; finalize and
\* append_compaction_to_session return only for what was begun; and a compaction
\* in progress stands for every run of its file (rpc/state.py, session/jsonl.py).
THEOREM FrameAlways == BoundsAssumption /\ Spec => []Frame
<1> SUFFICES ASSUME BoundsAssumption PROVE Spec => []Frame
  OBVIOUS
<1>1. Init => Frame
  BY FrameInit
<1>2. Frame /\ [Next]_vars => Frame'
  BY FrameStep
<1> QED BY <1>1, <1>2, PTL DEF Spec

\* A fork is always faithful to a session that loads.
LEMMA FrameForks == Frame => ForkFaithful
<1> SUFFICES ASSUME Frame, NEW s \in Session, Loads(file[s])
             PROVE  Faithful(file[s])
  BY DEF ForkFaithful, Faithful
<1>1. file[s] \in Seq(Line)
  BY DEF Frame, Types
<1> QED BY <1>1, ForkIsFaithful

\* In every reachable state, what fork_session would copy of a session that loads
\* loads again, with the same runs, compaction and grants, without the name and the
\* turn context of its source.
THEOREM ForksAlwaysFaithful == BoundsAssumption /\ Spec => []ForkFaithful
BY FrameAlways, FrameForks, PTL

-----------------------------------------------------------------------------
(* Names are unique.                                                       *)

\* A name that p may write for s: none, or the backend's: the one it has, or
\* one that no other session has.  The launcher's are not looked at.
Fitting(p, s, n) ==
  \/ n = {}
  \/ p = "backend" /\ n = meta[s].name
  \/ p = "backend" /\ \A t \in Session \ launched : t # s => meta[t].name # n

Named ==
  /\ \A s, t \in Session \ launched : s # t /\ meta[s].name # {} => meta[s].name # meta[t].name
  /\ \A p \in Process : \A i \in 1 .. Len(todo[p]) :
       todo[p][i].op = "put" /\ todo[p][i].at \notin launched =>
         Fitting(p, todo[p][i].at, todo[p][i].name)
  /\ \A p \in Process : \A i, j \in 1 .. Len(todo[p]) :
       todo[p][i].op = "put" /\ todo[p][j].op = "put" => todo[p][i].name = todo[p][j].name

\* The only name, if any, that p may write.
Suits(p, s, names) ==
  /\ \A n \in names : s \in launched' \/ Fitting(p, s, n)
  /\ \A m, n \in names : m = n

\* A name that is planned suits the session.
LEMMA NamedPlans ==
  ASSUME Frame, Named, NEW p \in Process, NEW s \in Session, NEW lines \in Seq(Line), NEW sync,
         NEW names, NEW returns, Plans(p, s, lines, sync, names, returns),
         meta' = meta, launched \subseteq launched',
         Suits(p, s, names)
  PROVE  Named'
<1>3. /\ \A n \in names : s \in launched' \/ Fitting(p, s, n)
      /\ \A m, n \in names : m = n
  BY DEF Suits
<1>1. Types
  BY DEF Frame
<1>2. /\ \A r \in Process \ {p} : todo'[r] = todo[r]
      /\ Plan(todo'[p], s, lines, sync, names, returns)
  BY <1>1, PlansEffect
<1>4. \A i \in 1 .. Len(todo'[p]) :
        /\ todo'[p][i].at = s
        /\ todo'[p][i].op = "put" => todo'[p][i].name \in names
  BY <1>2 DEF Plan
<1>5. ASSUME NEW r \in Process, NEW i \in 1 .. Len(todo'[r]), NEW x, x = todo'[r][i],
             x.op = "put", x.at \notin launched'
      PROVE  Fitting(r, x.at, x.name)'
  <2>1. CASE r = p
    <3>1. x.at = s /\ x.name \in names
      BY <1>4, <1>5, <2>1
    <3>2. Fitting(r, x.at, x.name)
      BY <1>3, <1>5, <2>1, <3>1
    <3> QED BY <3>2 DEF Fitting
  <2>2. CASE r # p
    <3>1. x = todo[r][i] /\ i \in 1 .. Len(todo[r]) /\ x.at \notin launched
      BY <1>2, <1>5, <2>2
    <3>2. Fitting(r, x.at, x.name)
      BY <1>5, <3>1 DEF Named
    <3> QED BY <3>2 DEF Fitting
  <2> QED BY <2>1, <2>2
<1>6. ASSUME NEW r \in Process, NEW i \in 1 .. Len(todo'[r]), NEW j \in 1 .. Len(todo'[r]),
             todo'[r][i].op = "put", todo'[r][j].op = "put"
      PROVE  todo'[r][i].name = todo'[r][j].name
  <2>1. CASE r = p
    BY <1>3, <1>4, <1>6, <2>1
  <2>2. CASE r # p
    BY <1>2, <1>6, <2>2 DEF Named
  <2> QED BY <2>1, <2>2
<1>7. \A u, t \in Session \ launched' : u # t /\ meta'[u].name # {} => meta'[u].name # meta'[t].name
  BY DEF Named
<1> QED BY <1>5, <1>6, <1>7 DEF Named

\* A name that is written was planned.
LEMMA NamedPerform ==
  ASSUME Frame, Named, NEW p \in Process, Perform(p)
  PROVE  Named'
<1> SUFFICES ASSUME NEW w, w = Head(todo[p]), NEW s, s = w.at PROVE Named'
  OBVIOUS
<1>1. Types /\ Apart /\ Shape
  BY DEF Frame
<1>2. /\ todo[p] # <<>> /\ w = todo[p][1] /\ 1 \in 1 .. Len(todo[p])
      /\ \A r \in Process \ {p} : todo'[r] = todo[r]
      /\ \A i \in 1 .. Len(todo'[p]) :
           i + 1 \in 1 .. Len(todo[p]) /\ todo'[p][i] = todo[p][i + 1] /\ todo'[p][i].at = s
  BY Popped
<1>3. /\ s \in Session
      /\ \A t \in Session : t # s => meta'[t] = meta[t]
      /\ meta'[s].name = IF w.op = "put" THEN w.name ELSE meta[s].name
      /\ launched' = launched
  <2>1. Performed(w) /\ launched' = launched
    BY WritesState, PerformIs
  <2>2. meta'[w.at].name = IF w.op = "put" THEN w.name ELSE meta[w.at].name
    BY <2>1, Zenon DEF Performed
  <2> QED BY <2>1, <2>2, PerformedIs
<1>4. \A r \in Process : \A i \in 1 .. Len(todo'[r]) : \E j \in 1 .. Len(todo[r]) : todo'[r][i] = todo[r][j]
  BY <1>2
<1>5. ASSUME NEW r \in Process, NEW i \in 1 .. Len(todo'[r]), NEW j \in 1 .. Len(todo'[r]),
             todo'[r][i].op = "put", todo'[r][j].op = "put"
      PROVE  todo'[r][i].name = todo'[r][j].name
  <2>1. PICK k \in 1 .. Len(todo[r]) : todo'[r][i] = todo[r][k]
    BY <1>4
  <2>2. PICK l \in 1 .. Len(todo[r]) : todo'[r][j] = todo[r][l]
    BY <1>4
  <2> QED BY <1>5, <2>1, <2>2 DEF Named
<1>6. CASE w.op = "put" /\ s \notin launched
  <2>1. Fitting(p, s, w.name)
    BY <1>2, <1>6 DEF Named
  <2>2. ASSUME NEW u \in Session \ launched, NEW t \in Session \ launched, u # t, meta'[u].name # {}
        PROVE  meta'[u].name # meta'[t].name
    <3>1. CASE u = s
      BY <1>3, <1>6, <2>1, <2>2, <3>1 DEF Fitting, Named
    <3>2. CASE t = s
      BY <1>3, <1>6, <2>1, <2>2, <3>2 DEF Fitting, Named
    <3>3. CASE u # s /\ t # s
      BY <1>3, <2>2, <3>3 DEF Named
    <3> QED BY <3>1, <3>2, <3>3
  <2>3. ASSUME NEW r \in Process, NEW i \in 1 .. Len(todo'[r]), NEW x, x = todo'[r][i],
               x.op = "put", x.at \notin launched
        PROVE  Fitting(r, x.at, x.name)'
    <3>1. PICK j \in 1 .. Len(todo[r]) : x = todo[r][j]
      BY <1>4, <2>3
    <3>2. Fitting(r, x.at, x.name)
      BY <2>3, <3>1 DEF Named
    <3>3. x.at \in Session
      <4>1. x \in Write
        BY <1>1, <3>1 DEF Types
      <4> QED BY <4>1 DEF Write
    <3>4. CASE r = p
      <4>1. x.at = s /\ x.name = w.name
        <5>1. x.at = s
          BY <1>2, <2>3, <3>4
        <5>2. todo[p][1].op = "put" /\ todo[p][j].op = "put" /\ j \in 1 .. Len(todo[p])
          BY <1>2, <1>6, <2>3, <3>1, <3>4
        <5>3. todo[p][1].name = todo[p][j].name
          BY <1>2, <5>2 DEF Named
        <5> QED BY <1>2, <3>1, <3>4, <5>1, <5>3
      <4>2. \/ w.name = {}
            \/ p = "backend" /\ meta'[s].name = w.name
        BY <1>3, <1>6, <2>1 DEF Fitting
      <4> QED BY <2>1, <3>4, <4>1, <4>2 DEF Fitting
    <3>5. CASE r # p
      <4>1. x.at # s
        <5>1. todo[r] # <<>> /\ x.at = Head(todo[r]).at
          <6>1. todo[r] \in Seq(Write)
            BY <1>1 DEF Types
          <6> QED BY <1>1, <3>1, <6>1 DEF Shape
        <5>2. CASE p = "launcher"
          <6>1. r = "backend" /\ Target(s)
            BY <1>2, <3>5, <5>2 DEF Target, Process
          <6> QED BY <1>1, <1>3, <5>1, <6>1 DEF Apart
        <5>3. CASE p = "backend"
          BY <1>1, <1>2, <3>5, <5>1, <5>3 DEF Apart, Target, Process, Types, Write
        <5> QED BY <5>2, <5>3 DEF Process
      <4>2. CASE p = "backend"
        BY <3>2, <3>5, <4>2 DEF Fitting, Process
      <4>3. CASE p = "launcher"
        <5>1. w.name = {}
          BY <2>1, <4>3 DEF Fitting
        <5>2. x.name = {} \/ x.name = meta[x.at].name \/ \A t \in Session \ launched : t # x.at => meta[t].name # x.name
          BY <3>2 DEF Fitting
        <5>3. r = "backend"
          BY <3>5, <4>3 DEF Process
        <5>4. meta'[x.at] = meta[x.at] /\ meta'[s].name = {}
          BY <1>3, <1>6, <3>3, <4>1, <5>1
        <5> QED BY <1>3, <5>2, <5>3, <5>4 DEF Fitting
      <4> QED BY <4>2, <4>3 DEF Process
    <3> QED BY <3>4, <3>5
  <2> QED BY <1>3, <1>5, <2>2, <2>3 DEF Named
<1>7. CASE ~(w.op = "put" /\ s \notin launched)
  <2>1. \A t \in Session \ launched : meta'[t].name = meta[t].name
    BY <1>3, <1>7
  <2>2. \A u, t \in Session \ launched' : u # t /\ meta'[u].name # {} => meta'[u].name # meta'[t].name
    BY <1>3, <2>1 DEF Named
  <2>3. ASSUME NEW r \in Process, NEW i \in 1 .. Len(todo'[r]), NEW x, x = todo'[r][i],
               x.op = "put", x.at \notin launched
        PROVE  Fitting(r, x.at, x.name)'
    <3>1. PICK j \in 1 .. Len(todo[r]) : x = todo[r][j]
      BY <1>4, <2>3
    <3>2. Fitting(r, x.at, x.name)
      BY <2>3, <3>1 DEF Named
    <3>3. x.at \in Session
      <4>1. x \in Write
        BY <1>1, <3>1 DEF Types
      <4> QED BY <4>1 DEF Write
    <3> QED BY <1>3, <2>1, <2>3, <3>2, <3>3 DEF Fitting
  <2> QED BY <1>3, <1>5, <2>2, <2>3 DEF Named
<1> QED BY <1>6, <1>7

\* Steps that write no metadata and leave no more to write.
LEMMA NamedSame ==
  ASSUME Types, Named, launched' = launched, \A s \in Session : meta'[s].name = meta[s].name,
         \A p \in Process : todo'[p] = todo[p] \/ todo'[p] = <<>>
  PROVE  Named'
<1>1. Len(<<>>) = 0
  OBVIOUS
<1>2. \A p \in Process : \A i \in 1 .. Len(todo[p]) : todo[p][i].at \in Session \/ todo[p][i].op # "put"
  BY DEF Types, Write
<1>3. ASSUME NEW p \in Process, NEW i \in 1 .. Len(todo'[p]), NEW x, x = todo'[p][i],
             x.op = "put", x.at \notin launched'
      PROVE  Fitting(p, x.at, x.name)'
  <2>1. x = todo[p][i] /\ i \in 1 .. Len(todo[p]) /\ x.at \in Session
    BY <1>1, <1>2, <1>3
  <2>2. Fitting(p, x.at, x.name)
    BY <1>3, <2>1 DEF Named
  <2> QED BY <2>1, <2>2 DEF Fitting
<1>4. ASSUME NEW p \in Process, NEW i \in 1 .. Len(todo'[p]), NEW j \in 1 .. Len(todo'[p]),
             todo'[p][i].op = "put", todo'[p][j].op = "put"
      PROVE  todo'[p][i].name = todo'[p][j].name
  <2>1. todo'[p] = todo[p]
    BY <1>1, <1>4
  <2> QED BY <1>4, <2>1 DEF Named
<1>5. \A u, t \in Session \ launched' : u # t /\ meta'[u].name # {} => meta'[u].name # meta'[t].name
  BY DEF Named
<1> QED BY <1>3, <1>4, <1>5 DEF Named

\* Every step keeps the names unique.
LEMMA NamedStep ==
  ASSUME Frame, BoundsAssumption, Named, [Next]_vars
  PROVE  Named'
<1>1. Types /\ "backend" \in Process /\ "launcher" \in Process
  BY DEF Frame, Process
<1>2. CASE UNCHANGED vars
  <2>1. launched' = launched /\ meta' = meta /\ todo' = todo
    BY <1>2 DEF vars, disk, memory
  <2> QED BY <1>1, <2>1, NamedSame
<1>3. CASE \E p \in Process : Perform(p)
  BY <1>3, NamedPerform
<1>4. CASE \E p \in Process : Die(p)
  <2>1. PICK p \in Process : Die(p)
    BY <1>4
  <2>2. /\ UNCHANGED <<meta, launched>>
        /\ todo'[p] = <<>> /\ \A r \in Process \ {p} : todo'[r] = todo[r]
    BY <2>1, DieState
  <2> QED BY <1>1, <2>2, NamedSame
<1>5. CASE LosePower
  <2>1. /\ launched' = launched /\ \A s \in Session : meta'[s].name = meta[s].name
        /\ todo'["backend"] = <<>> /\ todo'["launcher"] = <<>>
    BY <1>5, LostIs
  <2>2. \A p \in Process : todo'[p] = <<>>
    BY <2>1 DEF Process
  <2> QED BY <1>1, <2>1, <2>2, NamedSame
<1>6. CASE \/ GiveUpFork
           \/ \E s \in Session : Abandon(s) \/ BeginCompaction(s)
           \/ \E s \in Session : \E t \in Session \ {s}, names \in {{}} \cup {{n} : n \in ForkNames} :
                BeginFork(s, t, names)
  <2>1. launched' = launched /\ meta' = meta /\ todo' = todo
    BY <1>6 DEF GiveUpFork, Abandon, BeginCompaction, BeginFork, disk, memory
  <2> QED BY <1>1, <2>1, NamedSame
<1>7. ASSUME NEW s \in Session,
             \/ \E docs \in BOOLEAN : CreateSession(s, docs)
             \/ \E r \in Run : StartRun(s, r)
             \/ \E type \in {"event", "end"} : AppendEvent(s, type)
             \/ \E extras \in SUBSET Extras : Finalize(s, extras)
             \/ FailCompaction(s) \/ EndCompaction(s) \/ SetMode(s)
             \/ \E n \in Name : NameSession(s, n)
      PROVE  Named'
  <2>1. Suits("backend", s, {}) /\ Suits("backend", s, {{}}) /\ Suits("backend", s, {meta[s].name})
    BY DEF Suits, Fitting
  <2>2. meta' = meta /\ launched \subseteq launched'
    BY <1>7 DEF CreateSession, StartRun, AppendEvent, Finalize, FailCompaction, EndCompaction, SetMode,
               NameSession, disk
  <2>3. writing[s] \in SUBSET Writer
    BY <1>1 DEF Types
  <2>0. <<>> \in Seq(Line) /\ <<Header>> \in Seq(Line)
    BY LinesAre
  <2>4. CASE \E docs \in BOOLEAN : CreateSession(s, docs)
    <3>1. Plans("backend", s, <<Header>>, TRUE, {{}}, {})
      BY <2>4, CreateSessionIs
    <3> QED BY <1>1, <2>0, <2>1, <2>2, <3>1, NamedPlans
  <2>5. CASE \E r \in Run : StartRun(s, r)
    <3>1. PICK r \in Run : StartRun(s, r)
      BY <2>5
    <3>2. Plans("backend", s, <<Of("run", r)>>, FALSE, {}, {})
      BY <3>1, StartRunIs
    <3>3. <<Of("run", r)>> \in Seq(Line)
      BY LinesAre DEF OfRun
    <3> QED BY <1>1, <2>1, <2>2, <3>2, <3>3, NamedPlans
  <2>6. CASE \E type \in {"event", "end"} : AppendEvent(s, type)
    <3>1. PICK type \in {"event", "end"} : AppendEvent(s, type)
      BY <2>6
    <3>2. PICK w \in writing[s] : Plans("backend", s, <<Of(type, w.run)>>, FALSE, {}, {})
      BY <3>1, AppendEventIs
    <3>3. w.run \in Run /\ type \in OfRun
      BY <2>3 DEF Writer, OfRun
    <3>4. <<Of(type, w.run)>> \in Seq(Line)
      BY <3>3, LinesAre
    <3> QED BY <1>1, <2>1, <2>2, <3>2, <3>4, NamedPlans
  <2>7. CASE \E extras \in SUBSET Extras : Finalize(s, extras)
    <3>1. PICK extras \in SUBSET Extras : Finalize(s, extras)
      BY <2>7
    <3>2. PICK w \in writing[s] :
            /\ Plans("backend", s, Ending(w.run, extras), TRUE, {meta[s].name}, {{w.run}})
            /\ w.run \in Run /\ extras \in SUBSET Trailer
      BY <3>1, FinalizeIs
    <3>3. Ending(w.run, extras) \in Seq(Line)
      BY <3>2, EndingIs
    <3> QED BY <1>1, <2>1, <2>2, <3>2, <3>3, NamedPlans
  <2>8. CASE FailCompaction(s)
    <3>1. Plans("backend", s, <<>>, FALSE, {}, {{}})
      BY <2>8, FailCompactionIs
    <3> QED BY <1>1, <2>0, <2>1, <2>2, <3>1, NamedPlans
  <2>9. CASE EndCompaction(s)
    <3>1. Plans("backend", s, <<Compacting(s)>>, TRUE, {meta[s].name}, {{}}) /\ Compacting(s) \in Line
      BY <2>9, EndCompactionIs
    <3>2. <<Compacting(s)>> \in Seq(Line)
      BY <3>1
    <3> QED BY <1>1, <2>1, <2>2, <3>1, <3>2, NamedPlans
  <2>10. CASE SetMode(s)
    <3>1. Plans("backend", s, <<>>, TRUE, {meta[s].name}, {})
      BY <2>10, SetModeIs
    <3> QED BY <1>1, <2>0, <2>1, <2>2, <3>1, NamedPlans
  <2>11. CASE \E n \in Name : NameSession(s, n)
    <3>1. PICK n \in Name : NameSession(s, n)
      BY <2>11
    <3>2. Plans("backend", s, <<Info(n)>>, TRUE, {{n}}, {}) /\ NameAccepted(s, n)
      BY <3>1, NameSessionIs
    <3>3. <<Info(n)>> \in Seq(Line)
      BY LinesAre
    <3>4. Suits("backend", s, {{n}})
      BY <3>2 DEF NameAccepted, Fitting, Suits
    <3> QED BY <1>1, <2>2, <3>2, <3>3, <3>4, NamedPlans
  <2> QED BY <1>7, <2>4, <2>5, <2>6, <2>7, <2>8, <2>9, <2>10, <2>11
<1>8. CASE CopyFork \/ DescribeFork \/ NameFork
  <2>1. forking.to \in Session /\ meta' = meta /\ launched \subseteq launched'
    BY <1>8, CopyForkIs, DescribeForkIs, NameForkIs DEF disk
  <2>2. \A t \in Session : Suits("launcher", t, {}) /\ Suits("launcher", t, {{}})
    BY DEF Suits, Fitting
  <2>3. <<>> \in Seq(Line)
    OBVIOUS
  <2>4. CASE CopyFork
    <3>1. /\ ForkOf(file[forking.from], forking.last) \in Seq(Line)
          /\ Plans("launcher", forking.to, ForkOf(file[forking.from], forking.last), TRUE, {}, {})
      BY <2>4, CopyForkIs
    <3> QED BY <1>1, <2>1, <2>2, <3>1, NamedPlans
  <2>5. CASE DescribeFork
    <3>1. Plans("launcher", forking.to, <<>>, TRUE, {{}}, {})
      BY <2>5, DescribeForkIs
    <3> QED BY <1>1, <2>1, <2>2, <2>3, <3>1, NamedPlans
  <2>6. CASE NameFork
    <3>1. \/ Plans("launcher", forking.to, <<>>, TRUE, {}, {})
          \/ /\ \E n \in Name :
                  Plans("launcher", forking.to, <<Info(n)>>, TRUE, {{n}}, {})
             /\ launched' = launched \cup {forking.to}
      BY <2>6, NameForkIs
    <3>2. CASE Plans("launcher", forking.to, <<>>, TRUE, {}, {})
      BY <1>1, <2>1, <2>2, <2>3, <3>2, NamedPlans
    <3>3. CASE /\ \E n \in Name :
                    Plans("launcher", forking.to, <<Info(n)>>, TRUE, {{n}}, {})
               /\ launched' = launched \cup {forking.to}
      <4>1. PICK n \in Name : Plans("launcher", forking.to, <<Info(n)>>, TRUE, {{n}}, {})
        BY <3>3
      <4>2. <<Info(n)>> \in Seq(Line)
        BY LinesAre
      <4>3. Suits("launcher", forking.to, {{n}})
        BY <3>3 DEF Suits
      <4> QED BY <1>1, <2>1, <4>1, <4>2, <4>3, NamedPlans
    <3> QED BY <3>1, <3>2, <3>3
  <2> QED BY <1>8, <2>4, <2>5, <2>6
<1> QED BY <1>2, <1>3, <1>4, <1>5, <1>6, <1>7, <1>8 DEF Next

\* Two sessions that the launcher did not name never have the same name, although
\* append_session_name_to_session checks a name, appends its line and then rewrites
\* the metadata in separate steps, which a death or the launcher can come between.
THEOREM NamesAlwaysUnique == BoundsAssumption /\ Spec => []NamesUnique
<1> SUFFICES ASSUME BoundsAssumption PROVE Spec => []NamesUnique
  OBVIOUS
<1>1. Init => Named
  <2>1. Len(<<>>) = 0
    OBVIOUS
  <2> QED BY <2>1 DEF Init, Named
<1>2. Frame /\ Named /\ [Next]_vars => Named'
  BY NamedStep
<1>3. Named => NamesUnique
  BY DEF Named, NamesUnique
<1> QED BY <1>1, <1>2, <1>3, FrameAlways, PTL DEF Spec

-----------------------------------------------------------------------------
(* What a finalized run has on disk stays there.                           *)

\* How many lines of a file no step can change: the last one, when it lacks its
\* newline, may still be joined to another.
Firm(s) == IF s \in bare /\ synced[s] = Len(file[s]) THEN Len(file[s]) - 1 ELSE synced[s]

\* HoldsRun, within the first n lines.
HoldsBy(lines, r, n) ==
  \E j \in 2 .. n : \E i \in 1 .. j - 1 :
    /\ lines[i] \in {Of("run", r), Garbage} /\ lines[j] = Of("messages", r)
    /\ lines[j - 1] = Of("end", r)
    /\ \A k \in i + 1 .. j - 2 : lines[k] = Of("event", r)

\* A file that holds a run still holds it when it grows.
LEMMA HoldsMore ==
  ASSUME NEW a, NEW b, NEW r, NEW m \in Int, NEW n \in Int, m <= n,
         HoldsBy(a, r, m), \A k \in 1 .. m : b[k] = a[k]
  PROVE  HoldsBy(b, r, n)
<1>1. PICK j \in 2 .. m : \E i \in 1 .. j - 1 :
        /\ a[i] \in {Of("run", r), Garbage} /\ a[j] = Of("messages", r)
        /\ a[j - 1] = Of("end", r)
        /\ \A k \in i + 1 .. j - 2 : a[k] = Of("event", r)
  BY DEF HoldsBy
<1>2. PICK i \in 1 .. j - 1 :
        /\ a[i] \in {Of("run", r), Garbage} /\ a[j] = Of("messages", r)
        /\ a[j - 1] = Of("end", r)
        /\ \A k \in i + 1 .. j - 2 : a[k] = Of("event", r)
  BY <1>1
<1>3. i \in 1 .. m /\ j \in 1 .. m /\ j - 1 \in 1 .. m /\ \A k \in i + 1 .. j - 2 : k \in 1 .. m
  OBVIOUS
<1>4. b[i] = a[i] /\ b[j] = a[j] /\ b[j - 1] = a[j - 1] /\ \A k \in i + 1 .. j - 2 : b[k] = a[k]
  BY <1>3
<1>5. j \in 2 .. n
  OBVIOUS
<1> QED BY <1>2, <1>4, <1>5 DEF HoldsBy

\* A step keeps the firm lines of a file.
Keeps(s) ==
  /\ Firm(s) \in Int /\ Firm(s)' \in Int
  /\ Firm(s) <= Firm(s)' /\ Firm(s)' <= Len(file'[s])
  /\ \A k \in 1 .. Firm(s) : file'[s][k] = file[s][k]

\* How many lines are firm.
LEMMA FirmIs ==
  ASSUME Frame, NEW s \in Session
  PROVE  /\ Firm(s) \in Int /\ Firm(s) <= synced[s] /\ synced[s] <= Len(file[s])
         /\ s \in bare => Firm(s) <= Len(file[s]) - 1
         /\ s \notin bare => Firm(s) = synced[s]
         /\ Len(file[s]) \in Nat /\ synced[s] \in Nat
<1>1. synced[s] \in Nat /\ synced[s] <= Len(file[s]) /\ Len(file[s]) \in Nat
  BY DEF Frame, Types
<1> QED BY <1>1 DEF Firm

\* A file that is left alone keeps its firm lines.
LEMMA KeepsSame ==
  ASSUME Frame, NEW s \in Session, file'[s] = file[s], synced'[s] = synced[s], s \in bare' <=> s \in bare
  PROVE  Keeps(s)
<1>1. Firm(s)' = Firm(s)
  BY DEF Firm
<1>2. Firm(s) \in Int /\ Firm(s) <= Len(file[s])
  BY FirmIs
<1> QED BY <1>1, <1>2 DEF Keeps

\* Lines are joined to the file, and perhaps synced.
LEMMA KeepsAppended ==
  ASSUME Frame, Types', NEW s \in Session, NEW lines \in Seq(Line), lines # <<>>,
         file'[s] = Appended(s, lines),
         \/ synced'[s] = synced[s]
         \/ s \notin bare' /\ synced'[s] = Len(file'[s])
  PROVE  Keeps(s)
<1>1. /\ Firm(s) \in Int /\ Firm(s) <= synced[s] /\ synced[s] <= Len(file[s])
      /\ s \in bare => Firm(s) <= Len(file[s]) - 1
      /\ Len(file[s]) \in Nat /\ synced[s] \in Nat
  BY FirmIs
<1> DEFINE n == IF s \in bare THEN Len(file[s]) - 1 ELSE Len(file[s])
           g == file'[s]
<1>2. /\ Len(g) = n + Len(lines) /\ Len(g) >= Len(file[s]) /\ Len(lines) \in Nat
      /\ \A k \in 1 .. n : g[k] = file[s][k]
  BY AppendedIs
<1>3. Len(lines) > 0
  OBVIOUS
<1>4. Firm(s) <= n /\ n \in Int
  BY <1>1
<1>5. Len(g) \in Nat /\ synced'[s] \in Nat /\ synced'[s] <= Len(g)
  BY DEF Types
<1>6. \/ Firm(s)' = Len(g) - 1 /\ synced'[s] = Len(g)
      \/ Firm(s)' = synced'[s]
  BY DEF Firm
<1> HIDE DEF n, g
<1>7. Firm(s)' \in Int /\ Firm(s)' <= Len(g)
  BY <1>5, <1>6
<1>8. Firm(s) <= Firm(s)'
  <2>1. CASE Firm(s)' = synced'[s]
    <3>1. synced'[s] >= synced[s]
      BY <1>1, <1>2, <1>5 DEF g
    <3> QED BY <1>1, <1>5, <2>1, <3>1
  <2>2. CASE Firm(s)' = Len(g) - 1 /\ Firm(s)' # synced'[s]
    BY <1>1, <1>2, <1>3, <1>4, <2>2
  <2> QED BY <1>6, <2>1, <2>2
<1>9. \A k \in 1 .. Firm(s) : g[k] = file[s][k]
  BY <1>1, <1>2, <1>4
<1> QED BY <1>1, <1>7, <1>8, <1>9 DEF Keeps, g

\* No step changes a firm line.
LEMMA KeepsStep ==
  ASSUME Frame, BoundsAssumption, [Next]_vars, NEW s \in Session
  PROVE  Keeps(s)
<1>1. Types /\ Types'
  BY FrameStep DEF Frame
<1>2. CASE \E p \in Process : Perform(p)
  <2>1. PICK p \in Process : Perform(p)
    BY <1>2
  <2> SUFFICES ASSUME NEW w, w = Head(todo[p]) PROVE Keeps(s)
    OBVIOUS
  <2>2. /\ \A t \in Session : t # w.at => file'[t] = file[t] /\ synced'[t] = synced[t] /\ (t \in bare' <=> t \in bare)
        /\ file'[w.at] = (IF w.op = "lines" THEN Appended(w.at, w.lines) ELSE file[w.at])
        /\ (IF w.op = "lines" THEN w.at \notin bare' ELSE bare' = bare)
        /\ synced'[w.at] = IF w.op = "lines" /\ w.sync THEN Len(file'[w.at]) ELSE synced[w.at]
    <3>1. Performed(w)
      BY <2>1, WritesState
    <3>2. /\ file'[w.at] = (IF w.op = "lines" THEN Appended(w.at, w.lines) ELSE file[w.at])
          /\ (IF w.op = "lines" THEN w.at \notin bare' ELSE bare' = bare)
          /\ synced'[w.at] = IF w.op = "lines" /\ w.sync THEN Len(file'[w.at]) ELSE synced[w.at]
      BY <3>1, Zenon DEF Performed
    <3> QED BY <3>1, <3>2, PerformedIs
  <2>3. w.op = "lines" => w.lines \in Seq(Line) /\ w.lines # <<>>
    BY <2>1, Popped, HeadIs
  <2>4. CASE s = w.at /\ w.op = "lines"
    BY <1>1, <2>2, <2>3, <2>4, KeepsAppended
  <2>5. CASE ~(s = w.at /\ w.op = "lines")
    BY <2>2, <2>5, KeepsSame
  <2> QED BY <2>4, <2>5
<1>3. CASE \E p \in Process : Die(p)
  <2>1. PICK p \in Process : Die(p)
    BY <1>3
  <2> SUFFICES ASSUME NEW w, w = Head(todo[p]) PROVE Keeps(s)
    OBVIOUS
  <2>2. /\ synced' = synced
        /\ \/ UNCHANGED <<file, bare>>
           \/ /\ w.at \in Session /\ Torn(w) /\ w.lines \in Seq(Line)
              /\ \A t \in Session : t # w.at => file'[t] = file[t] /\ (t \in bare' <=> t \in bare)
    BY <2>1, DieState
  <2>3. CASE /\ s = w.at /\ Torn(w) /\ w.lines \in Seq(Line)
    <3>1. PICK k \in DOMAIN w.lines : file' = [file EXCEPT ![w.at] = Appended(w.at, SubSeq(w.lines, 1, k))]
      BY <2>3 DEF Torn
    <3> DEFINE l == SubSeq(w.lines, 1, k)
    <3>2. k \in 1 .. Len(w.lines) /\ k \in 0 .. Len(w.lines) /\ Len(w.lines) \in Nat
      BY <2>3
    <3>3. l \in Seq(Line) /\ Len(l) = k
      BY <2>3, <3>2, FirstIs
    <3>4. file'[s] = Appended(s, l)
      BY <1>1, <2>3, <3>1 DEF Types
    <3> HIDE DEF l
    <3>5. l # <<>>
      BY <3>2, <3>3
    <3> QED BY <1>1, <2>2, <3>3, <3>4, <3>5, KeepsAppended
  <2>4. CASE file'[s] = file[s] /\ (s \in bare' <=> s \in bare)
    BY <2>2, <2>4, KeepsSame
  <2> QED BY <2>2, <2>3, <2>4
<1>4. CASE LosePower
  <2>1. PICK kept \in [Session -> Int] : Lost(kept)
    BY <1>4, LostIs
  <2>2. /\ kept[s] \in Nat /\ synced[s] <= kept[s] /\ kept[s] <= Len(file[s])
        /\ synced'[s] = Len(file'[s])
        /\ s \in bare' <=> s \in bare /\ kept[s] = Len(file[s])
        /\ s \in bare' => file'[s] = file[s]
        /\ Len(file'[s]) \in Nat /\ kept[s] <= Len(file'[s])
        /\ \A k \in 1 .. kept[s] : file'[s][k] = file[s][k]
    BY <2>1 DEF Lost
  <2>3. /\ Firm(s) \in Int /\ Firm(s) <= synced[s] /\ synced[s] <= Len(file[s])
        /\ s \in bare => Firm(s) <= Len(file[s]) - 1
        /\ Len(file[s]) \in Nat /\ synced[s] \in Nat
    BY FirmIs
  <2>4. CASE s \in bare'
    <3>1. Firm(s)' = Len(file[s]) - 1 /\ file'[s] = file[s]
      BY <2>2, <2>4 DEF Firm
    <3> QED BY <2>2, <2>3, <2>4, <3>1 DEF Keeps
  <2>5. CASE s \notin bare'
    <3>1. Firm(s)' = Len(file'[s])
      BY <2>2, <2>5 DEF Firm
    <3>2. Firm(s) <= kept[s] /\ Firm(s) <= Firm(s)' /\ Firm(s)' \in Int
      BY <2>2, <2>3, <3>1
    <3> QED BY <2>2, <2>3, <3>1, <3>2 DEF Keeps
  <2> QED BY <2>4, <2>5
<1>5. CASE UNCHANGED <<file, bare, synced>>
  BY <1>5, KeepsSame
<1>6. [Next]_vars => \/ \E p \in Process : Perform(p)
                     \/ \E p \in Process : Die(p)
                     \/ LosePower
                     \/ UNCHANGED <<file, bare, synced>>
  BY ZenonT(60) DEF Next, vars, disk, memory, CreateSession, StartRun, AppendEvent, Finalize, Abandon, BeginCompaction,
         FailCompaction, EndCompaction, NameSession, SetMode, BeginFork, CopyFork, DescribeFork, NameFork,
         GiveUpFork
<1> QED BY <1>2, <1>3, <1>4, <1>5, <1>6

\* The runs that the backend is finalizing.
Finalizing(s) ==
  {r \in Run : \E i \in 1 .. Len(todo["backend"]) :
     /\ todo["backend"][i].op = "return" /\ todo["backend"][i].at = s
     /\ r \in todo["backend"][i].runs}

\* The file when the lines pending are written.
Planned(p, s) == Appended(s, Pending(p, s))

\* The lines end with what the appender has written of its run.
Begun(lines, w) ==
  LET n == IF w.ended THEN Len(lines) - 1 ELSE Len(lines)
  IN  \E i \in 1 .. n :
        /\ lines[i] \in {Of("run", w.run), Garbage}
        /\ \A k \in i + 1 .. n : lines[k] = Of("event", w.run)
        /\ w.ended => lines[n + 1] = Of("end", w.run)

Stored(s) == \A r \in done[s] : HoldsBy(file[s], r, Firm(s))
Streams(s) == \A w \in writing[s] : w.run \notin Finalizing(s) => Begun(Planned("backend", s), w)
Storing(s) ==
  \A r \in Finalizing(s) :
    IF Pending("backend", s) # <<>>
    THEN Head(todo["backend"]).sync /\ HoldsBy(Planned("backend", s), r, Len(Planned("backend", s)))
    ELSE HoldsBy(file[s], r, Firm(s))

Durably == \A s \in Session : Stored(s) /\ Streams(s) /\ Storing(s)

\* What is stored stays stored.
LEMMA StoredSame ==
  ASSUME Frame, BoundsAssumption, [Next]_vars, NEW s \in Session, Stored(s), done'[s] = done[s]
  PROVE  Stored(s)'
<1>1. Keeps(s)
  BY KeepsStep
<1> DEFINE f == file'[s]
           m == Firm(s)'
<1>2. /\ Firm(s) \in Int /\ m \in Int /\ Firm(s) <= m
      /\ \A k \in 1 .. Firm(s) : f[k] = file[s][k]
  BY <1>1 DEF Keeps
<1> HIDE DEF f, m
<1>3. ASSUME NEW r \in done[s] PROVE HoldsBy(f, r, m)
  <2>1. HoldsBy(file[s], r, Firm(s))
    BY DEF Stored
  <2> QED BY <1>2, <2>1, HoldsMore
<1> QED BY <1>3 DEF Stored, f, m

\* The backend's writes to one session finalize no run of another.
LEMMA FinalizingIs ==
  ASSUME Frame, NEW s \in Session
  PROVE  /\ Finalizing(s) # {} => todo["backend"] # <<>> /\ Head(todo["backend"]).at = s /\ held[s] # "free"
         /\ todo["backend"] = <<>> => Finalizing(s) = {}
         /\ Planned("backend", s) = IF Pending("backend", s) = <<>> THEN file[s]
                                    ELSE Appended(s, Pending("backend", s))
<1>1. Types /\ Shape /\ Returns /\ "backend" \in Process
  BY DEF Frame, Process
<1>2. ASSUME Finalizing(s) # {}
      PROVE  todo["backend"] # <<>> /\ Head(todo["backend"]).at = s /\ held[s] # "free"
  <2>1. PICK i \in 1 .. Len(todo["backend"]) : todo["backend"][i].op = "return" /\ todo["backend"][i].at = s
    BY <1>2 DEF Finalizing
  <2>2. todo["backend"] # <<>>
    <3>1. todo["backend"] \in Seq(Write)
      BY <1>1 DEF Types
    <3> QED BY <2>1, <3>1
  <2> QED BY <1>1, <2>1, <2>2 DEF Shape, Returns
<1>3. file[s] \in Seq(Line)
  BY <1>1 DEF Types
<1>4. Appended(s, <<>>) = file[s]
  BY <1>3 DEF Appended
<1> QED BY <1>2, <1>4 DEF Planned

\* With nothing to write, the file is what it will be.
LEMMA PlannedNone ==
  ASSUME Frame', NEW s \in Session, NEW p \in Process, Pending(p, s)' = <<>>
  PROVE  Planned(p, s)' = file'[s]
<1>1. file'[s] \in Seq(Line)
  BY DEF Frame, Types
<1> QED BY <1>1 DEF Planned, Appended

\* A session whose file and appender the step leaves alone.
LEMMA StreamsSame ==
  ASSUME Frame, Frame', NEW s \in Session, Streams(s), Storing(s),
         \/ todo'["backend"] = todo["backend"]
         \/ todo'["backend"] = <<>> /\ writing'[s] = {},
         writing'[s] = {} \/ writing'[s] = writing[s],
         \/ file'[s] = file[s] /\ synced'[s] = synced[s] /\ (s \in bare' <=> s \in bare)
         \/ held[s] = "free" /\ writing'[s] = {}
  PROVE  Streams(s)' /\ Storing(s)'
<1>1. CASE todo'["backend"] = <<>>
  <2>1. Finalizing(s)' = {} \/ todo'["backend"] # <<>>
    <3>1. Len(<<>>) = 0
      OBVIOUS
    <3> QED BY <1>1, <3>1 DEF Finalizing
  <2>2. CASE writing'[s] = {}
    BY <1>1, <2>1, <2>2 DEF Streams, Storing
  <2>3. CASE writing'[s] # {}
    <3>1. todo'["backend"] = todo["backend"] /\ writing'[s] = writing[s]
      BY <2>3
    <3>2. Pending("backend", s)' = <<>> /\ Pending("backend", s) = <<>> /\ Finalizing(s) = {}
      BY <1>1, <3>1, FinalizingIs DEF Pending
    <3>3. Planned("backend", s) = file[s]
      BY <3>2, FinalizingIs
    <3>4. Planned("backend", s)' = file'[s]
      <4>1. file'[s] \in Seq(Line)
        BY DEF Frame, Types
      <4> QED BY <3>2, <4>1 DEF Planned, Appended
    <3>5. file'[s] = file[s]
      BY <2>3
    <3> QED BY <1>1, <2>1, <3>1, <3>2, <3>3, <3>4, <3>5 DEF Streams, Storing
  <2> QED BY <2>2, <2>3
<1>2. CASE todo'["backend"] = todo["backend"]
  <2>1. Finalizing(s)' = Finalizing(s) /\ Pending("backend", s)' = Pending("backend", s)
    BY <1>2 DEF Finalizing, Pending
  <2>2. CASE file'[s] = file[s] /\ synced'[s] = synced[s] /\ (s \in bare' <=> s \in bare)
    <3>1. Planned("backend", s)' = Planned("backend", s)
      BY <2>1, <2>2 DEF Planned, Appended
    <3>2. Firm(s)' = Firm(s)
      BY <2>2 DEF Firm
    <3> QED BY <1>2, <2>1, <2>2, <3>1, <3>2 DEF Streams, Storing
  <2>3. CASE held[s] = "free" /\ writing'[s] = {}
    <3>1. Finalizing(s) = {}
      BY <2>3, FinalizingIs
    <3> QED BY <2>1, <2>3, <3>1 DEF Streams, Storing
  <2> QED BY <2>2, <2>3
<1> QED BY <1>1, <1>2

\* A session that the backend has nothing to write to, before and after.
LEMMA StreamsElsewhere ==
  ASSUME Frame, Frame', NEW s \in Session, Streams(s),
         todo["backend"] = <<>> \/ Head(todo["backend"]).at # s,
         todo'["backend"] = <<>> \/ Head(todo'["backend"]).at # s,
         writing'[s] = writing[s], file'[s] = file[s]
  PROVE  Streams(s)' /\ Storing(s)'
<1>1. Finalizing(s) = {} /\ Pending("backend", s) = <<>> /\ Pending("backend", s)' = <<>>
  BY FinalizingIs DEF Pending
<1>2. Finalizing(s)' = {}
  <2>1. Types' /\ Shape' /\ "backend" \in Process
    BY DEF Frame, Process
  <2>2. \A i \in 1 .. Len(todo'["backend"]) :
          todo'["backend"] # <<>> /\ todo'["backend"][i].at = Head(todo'["backend"]).at
    <3>1. todo'["backend"] \in Seq(Write)
      BY <2>1 DEF Types
    <3> QED BY <2>1, <3>1 DEF Shape
  <2> QED BY <2>2 DEF Finalizing
<1>3. Planned("backend", s) = file[s] /\ Planned("backend", s)' = file[s]
  <2>1. file[s] \in Seq(Line)
    BY DEF Frame, Types
  <2> QED BY <1>1, <2>1 DEF Planned, Appended
<1> QED BY <1>1, <1>2, <1>3 DEF Streams, Storing

\* The lines begin or continue what the writers stream, or finalize it for good.
Continues(s, lines, sync, returns, writers) ==
  /\ \A w \in writers : w.run \in Run /\ ({w.run} \in returns \/ Begun(Appended(s, lines), w))
  /\ \A runs \in returns : \A r \in runs :
       lines # <<>> /\ sync = TRUE /\ HoldsBy(Appended(s, lines), r, Len(Appended(s, lines)))

\* A command that continues the run leaves what it will have written.
LEMMA StreamsPlans ==
  ASSUME Frame, Frame', \A t \in Session : Streams(t),
         NEW s \in Session, NEW lines \in Seq(Line), NEW sync, NEW names, NEW returns,
         Plans("backend", s, lines, sync, names, returns), UNCHANGED disk,
         NEW h, NEW w, NEW o, Takes(s, h, w, o), Continues(s, lines, sync, returns, w)
  PROVE  \A t \in Session : Streams(t)' /\ Storing(t)'
<1>1. Types /\ "backend" \in Process
  BY DEF Frame, Process
<1>2. /\ todo["backend"] = <<>> /\ Plan(todo'["backend"], s, lines, sync, names, returns)
      /\ todo'["backend"] # <<>> => Head(todo'["backend"]).at = s
      /\ \A t \in Session : Pending("backend", t)' = (IF t = s THEN lines ELSE <<>>)
  BY <1>1, PlansEffect
<1>3. UNCHANGED <<file, bare, synced>>
  BY DEF disk
<1>4. writing'[s] = w /\ \A t \in Session : t # s => writing'[t] = writing[t]
  BY <1>1 DEF Takes, Types
<1>5. ASSUME NEW t \in Session, t # s PROVE Streams(t)' /\ Storing(t)'
  BY <1>2, <1>3, <1>4, <1>5, StreamsElsewhere
<1>6. Pending("backend", s)' = lines
  BY <1>2
<1>7. Planned("backend", s)' = Appended(s, lines)
  BY <1>3, <1>6 DEF Planned, Appended
<1>8. /\ \A i \in 1 .. Len(todo'["backend"]) :
           /\ todo'["backend"][i].at = s
           /\ todo'["backend"][i].op = "return" => todo'["backend"][i].runs \in returns
      /\ \A runs \in returns : \E i \in 1 .. Len(todo'["backend"]) :
           todo'["backend"][i].op = "return" /\ todo'["backend"][i].runs = runs
      /\ lines # <<>> => Head(todo'["backend"]) = [op |-> "lines", at |-> s, lines |-> lines, sync |-> sync]
  BY <1>2 DEF Plan
<1>9. \A r \in Finalizing(s)' : \E runs \in returns : r \in runs
  BY <1>8 DEF Finalizing
<1>10. \A r \in Run : {r} \in returns => r \in Finalizing(s)'
  BY <1>8 DEF Finalizing
<1>11. Streams(s)'
  BY <1>4, <1>7, <1>10 DEF Streams, Continues
<1>12. Storing(s)'
  <2>1. ASSUME NEW r \in Finalizing(s)'
        PROVE  /\ lines # <<>> /\ Head(todo'["backend"]).sync
               /\ HoldsBy(Appended(s, lines), r, Len(Appended(s, lines)))
    <3>1. PICK runs \in returns : r \in runs
      BY <1>9, <2>1
    <3>2. /\ lines # <<>> /\ sync = TRUE /\ HoldsBy(Appended(s, lines), r, Len(Appended(s, lines)))
      BY <3>1 DEF Continues
    <3> QED BY <1>8, <3>2
  <2> QED BY <1>6, <1>7, <2>1 DEF Storing
<1> QED BY <1>5, <1>11, <1>12

\* The backend's next write is none that returns.
LEMMA FinalizingPopped ==
  ASSUME Frame, Perform("backend"), NEW s \in Session, Head(todo["backend"]).op # "return"
  PROVE  Finalizing(s)' = Finalizing(s)
<1>1. todo["backend"] \in Seq(Write) /\ todo["backend"] # <<>> /\ todo'["backend"] = Tail(todo["backend"])
  BY DEF Frame, Types, Perform, Free, Process
<1> DEFINE q == todo["backend"]
           l == todo'["backend"]
<1>2. /\ Head(q) = q[1] /\ Len(l) = Len(q) - 1 /\ Len(q) \in Nat
      /\ \A i \in 1 .. Len(l) : i + 1 \in 1 .. Len(q) /\ l[i] = q[i + 1]
  BY <1>1, TailIs
<1> HIDE DEF q, l
<1>3. \A i \in 1 .. Len(q) : i = 1 \/ (i - 1 \in 1 .. Len(l) /\ l[i - 1] = q[i])
  <2>1. ASSUME NEW i \in 1 .. Len(q), i # 1 PROVE i - 1 \in 1 .. Len(l) /\ l[i - 1] = q[i]
    <3>1. i - 1 \in 1 .. Len(l) /\ (i - 1) + 1 = i
      BY <1>2, <2>1
    <3> QED BY <1>2, <3>1
  <2> QED BY <2>1
<1>4. ASSUME NEW r \in Run
      PROVE  (\E i \in 1 .. Len(l) : l[i].op = "return" /\ l[i].at = s /\ r \in l[i].runs)
               <=> \E i \in 1 .. Len(q) : q[i].op = "return" /\ q[i].at = s /\ r \in q[i].runs
  <2>1. q[1].op # "return"
    BY <1>2 DEF q
  <2> QED BY <1>2, <1>3, <2>1
<1> QED BY <1>4 DEF Finalizing, q, l

\* A write of the backend, at the session it is to.
LEMMA DurablyWrites ==
  ASSUME Frame, Frame', Perform("backend"), NEW w, w = Head(todo["backend"]), NEW s, s = w.at,
         Performed(w), Stored(s), Streams(s), Storing(s)
  PROVE  /\ Streams(s)' /\ Storing(s)'
         /\ w.op = "return" => Stored(s)'
<1>1. "backend" \in Process /\ Types /\ Types'
  BY DEF Frame, Process
<1>2. /\ s \in Session /\ todo["backend"] # <<>> /\ w = todo["backend"][1]
      /\ w.op = "lines" => /\ Pending("backend", s) = w.lines /\ w.lines \in Seq(Line) /\ w.lines # <<>>
                           /\ w.sync \in BOOLEAN
      /\ w.op # "lines" => Pending("backend", s) = <<>>
      /\ w.op = "return" => w.runs \in SUBSET Run
  BY <1>1, Popped, HeadIs
<1>3. /\ file'[s] = (IF w.op = "lines" THEN Appended(s, w.lines) ELSE file[s])
      /\ (IF w.op = "lines" THEN s \notin bare' ELSE bare' = bare)
      /\ synced'[s] = (IF w.op = "lines" /\ w.sync THEN Len(file'[s]) ELSE synced[s])
      /\ writing'[s] = (IF w.op = "return" THEN {} ELSE writing[s])
      /\ done'[s] = IF w.op = "return" THEN done[s] \cup w.runs ELSE done[s]
  BY Zenon DEF Performed
<1>4. file[s] \in Seq(Line) /\ file'[s] \in Seq(Line)
  BY <1>1, <1>2 DEF Types
<1>5. Planned("backend", s) = IF w.op = "lines" THEN Appended(s, w.lines) ELSE file[s]
  BY <1>2, FinalizingIs
<1>6. ASSUME Pending("backend", s)' = <<>> PROVE Planned("backend", s)' = file'[s]
  BY <1>1, <1>2, <1>6, PlannedNone
<1>7. CASE w.op = "return"
  <2>1. 1 = Len(todo["backend"])
    <3>1. 1 \in 1 .. Len(todo["backend"])
      BY <1>1, Popped
    <3> QED BY ZenonT(60), <1>1, <1>2, <1>7, <3>1 DEF Frame, Shape
  <2>2. \A i \in 1 .. Len(todo'["backend"]) : FALSE
    <3>1. todo["backend"] \in Seq(Write) /\ todo'["backend"] = Tail(todo["backend"])
      BY <1>1 DEF Types, Perform, Free
    <3> DEFINE q == todo["backend"]
    <3>2. q \in Seq(Write) /\ q # <<>> /\ Len(q) = 1
      BY <1>2, <2>1, <3>1
    <3> HIDE DEF q
    <3>3. Len(Tail(q)) = 0
      BY <3>2, TailIs
    <3>4. Len(todo'["backend"]) = 0
      BY <3>1, <3>3 DEF q
    <3> QED BY <3>4
  <2>3. Finalizing(s)' = {}
    BY <2>2 DEF Finalizing
  <2>4. Streams(s)' /\ Storing(s)'
    BY <1>3, <1>7, <2>3 DEF Streams, Storing
  <2>5. file'[s] = file[s] /\ Firm(s)' = Firm(s) /\ done'[s] = done[s] \cup w.runs
    BY <1>3, <1>7 DEF Firm
  <2>6. \A r \in w.runs : r \in Finalizing(s)
    <3>1. 1 \in 1 .. Len(todo["backend"])
      BY <1>1, Popped
    <3> QED BY <1>2, <1>7, <3>1 DEF Finalizing
  <2>7. \A r \in w.runs : HoldsBy(file[s], r, Firm(s))
    BY <1>2, <1>7, <2>6 DEF Storing
  <2>8. Stored(s)'
    <3>1. ASSUME NEW r \in done[s] \cup w.runs PROVE HoldsBy(file[s], r, Firm(s))
      BY <2>7 DEF Stored
    <3> QED BY <2>5, <3>1 DEF Stored
  <2> QED BY <2>4, <2>8
<1>8. CASE w.op # "return"
  <2>1. Finalizing(s)' = Finalizing(s) /\ writing'[s] = writing[s]
    BY <1>2, <1>3, <1>8, FinalizingPopped
  <2>2. file'[s] = Planned("backend", s)
    BY <1>3, <1>5
  <2>3. CASE Pending("backend", s)' = <<>>
    <3>1. Streams(s)'
      BY <1>6, <2>1, <2>2, <2>3 DEF Streams
    <3>2. ASSUME NEW r \in Finalizing(s)' PROVE HoldsBy(file'[s], r, Firm(s)')
      <4>1. CASE w.op = "lines"
        <5>1. w.sync /\ HoldsBy(file'[s], r, Len(file'[s]))
          BY <1>2, <2>1, <2>2, <3>2, <4>1 DEF Storing
        <5>2. Firm(s)' = Len(file'[s])
          BY <1>3, <4>1, <5>1 DEF Firm
        <5> QED BY <5>1, <5>2
      <4>2. CASE w.op # "lines"
        <5>1. HoldsBy(file[s], r, Firm(s))
          BY <1>2, <2>1, <3>2, <4>2 DEF Storing
        <5>2. Firm(s)' = Firm(s) /\ file'[s] = file[s]
          BY <1>3, <4>2 DEF Firm
        <5> QED BY <5>1, <5>2
      <4> QED BY <4>1, <4>2
    <3>3. Storing(s)'
      BY <2>3, <3>2 DEF Storing
    <3> QED BY <1>8, <3>1, <3>3
  <2>4. CASE Pending("backend", s)' # <<>>
    <3>1. 2 \in 1 .. Len(todo["backend"]) /\ todo["backend"][2].op = "lines" /\ todo["backend"][2].lines = <<Docs>>
      BY <1>1, <1>2, <2>4, Popped
    <3>2. todo["backend"][2].at = s
      BY <1>1, <1>2, <3>1 DEF Frame, Shape
    <3>3. held[s] = "free"
      BY <3>1, <3>2 DEF Frame, Creating, Beginning
    <3>4. Finalizing(s) = {} /\ writing[s] = {}
      BY <1>2, <3>3, FinalizingIs DEF Frame, Locks
    <3> QED BY <1>8, <2>1, <3>4 DEF Streams, Storing
  <2> QED BY <2>3, <2>4
<1> QED BY <1>7, <1>8

\* A write gets there, and what is returned has been synced.
LEMMA DurablyPerform ==
  ASSUME Frame, Frame', BoundsAssumption, Durably, NEW p \in Process, Perform(p)
  PROVE  Durably'
<1> SUFFICES ASSUME NEW w, w = Head(todo[p]), NEW s \in Session
             PROVE  Stored(s)' /\ Streams(s)' /\ Storing(s)'
  BY DEF Durably
<1>1. Stored(s) /\ Streams(s) /\ Storing(s)
  BY DEF Durably
<1>2. Performed(w)
  BY WritesState
<1>3. [Next]_vars
  BY DEF Next
<1>4. /\ s # w.at => file'[s] = file[s] /\ writing'[s] = writing[s] /\ done'[s] = done[s]
      /\ s # w.at => synced'[s] = synced[s]
      /\ s # w.at => (s \in bare' <=> s \in bare)
  BY <1>2, PerformedIs
<1>5. /\ writing'[w.at] = (IF w.op = "return" THEN {} ELSE writing[w.at])
      /\ done'[w.at] = IF w.op = "return" THEN done[w.at] \cup w.runs ELSE done[w.at]
  BY <1>2, Zenon DEF Performed
<1>6. CASE p = "backend"
  <2>1. CASE s = w.at
    <3>1. Streams(s)' /\ Storing(s)' /\ (w.op = "return" => Stored(s)')
      BY <1>1, <1>2, <1>6, <2>1, DurablyWrites
    <3>2. w.op # "return" => Stored(s)'
      BY <1>1, <1>3, <1>5, <2>1, StoredSame
    <3> QED BY <3>1, <3>2
  <2>2. CASE s # w.at
    <3>1. Stored(s)'
      BY <1>1, <1>3, <1>4, <2>2, StoredSame
    <3>2. Head(todo["backend"]).at # s /\ (todo'["backend"] # <<>> => Head(todo'["backend"]).at # s)
      BY <1>6, <2>2, Popped
    <3> QED BY <1>1, <1>4, <2>2, <3>1, <3>2, StreamsElsewhere
  <2> QED BY <2>1, <2>2
<1>7. CASE p = "launcher"
  <2>1. todo'["backend"] = todo["backend"] /\ w.op # "return" /\ held[w.at] = "free" /\ w.at \in Session
    <3>1. "backend" \in Process \ {p}
      BY <1>7 DEF Process
    <3>2. todo[p] # <<>> /\ todo'["backend"] = todo["backend"]
      BY <3>1, Popped
    <3>3. Target(w.at) /\ w.op # "return" /\ w.at \in Session
      BY <1>7, <3>2, HeadIs
    <3> QED BY <3>2, <3>3 DEF Frame, Apart
  <2>2. writing'[s] = writing[s] /\ done'[s] = done[s]
    BY <1>4, <1>5, <2>1
  <2>3. Stored(s)'
    BY <1>1, <1>3, <2>2, StoredSame
  <2>4. CASE s = w.at
    <3>1. held[s] = "free" /\ writing'[s] = {}
      BY <2>1, <2>2, <2>4 DEF Frame, Locks
    <3>2. Streams(s)' /\ Storing(s)'
      BY <1>1, <2>1, <2>2, <3>1, StreamsSame
    <3> QED BY <2>3, <3>2
  <2>5. CASE s # w.at
    <3>1. Streams(s)' /\ Storing(s)'
      BY <1>1, <1>4, <2>1, <2>2, <2>5, StreamsSame
    <3> QED BY <2>3, <3>1
  <2> QED BY <2>4, <2>5
<1> QED BY <1>6, <1>7 DEF Process

\* A run's first line, one more event, the lines of its finalization.
LEMMA BegunRun ==
  ASSUME Frame, NEW s \in Session, NEW r \in Run
  PROVE  Begun(Appended(s, <<Of("run", r)>>), [run |-> r, events |-> 0, ended |-> FALSE])
<1> DEFINE g == Appended(s, <<Of("run", r)>>)
           v == [run |-> r, events |-> 0, ended |-> FALSE]
           n == IF s \in bare /\ <<Of("run", r)>> # <<>> THEN Len(file[s]) - 1 ELSE Len(file[s])
<1>1. <<Of("run", r)>> \in Seq(Line) /\ <<Of("run", r)>> # <<>> /\ Len(<<Of("run", r)>>) = 1
      /\ <<Of("run", r)>>[1] = Of("run", r) /\ 1 \in 1 .. Len(<<Of("run", r)>>)
  BY LinesAre DEF OfRun
<1>2. Len(g) = n + 1 /\ n \in Nat /\ g[n + 1] \in {Of("run", r), Garbage}
  <2> DEFINE l == <<Of("run", r)>>
  <2> HIDE DEF l
  <2>1. /\ Len(Appended(s, l)) = n + Len(l) /\ n \in Nat
        /\ \A k \in 1 .. Len(l) :
             Appended(s, l)[n + k] = IF s \in bare /\ k = 1 THEN Garbage ELSE l[k]
    <3>1. l \in Seq(Line)
      BY <1>1 DEF l
    <3> QED BY ZenonT(60), <3>1, AppendedIs DEF l
  <2> QED BY <1>1, <2>1 DEF l
<1>3. v.run = r /\ v.ended = FALSE
  OBVIOUS
<1> HIDE DEF g, v, n
<1>4. Len(g) \in 1 .. Len(g) /\ g[Len(g)] \in {Of("run", v.run), Garbage}
      /\ \A k \in Len(g) + 1 .. Len(g) : g[k] = Of("event", v.run)
  BY <1>2, <1>3
<1>5. Begun(g, v)
  BY <1>3, <1>4 DEF Begun
<1> QED BY <1>5 DEF g, v

\* One more line of the run.
LEMMA BegunMore ==
  ASSUME NEW f \in Seq(Line), NEW w, w.ended = FALSE, Begun(f, w), NEW type \in {"event", "end"},
         NEW v, v.run = w.run, type = "event" => v.ended = FALSE, type = "end" => v.ended = TRUE,
         NEW g, Len(g) = Len(f) + 1, g[Len(f) + 1] = Of(type, w.run), \A k \in 1 .. Len(f) : g[k] = f[k]
  PROVE  Begun(g, v)
<1>1. Len(f) \in Nat /\ Len(g) - 1 = Len(f) /\ Len(g) \in Nat
  OBVIOUS
<1>2. PICK i \in 1 .. Len(f) : /\ f[i] \in {Of("run", w.run), Garbage}
                               /\ \A k \in i + 1 .. Len(f) : f[k] = Of("event", w.run)
  BY DEF Begun
<1>3. g[i] \in {Of("run", v.run), Garbage} /\ \A k \in i + 1 .. Len(f) : g[k] = Of("event", v.run)
  BY <1>1, <1>2
<1>4. CASE type = "event"
  <2>1. v.ended = FALSE /\ i \in 1 .. Len(g)
    BY <1>1, <1>4
  <2>2. \A k \in i + 1 .. Len(g) : k \in i + 1 .. Len(f) \/ k = Len(f) + 1
    BY <1>1
  <2>3. \A k \in i + 1 .. Len(g) : g[k] = Of("event", v.run)
    BY <1>3, <1>4, <2>2
  <2> QED BY <1>3, <2>1, <2>3 DEF Begun
<1>5. CASE type = "end"
  <2>1. v.ended = TRUE /\ i \in 1 .. Len(g) - 1 /\ g[(Len(g) - 1) + 1] = Of("end", v.run)
    BY <1>1, <1>5
  <2>2. \A k \in i + 1 .. Len(g) - 1 : g[k] = Of("event", v.run)
    BY <1>1, <1>3
  <2> QED BY <1>3, <2>1, <2>2 DEF Begun
<1> QED BY <1>4, <1>5

\* A run that ended is held once its messages are there.
LEMMA BegunHolds ==
  ASSUME NEW f \in Seq(Line), NEW w, w.ended = TRUE, Begun(f, w),
         NEW g, Len(g) \in Nat, Len(g) > Len(f), g[Len(f) + 1] = Of("messages", w.run),
         \A k \in 1 .. Len(f) : g[k] = f[k]
  PROVE  HoldsBy(g, w.run, Len(g))
<1>1. Len(f) \in Nat
  OBVIOUS
<1>2. PICK i \in 1 .. Len(f) - 1 : /\ f[i] \in {Of("run", w.run), Garbage}
                                   /\ \A k \in i + 1 .. Len(f) - 1 : f[k] = Of("event", w.run)
                                   /\ f[(Len(f) - 1) + 1] = Of("end", w.run)
  BY DEF Begun
<1> DEFINE j == Len(f) + 1
<1>3. j \in 2 .. Len(g) /\ i \in 1 .. j - 1 /\ j - 1 = Len(f) /\ j - 2 = Len(f) - 1
      /\ (Len(f) - 1) + 1 = Len(f) /\ Len(f) \in 1 .. Len(f) /\ i \in 1 .. Len(f)
  BY <1>1
<1>4. /\ g[i] \in {Of("run", w.run), Garbage} /\ g[j] = Of("messages", w.run)
      /\ g[j - 1] = Of("end", w.run)
  BY <1>2, <1>3
<1>5. \A k \in i + 1 .. j - 2 : g[k] = Of("event", w.run)
  BY <1>1, <1>2, <1>3
<1> HIDE DEF j
<1> QED BY <1>3, <1>4, <1>5 DEF HoldsBy

\* What each command of the backend begins, continues or finalizes.
LEMMA StartRunContinues ==
  ASSUME Frame, NEW s \in Session, NEW r \in Run
  PROVE  Continues(s, <<Of("run", r)>>, FALSE, {}, {[run |-> r, events |-> 0, ended |-> FALSE]})
<1> DEFINE v == [run |-> r, events |-> 0, ended |-> FALSE]
<1>1. v.run \in Run /\ Begun(Appended(s, <<Of("run", r)>>), v)
  BY BegunRun
<1> HIDE DEF v
<1>2. Continues(s, <<Of("run", r)>>, FALSE, {}, {v})
  BY <1>1 DEF Continues
<1> QED BY <1>2 DEF v

\* Before the backend plans, the file is what it has streamed.
LEMMA StreamedIs ==
  ASSUME Frame, NEW s \in Session, Streams(s), todo["backend"] = <<>>
  PROVE  \A w \in writing[s] : Begun(file[s], w)
<1>1. Finalizing(s) = {} /\ Planned("backend", s) = file[s]
  BY FinalizingIs DEF Pending
<1> QED BY <1>1 DEF Streams

\* A file without a bare last line, with lines appended.
LEMMA AppendedWhole ==
  ASSUME Frame, NEW s \in Session, NEW l \in Seq(Line), s \notin bare
  PROVE  LET g == Appended(s, l)
         IN  /\ g \in Seq(Line) /\ Len(g) = Len(file[s]) + Len(l)
             /\ Len(file[s]) \in Nat /\ Len(l) \in Nat
             /\ \A k \in 1 .. Len(file[s]) : g[k] = file[s][k]
             /\ \A k \in 1 .. Len(l) : g[Len(file[s]) + k] = l[k]
<1> DEFINE f == file[s]
           g == Appended(s, l)
<1>1. f \in Seq(Line) /\ g = f \o l
  BY DEF Frame, Types, Appended
<1> HIDE DEF f, g
<1>2. /\ g \in Seq(Line) /\ Len(f) \in Nat /\ Len(l) \in Nat /\ Len(g) = Len(f) + Len(l)
      /\ \A k \in 1 .. Len(g) : g[k] = IF k <= Len(f) THEN f[k] ELSE l[k - Len(f)]
  BY <1>1, ConcatProperties
<1>3. \A k \in 1 .. Len(f) : k \in 1 .. Len(g) /\ k <= Len(f)
  BY <1>2
<1>4. \A k \in 1 .. Len(l) : /\ Len(f) + k \in 1 .. Len(g) /\ ~(Len(f) + k <= Len(f))
                              /\ (Len(f) + k) - Len(f) = k
  BY <1>2
<1> QED BY <1>2, <1>3, <1>4 DEF f, g

\* append continues the run.
LEMMA AppendEventContinues ==
  ASSUME Frame, NEW s \in Session, Streams(s), todo["backend"] = <<>>, NEW w \in writing[s],
         w.ended = FALSE, s \notin bare, NEW type \in {"event", "end"}, NEW v, v.run = w.run,
         type = "event" => v.ended = FALSE, type = "end" => v.ended = TRUE
  PROVE  Continues(s, <<Of(type, w.run)>>, FALSE, {}, {v})
<1>1. w.run \in Run /\ file[s] \in Seq(Line) /\ Len(file[s]) \in Nat
  BY DEF Frame, Types, Writer
<1> DEFINE l == <<Of(type, w.run)>>
           g == Appended(s, l)
<1>2. l \in Seq(Line) /\ Len(l) = 1 /\ l # <<>> /\ l[1] = Of(type, w.run)
  BY <1>1, LinesAre DEF OfRun
<1> HIDE DEF l
<1>3. /\ Len(g) = Len(file[s]) + Len(l) /\ \A k \in 1 .. Len(file[s]) : g[k] = file[s][k]
      /\ \A k \in 1 .. Len(l) : g[Len(file[s]) + k] = l[k]
  BY <1>2, AppendedWhole
<1> HIDE DEF g
<1>4. Len(g) = Len(file[s]) + 1 /\ g[Len(file[s]) + 1] = Of(type, w.run)
  BY <1>2, <1>3
<1>5. Begun(file[s], w)
  BY StreamedIs
<1>6. Begun(g, v)
  BY <1>1, <1>3, <1>4, <1>5, BegunMore
<1>7. Continues(s, l, FALSE, {}, {v})
  BY <1>1, <1>6 DEF Continues, g
<1> QED BY <1>7 DEF l

\* finalize continues it to its end.
LEMMA FinalizeContinues ==
  ASSUME Frame, NEW s \in Session, Streams(s), todo["backend"] = <<>>, NEW w \in writing[s],
         w.ended, s \notin bare, NEW extras \in SUBSET Trailer
  PROVE  Continues(s, Ending(w.run, extras), TRUE, {{w.run}}, writing[s])
<1>1. w.run \in Run /\ file[s] \in Seq(Line) /\ Len(file[s]) \in Nat /\ w.ended = TRUE
  BY DEF Frame, Types, Writer
<1> DEFINE l == Ending(w.run, extras)
           g == Appended(s, l)
<1>2. l \in Seq(Line) /\ Len(l) \in Nat /\ Len(l) > 0 /\ l # <<>> /\ l[1] = Of("messages", w.run)
  BY <1>1, EndingIs
<1> HIDE DEF l
<1>3. /\ Len(g) = Len(file[s]) + Len(l) /\ \A k \in 1 .. Len(file[s]) : g[k] = file[s][k]
      /\ \A k \in 1 .. Len(l) : g[Len(file[s]) + k] = l[k]
  BY <1>2, AppendedWhole
<1> HIDE DEF g
<1>4. Len(g) \in Nat /\ Len(g) > Len(file[s]) /\ g[Len(file[s]) + 1] = Of("messages", w.run)
  <2>1. 1 \in 1 .. Len(l)
    BY <1>2
  <2> QED BY <1>1, <1>2, <1>3, <2>1
<1>5. Begun(file[s], w)
  BY StreamedIs
<1>6. HoldsBy(g, w.run, Len(g))
  BY <1>1, <1>3, <1>4, <1>5, BegunHolds
<1>7. \A v \in writing[s] : v = w
  BY DEF Frame, Locks
<1>8. Continues(s, l, TRUE, {{w.run}}, writing[s])
  BY <1>1, <1>2, <1>6, <1>7 DEF Continues, g
<1> QED BY <1>8 DEF l

\* The other commands have no run to continue.
LEMMA OthersContinue ==
  ASSUME Frame, NEW s \in Session, Streams(s), todo["backend"] = <<>>
  PROVE  /\ Continues(s, <<>>, TRUE, {}, writing[s])
         /\ \A lines, sync : Continues(s, lines, sync, {}, {}) /\ Continues(s, lines, sync, {{}}, {})
<1>1. Appended(s, <<>>) = file[s]
  <2>1. file[s] \in Seq(Line)
    BY DEF Frame, Types
  <2> QED BY <2>1 DEF Appended
<1>2. \A w \in writing[s] : w.run \in Run /\ Begun(file[s], w)
  BY StreamedIs DEF Frame, Types, Writer
<1> QED BY <1>1, <1>2 DEF Continues

\* The commands of the backend keep the run's lines in line with its writer.
LEMMA StreamsCommand ==
  ASSUME Frame, Frame', BoundsAssumption, \A t \in Session : Streams(t), NEW s \in Session,
         \/ \E docs \in BOOLEAN : CreateSession(s, docs)
         \/ \E r \in Run : StartRun(s, r)
         \/ \E type \in {"event", "end"} : AppendEvent(s, type)
         \/ \E extras \in SUBSET Extras : Finalize(s, extras)
         \/ FailCompaction(s) \/ EndCompaction(s) \/ SetMode(s)
         \/ \E n \in Name : NameSession(s, n)
  PROVE  \A t \in Session : Streams(t)' /\ Storing(t)'
<1>1. Types /\ Streams(s) /\ "backend" \in Process
  BY DEF Frame, Process
<1>2. todo["backend"] = <<>> /\ UNCHANGED disk
  BY DEF CreateSession, StartRun, AppendEvent, Finalize, FailCompaction, EndCompaction, SetMode, NameSession,
         Does, Free
<1>3. /\ Continues(s, <<>>, TRUE, {}, writing[s])
      /\ \A lines, sync : Continues(s, lines, sync, {}, {}) /\ Continues(s, lines, sync, {{}}, {})
  BY <1>1, <1>2, OthersContinue
<1>4. <<>> \in Seq(Line)
  OBVIOUS
<1>5. CASE \E docs \in BOOLEAN : CreateSession(s, docs)
  <2>1. Plans("backend", s, <<Header>>, TRUE, {{}}, {}) /\ Takes(s, "free", {}, {})
    BY <1>5, CreateSessionIs
  <2>2. <<Header>> \in Seq(Line)
    BY LinesAre
  <2>3. Continues(s, <<Header>>, TRUE, {}, {})
    BY <1>3
  <2> QED BY <1>2, <2>1, <2>2, <2>3, StreamsPlans
<1>6. CASE \E r \in Run : StartRun(s, r)
  <2>1. PICK r \in Run : StartRun(s, r)
    BY <1>6
  <2> DEFINE l == <<Of("run", r)>>
             W == {[run |-> r, events |-> 0, ended |-> FALSE]}
  <2>2. Plans("backend", s, l, FALSE, {}, {}) /\ Takes(s, "run", W, {})
    BY <2>1, StartRunIs
  <2>3. l \in Seq(Line)
    BY LinesAre DEF OfRun
  <2>4. Continues(s, l, FALSE, {}, W)
    BY StartRunContinues
  <2> HIDE DEF l, W
  <2> QED BY <1>2, <2>2, <2>3, <2>4, StreamsPlans
<1>7. CASE \E type \in {"event", "end"} : AppendEvent(s, type)
  <2>1. PICK type \in {"event", "end"} : AppendEvent(s, type)
    BY <1>7
  <2>2. PICK w \in writing[s] :
          /\ Plans("backend", s, <<Of(type, w.run)>>, FALSE, {}, {})
          /\ Takes(s, "run", {More(w, type)}, {})
          /\ w.ended = FALSE /\ More(w, type).run = w.run
          /\ More(w, type).ended = (type = "end")
          /\ s \notin bare
    BY <2>1, AppendEventIs
  <2> DEFINE l == <<Of(type, w.run)>>
             v == More(w, type)
  <2>3. (type = "event" => v.ended = FALSE) /\ (type = "end" => v.ended = TRUE) /\ v.run = w.run
    BY <2>2
  <2>4. w.run \in Run /\ type \in OfRun
    BY <1>1, <2>2 DEF Types, Writer, OfRun
  <2>5. l \in Seq(Line)
    BY <2>4, LinesAre
  <2> HIDE DEF v
  <2>6. Continues(s, l, FALSE, {}, {v})
    BY <1>1, <1>2, <2>2, <2>3, AppendEventContinues
  <2>7. Plans("backend", s, l, FALSE, {}, {}) /\ Takes(s, "run", {v}, {})
    BY <2>2 DEF v
  <2> HIDE DEF l
  <2> QED BY <1>2, <2>5, <2>6, <2>7, StreamsPlans
<1>8. CASE \E extras \in SUBSET Extras : Finalize(s, extras)
  <2>1. PICK extras \in SUBSET Extras : Finalize(s, extras)
    BY <1>8
  <2>2. PICK w \in writing[s] :
          /\ Plans("backend", s, Ending(w.run, extras), TRUE, {meta[s].name}, {{w.run}})
          /\ Takes(s, "run", writing[s], {})
          /\ w.ended /\ w.run \in Run /\ extras \in SUBSET Trailer
          /\ s \notin bare
    BY <2>1, FinalizeIs
  <2>3. Ending(w.run, extras) \in Seq(Line)
    BY <2>2, EndingIs
  <2>4. Continues(s, Ending(w.run, extras), TRUE, {{w.run}}, writing[s])
    BY <1>1, <1>2, <2>2, FinalizeContinues
  <2> QED BY <1>2, <2>2, <2>3, <2>4, StreamsPlans
<1>9. CASE FailCompaction(s)
  <2>1. Plans("backend", s, <<>>, FALSE, {}, {{}}) /\ Takes(s, "compaction", {}, {})
    BY <1>9, FailCompactionIs
  <2>2. Continues(s, <<>>, FALSE, {{}}, {})
    BY <1>3
  <2> QED BY <1>2, <1>4, <2>1, <2>2, StreamsPlans
<1>10. CASE EndCompaction(s)
  <2>1. /\ Plans("backend", s, <<Compacting(s)>>, TRUE, {meta[s].name}, {{}})
        /\ Takes(s, "compaction", {}, {}) /\ Compacting(s) \in Line
    BY <1>10, EndCompactionIs
  <2>2. <<Compacting(s)>> \in Seq(Line)
    BY <2>1
  <2>3. Continues(s, <<Compacting(s)>>, TRUE, {{}}, {})
    BY <1>3
  <2> QED BY <1>2, <2>1, <2>2, <2>3, StreamsPlans
<1>11. CASE SetMode(s)
  <2>1. Plans("backend", s, <<>>, TRUE, {meta[s].name}, {}) /\ Takes(s, held[s], writing[s], source[s])
    BY <1>11, SetModeIs
  <2> QED BY <1>2, <1>3, <1>4, <2>1, StreamsPlans
<1>12. CASE \E n \in Name : NameSession(s, n)
  <2>1. PICK n \in Name : NameSession(s, n)
    BY <1>12
  <2>2. Plans("backend", s, <<Info(n)>>, TRUE, {{n}}, {}) /\ Takes(s, "free", {}, {})
    BY <2>1, NameSessionIs
  <2>3. <<Info(n)>> \in Seq(Line)
    BY LinesAre
  <2>4. Continues(s, <<Info(n)>>, TRUE, {}, {})
    BY <1>3
  <2> QED BY <1>2, <2>2, <2>3, <2>4, StreamsPlans
<1> QED BY <1>5, <1>6, <1>7, <1>8, <1>9, <1>10, <1>11, <1>12

\* Every step keeps what was returned.
LEMMA DurablyStep ==
  ASSUME Frame, Frame', BoundsAssumption, Durably, [Next]_vars
  PROVE  Durably'
<1>1. Types /\ Types' /\ "backend" \in Process /\ Locks /\ Locks'
  BY DEF Frame, Process
<1>2. \A s \in Session : Stored(s) /\ Streams(s) /\ Storing(s)
  BY DEF Durably
<1>3. CASE \E p \in Process : Perform(p)
  BY <1>3, DurablyPerform
<1>4. ASSUME done' = done, \A s \in Session : Streams(s)' /\ Storing(s)'
      PROVE  Durably'
  <2>1. \A s \in Session : Stored(s)'
    BY <1>2, <1>4, StoredSame
  <2> QED BY <1>4, <2>1 DEF Durably
<1>5. CASE UNCHANGED vars
  <2>1. UNCHANGED <<file, bare, synced, todo, writing, done>>
    BY <1>5 DEF vars, disk, memory
  <2>2. \A s \in Session : Streams(s)' /\ Storing(s)'
    BY <1>2, <2>1, StreamsSame
  <2> QED BY <1>4, <2>1, <2>2
<1>6. CASE LosePower
  <2>1. done' = done /\ todo'["backend"] = <<>> /\ \A s \in Session : held'[s] = "free" /\ writing'[s] = {}
    BY <1>6, LostIs
  <2>2. \A s \in Session : Streams(s)' /\ Storing(s)'
    <3>1. Len(<<>>) = 0
      OBVIOUS
    <3> QED BY <2>1, <3>1 DEF Streams, Storing, Finalizing
  <2> QED BY <1>4, <2>1, <2>2
<1>7. CASE \E p \in Process : Die(p)
  <2>1. PICK p \in Process : Die(p)
    BY <1>7
  <2>2. /\ UNCHANGED <<synced, done>> /\ todo'[p] = <<>> /\ \A r \in Process \ {p} : todo'[r] = todo[r]
        /\ \/ UNCHANGED <<file, bare>>
           \/ /\ todo[p] # <<>> /\ Head(todo[p]).at \in Session
              /\ \A s \in Session : s # Head(todo[p]).at =>
                   file'[s] = file[s] /\ (s \in bare' <=> s \in bare)
    BY <2>1, DieState
  <2>3. ASSUME NEW s \in Session PROVE Streams(s)' /\ Storing(s)'
    <3>1. CASE p = "backend"
      <4>1. writing'[s] = {}
        BY <2>1, <3>1 DEF Die
      <4>2. Len(<<>>) = 0
        OBVIOUS
      <4> QED BY <2>2, <3>1, <4>1, <4>2 DEF Streams, Storing, Finalizing
    <3>2. CASE p = "launcher"
      <4>1. writing' = writing /\ todo'["backend"] = todo["backend"]
        BY <1>1, <2>1, <2>2, <3>2 DEF Die
      <4>2. \/ file'[s] = file[s] /\ synced'[s] = synced[s] /\ (s \in bare' <=> s \in bare)
            \/ todo[p] # <<>> /\ s = Head(todo[p]).at
        BY <2>2
      <4>3. todo[p] # <<>> /\ s = Head(todo[p]).at => held[s] = "free" /\ writing'[s] = {}
        <5>1. todo[p] # <<>> /\ s = Head(todo[p]).at => held[s] = "free"
          BY <3>2 DEF Frame, Apart, Target
        <5> QED BY <1>1, <4>1, <5>1 DEF Locks
      <4> QED BY <1>2, <4>1, <4>2, <4>3, StreamsSame
    <3> QED BY <3>1, <3>2 DEF Process
  <2> QED BY <1>4, <2>2, <2>3
<1>8. CASE \/ GiveUpFork \/ CopyFork \/ DescribeFork \/ NameFork
           \/ \E s \in Session : Abandon(s) \/ BeginCompaction(s)
           \/ \E s \in Session : \E t \in Session \ {s}, names \in {{}} \cup {{n} : n \in ForkNames} :
                BeginFork(s, t, names)
  <2>1. /\ UNCHANGED <<file, bare, synced, done>> /\ todo'["backend"] = todo["backend"]
        /\ \A s \in Session : writing'[s] = {} \/ writing'[s] = writing[s]
    <3>1. CASE GiveUpFork \/ \E s \in Session : \E t \in Session \ {s}, names \in {{}} \cup {{n} : n \in ForkNames} :
                 BeginFork(s, t, names)
      BY <3>1 DEF GiveUpFork, BeginFork, disk, memory
    <3>2. CASE \E s \in Session : Abandon(s)
      BY <1>1, <3>2 DEF Abandon, disk, Types
    <3>3. CASE \E s \in Session : BeginCompaction(s)
      BY <3>3 DEF BeginCompaction, disk
    <3>4. CASE CopyFork \/ DescribeFork \/ NameFork
      <4>1. UNCHANGED <<file, bare, synced, done, writing>>
        BY <3>4 DEF CopyFork, DescribeFork, NameFork, disk
      <4>2. \E q : todo' = [todo EXCEPT !["launcher"] = q]
        BY <3>4 DEF CopyFork, DescribeFork, NameFork, Does
      <4>3. todo'["backend"] = todo["backend"]
        BY <1>1, <4>2 DEF Types
      <4> QED BY <4>1, <4>3
    <3> QED BY <1>8, <3>1, <3>2, <3>3, <3>4
  <2>2. \A s \in Session : Streams(s)' /\ Storing(s)'
    BY <1>2, <2>1, StreamsSame
  <2> QED BY <1>4, <2>1, <2>2
<1>9. ASSUME NEW s \in Session,
             \/ \E docs \in BOOLEAN : CreateSession(s, docs)
             \/ \E r \in Run : StartRun(s, r)
             \/ \E type \in {"event", "end"} : AppendEvent(s, type)
             \/ \E extras \in SUBSET Extras : Finalize(s, extras)
             \/ FailCompaction(s) \/ EndCompaction(s) \/ SetMode(s)
             \/ \E n \in Name : NameSession(s, n)
      PROVE  Durably'
  <2>1. \A t \in Session : Streams(t)' /\ Storing(t)'
    BY <1>2, <1>9, StreamsCommand
  <2>2. done' = done
    BY <1>9 DEF CreateSession, StartRun, AppendEvent, Finalize, FailCompaction, EndCompaction, SetMode, NameSession
  <2> QED BY <1>4, <2>1, <2>2
<1> QED BY <1>3, <1>5, <1>6, <1>7, <1>8, <1>9 DEF Next

\* A run that finalize returned from stays in its file, whole and in order, through
\* later writes, deaths of either process and losses of power: finalize syncs
\* before it returns, and nothing changes a line that was synced, unless it lacks
\* its newline (Firm).
THEOREM AlwaysDurable == BoundsAssumption /\ Spec => []Durable
<1> SUFFICES ASSUME BoundsAssumption PROVE Spec => []Durable
  OBVIOUS
<1>1. Init => Durably
  <2>1. Len(<<>>) = 0
    OBVIOUS
  <2> QED BY <2>1 DEF Init, Durably, Stored, Streams, Storing, Finalizing, Process
<1>2. Frame /\ Frame' /\ Durably /\ [Next]_vars => Durably'
  BY DurablyStep
<1>3. Frame /\ Durably => Durable
  <2> SUFFICES ASSUME Frame, NEW s \in Session, NEW r \in done[s], Stored(s) PROVE HoldsRun(file[s], r)
    BY DEF Durably, Durable
  <2>1. Firm(s) \in Int /\ Firm(s) <= Len(file[s]) /\ Len(file[s]) \in Nat
    BY FirmIs
  <2> DEFINE f == file[s]
             m == Firm(s)
  <2>2. HoldsBy(f, r, m)
    BY DEF Stored
  <2>3. m \in Int /\ m <= Len(f) /\ Len(f) \in Nat /\ DOMAIN f = 1 .. Len(f)
    BY <2>1 DEF Frame, Types
  <2> HIDE DEF f, m
  <2>4. PICK j \in 2 .. m : \E i \in 1 .. j - 1 :
          /\ f[i] \in {Of("run", r), Garbage} /\ f[j] = Of("messages", r)
          /\ f[j - 1] = Of("end", r)
          /\ \A k \in i + 1 .. j - 2 : f[k] = Of("event", r)
    BY <2>2 DEF HoldsBy
  <2>5. PICK i \in 1 .. j - 1 :
          /\ f[i] \in {Of("run", r), Garbage} /\ f[j] = Of("messages", r)
          /\ f[j - 1] = Of("end", r)
          /\ \A k \in i + 1 .. j - 2 : f[k] = Of("event", r)
    BY <2>4
  <2>6. i \in DOMAIN f /\ j \in DOMAIN f /\ i < j
    BY <2>3
  <2>7. HoldsRun(f, r)
    BY <2>5, <2>6 DEF HoldsRun
  <2> QED BY <2>7 DEF f
<1> QED BY <1>1, <1>2, <1>3, FrameAlways, PTL DEF Spec

-----------------------------------------------------------------------------
(* A compaction stands for every run before it.                            *)

Covered(lines) ==
  \A i \in 1 .. Len(lines) : lines[i].type = "compaction" =>
    \A j \in 1 .. i - 1 : lines[j].type = "messages" => lines[j].run \in lines[i].covers

\* In the files, and when what is pending will be written.
Covering == \A s \in Session : Covered(file[s]) /\ \A p \in Process : Covered(Planned(p, s))

\* Lines that stand where they stood, and lines that say nothing of runs.
LEMMA CoveredKept ==
  ASSUME NEW a, NEW b, Len(a) \in Nat, Len(b) \in Nat, Covered(a),
         \A k \in 1 .. Len(b) : (k \in 1 .. Len(a) /\ b[k] = a[k])
                                  \/ b[k].type \notin {"compaction", "messages"}
  PROVE  Covered(b)
<1> SUFFICES ASSUME NEW i \in 1 .. Len(b), b[i].type = "compaction", NEW j \in 1 .. i - 1,
                    b[j].type = "messages"
             PROVE  b[j].run \in b[i].covers
  BY DEF Covered
<1>1. j \in 1 .. Len(b)
  OBVIOUS
<1>2. i \in 1 .. Len(a) /\ b[i] = a[i] /\ b[j] = a[j]
  BY <1>1
<1> QED BY <1>2 DEF Covered

\* One line more.
LEMMA CoveredAppend ==
  ASSUME NEW a \in Seq(Line), Covered(a), NEW e \in Line,
         e.type = "compaction" =>
           \A j \in 1 .. Len(a) : a[j].type = "messages" => a[j].run \in e.covers
  PROVE  Covered(Append(a, e))
<1> DEFINE b == Append(a, e)
<1>1. /\ Len(b) = Len(a) + 1 /\ Len(a) \in Nat /\ b[Len(a) + 1] = e
      /\ \A i \in 1 .. Len(a) : b[i] = a[i]
  BY AppendProperties
<1> HIDE DEF b
<1> SUFFICES ASSUME NEW i \in 1 .. Len(b), b[i].type = "compaction", NEW j \in 1 .. i - 1,
                    b[j].type = "messages"
             PROVE  b[j].run \in b[i].covers
  BY DEF Covered, b
<1>2. j \in 1 .. Len(a) /\ b[j] = a[j] /\ (i \in 1 .. Len(a) \/ i = Len(a) + 1)
  BY <1>1
<1>3. CASE i \in 1 .. Len(a)
  <2>1. b[i] = a[i]
    BY <1>1, <1>3
  <2> QED BY <1>2, <1>3, <2>1 DEF Covered
<1>4. CASE i = Len(a) + 1
  BY <1>1, <1>2, <1>4
<1> QED BY <1>2, <1>3, <1>4

\* Lines without a compaction, joined to a file.
LEMMA CoveredMore ==
  ASSUME Frame, NEW s \in Session, Covered(file[s]), NEW lines \in Seq(Line),
         \A k \in 1 .. Len(lines) : lines[k].type # "compaction"
  PROVE  Covered(Appended(s, lines))
<1> DEFINE n == IF s \in bare /\ lines # <<>> THEN Len(file[s]) - 1 ELSE Len(file[s])
           g == Appended(s, lines)
<1>1. /\ Len(g) = n + Len(lines) /\ n \in Nat /\ n <= Len(file[s])
      /\ Len(lines) \in Nat /\ Len(file[s]) \in Nat
      /\ \A k \in 1 .. n : g[k] = file[s][k]
      /\ \A k \in 1 .. Len(lines) : g[n + k] = IF s \in bare /\ k = 1 THEN Garbage ELSE lines[k]
  BY ZenonT(60), AppendedIs
<1> HIDE DEF n, g
<1>2. \A k \in 1 .. Len(lines) : g[n + k].type # "compaction"
  BY <1>1, LinesDiffer
<1>3. ASSUME NEW k \in 1 .. Len(g), k \notin 1 .. n PROVE g[k].type # "compaction"
  <2>1. k - n \in 1 .. Len(lines) /\ n + (k - n) = k
    BY <1>1, <1>3
  <2> QED BY <1>2, <2>1
<1> SUFFICES ASSUME NEW i \in 1 .. Len(g), g[i].type = "compaction", NEW j \in 1 .. i - 1,
                    g[j].type = "messages"
             PROVE  g[j].run \in g[i].covers
  BY DEF Covered, g
<1>4. i \in 1 .. n /\ j \in 1 .. n
  BY <1>1, <1>3
<1>5. g[i] = file[s][i] /\ g[j] = file[s][j] /\ i \in 1 .. Len(file[s])
  BY <1>1, <1>4
<1> QED BY <1>5 DEF Covered

\* The compaction's line, which stands for the runs of the file; or it is lost.
LEMMA CoveredCompaction ==
  ASSUME Frame, NEW s \in Session, Covered(file[s]), Loads(file[s]), NEW e \in Line,
         e.type = "compaction" => e.covers = ToSet(Load(file[s]).runs)
  PROVE  Covered(Appended(s, <<e>>))
<1>1. file[s] \in Seq(Line) /\ (s \in bare => file[s] # <<>>) /\ Len(file[s]) \in 0 .. Len(file[s])
  BY DEF Frame, Types, Locks
<1> DEFINE f == file[s]
<1>2. \A k \in 1 .. Len(f) : f[k].type = "messages" => f[k].run \in ToSet(Load(f).runs)
  BY <1>1, WalkRemembers DEF Loads, Load, Remembers
<1>3. CASE s \notin bare
  <2>1. Appended(s, <<e>>) = f \o <<e>>
    BY <1>3 DEF Appended
  <2>2. f \o <<e>> = Append(f, e)
    BY <1>1
  <2>3. Covered(Append(f, e))
    BY <1>1, <1>2, CoveredAppend
  <2> QED BY <2>1, <2>2, <2>3
<1>4. CASE s \in bare
  <2> DEFINE l == <<e>>
             g == Appended(s, l)
             n == Len(f) - 1
  <2>1. l \in Seq(Line) /\ l # <<>> /\ Len(l) = 1
    OBVIOUS
  <2> HIDE DEF l
  <2>2. /\ Len(g) = n + 1 /\ n \in Nat /\ n <= Len(f) /\ Len(f) \in Nat
        /\ (\A k \in 1 .. n : g[k] = f[k]) /\ g[n + 1] = Garbage
    <3> DEFINE m == IF s \in bare /\ l # <<>> THEN Len(file[s]) - 1 ELSE Len(file[s])
    <3>1. /\ Len(g) = m + Len(l) /\ m \in Nat /\ m <= Len(file[s])
          /\ Len(file[s]) \in Nat
          /\ \A k \in 1 .. m : g[k] = file[s][k]
          /\ \A k \in 1 .. Len(l) : g[m + k] = IF s \in bare /\ k = 1 THEN Garbage ELSE l[k]
      <4>1. l \in Seq(Line)
        BY <2>1
      <4> QED BY <4>1, AppendedIs
    <3>2. m = n
      BY <1>4, <2>1
    <3> HIDE DEF m, n
    <3>3. 1 \in 1 .. Len(l)
      BY <2>1
    <3> QED BY <1>4, <2>1, <3>1, <3>2, <3>3
  <2> HIDE DEF g, n, f
  <2>3. \A k \in 1 .. Len(g) : (k \in 1 .. Len(f) /\ g[k] = f[k]) \/ g[k] = Garbage
    <3> SUFFICES ASSUME NEW k \in 1 .. Len(g) PROVE (k \in 1 .. Len(f) /\ g[k] = f[k]) \/ g[k] = Garbage
      OBVIOUS
    <3>1. CASE k \in 1 .. n
      <4>1. k \in 1 .. Len(f)
        BY <2>2, <3>1
      <4> QED BY <2>2, <3>1, <4>1
    <3>2. CASE k = n + 1
      BY <2>2, <3>2
    <3>3. k \in 1 .. n \/ k = n + 1
      BY <2>2
    <3> QED BY <3>1, <3>2, <3>3
  <2>4. Garbage.type \notin {"compaction", "messages"} /\ Len(g) \in Nat
    BY <2>2, LinesDiffer
  <2>5. Covered(g)
    BY <2>2, <2>3, <2>4, CoveredKept DEF f
  <2> QED BY <2>5 DEF g, l
<1> QED BY <1>3, <1>4

\* A fork repeats what its parent has before a compaction, or less.
LEMMA CoveredFork ==
  ASSUME NEW lines \in Seq(Line), NEW last \in SUBSET Run, Covered(lines)
  PROVE  Covered(ForkOf(lines, last))
<1> DEFINE n == Len(lines)
           W(i) == Without(lines, Dropped)[i]
           P(i) == Origin(last) \o W(i)
           Telling == {"compaction", "messages"}
           From(q, i) == \A k \in 1 .. Len(q) : q[k].type \in Telling => \E j \in 1 .. i : q[k] = lines[j]
           T == {i \in 0 .. n : P(i) \in Seq(Line) /\ Covered(P(i)) /\ From(P(i), i)}
<1>1. 0 \in T
  <2> DEFINE o == Origin(last)
  <2>1. W(0) = <<>>
    BY WithoutIs
  <2>2. o \in Seq(Line) /\ o \o <<>> = o
    BY OriginLoads, ConcatEmptySeq
  <2>3. P(0) = o
    BY <2>1, <2>2
  <2>4. Len(o) = 2 /\ o[1].type = "header" /\ o[2].type = "fork"
    BY LinesDiffer DEF Origin
  <2> HIDE DEF o, P
  <2>5. \A k \in 1 .. Len(o) : o[k].type \notin Telling
    <3>1. \A k \in 1 .. Len(o) : k = 1 \/ k = 2
      BY <2>4
    <3> QED BY <2>4, <3>1
  <2>6. Covered(o)
    BY <2>5 DEF Covered
  <2>7. n \in Nat
    OBVIOUS
  <2> QED BY <2>2, <2>3, <2>5, <2>6, <2>7
<1>2. ASSUME NEW i \in 0 .. n - 1, i \in T PROVE i + 1 \in T
  <2> DEFINE e == lines[i + 1]
  <2>1. i + 1 \in 1 .. n /\ (i + 1) - 1 = i /\ e \in Line /\ i + 1 \in 0 .. n /\ i \in 0 .. n
        /\ \A j \in 1 .. i : j \in 1 .. i + 1 /\ j \in 1 .. (i + 1) - 1
    OBVIOUS
  <2>2. W(i + 1) = IF e.type \in Dropped THEN W(i) ELSE Append(W(i), e)
    BY <2>1, WithoutIs
  <2>3. W(i) \in Seq(Line) /\ Origin(last) \in Seq(Line)
    BY <2>1, WithoutType, OriginLoads
  <2>4. P(i) \in Seq(Line) /\ Covered(P(i)) /\ From(P(i), i)
    BY <1>2
  <2>5. CASE e.type \in Dropped
    <3>1. P(i + 1) = P(i)
      BY <2>2, <2>5
    <3>2. From(P(i), i + 1)
      BY <2>1, <2>4
    <3> QED BY <2>1, <2>4, <3>1, <3>2
  <2>6. CASE e.type \notin Dropped
    <3> DEFINE q == P(i)
    <3>1. P(i + 1) = Append(q, e)
      <4> HIDE DEF e
      <4>1. W(i + 1) = Append(W(i), e)
        BY <2>2, <2>6
      <4> HIDE DEF W
      <4>2. Append(W(i), e) = W(i) \o <<e>> /\ <<e>> \in Seq(Line) /\ Append(P(i), e) = P(i) \o <<e>>
        BY <2>1, <2>3, <2>4, AppendIsConcat
      <4>3. Origin(last) \o (W(i) \o <<e>>) = (Origin(last) \o W(i)) \o <<e>>
        BY <2>3, <4>2, ConcatAssociative
      <4> QED BY <4>1, <4>2, <4>3
    <3> HIDE DEF q
    <3>2. q \in Seq(Line) /\ Covered(q) /\ From(q, i)
      BY <2>4 DEF q
    <3>3. e.type = "compaction" => \A k \in 1 .. Len(q) : q[k].type = "messages" => q[k].run \in e.covers
      BY <2>1, <3>2 DEF Covered
    <3>4. Append(q, e) \in Seq(Line) /\ Covered(Append(q, e))
      BY <2>1, <3>2, <3>3, CoveredAppend
    <3>5. From(Append(q, e), i + 1)
      <4> DEFINE b == Append(q, e)
      <4>1. /\ Len(b) = Len(q) + 1 /\ Len(q) \in Nat /\ b[Len(q) + 1] = e
            /\ \A k \in 1 .. Len(q) : b[k] = q[k]
        BY <2>1, <3>2, AppendProperties
      <4> HIDE DEF b
      <4>2. \A k \in 1 .. Len(b) : k \in 1 .. Len(q) \/ k = Len(q) + 1
        BY <4>1
      <4>3. i + 1 \in 1 .. i + 1
        OBVIOUS
      <4>4. From(b, i + 1)
        BY <2>1, <3>2, <4>1, <4>2, <4>3
      <4> QED BY <4>4 DEF b
    <3> QED BY <2>1, <3>1, <3>4, <3>5
  <2> QED BY <2>5, <2>6
<1>3. n \in T
  <2> HIDE DEF T
  <2>1. \A i \in 0 .. n : i \in T
    BY <1>1, <1>2, CountingUp
  <2> QED BY <2>1
<1>4. ForkOf(lines, last) = P(n)
  BY DEF ForkOf, Copied, Origin, Dropped
<1> QED BY <1>3, <1>4

\* Two processes never have writes to the same session.
LEMMA AloneIs ==
  ASSUME Frame, NEW p \in Process, NEW r \in Process \ {p}, todo[p] # <<>>
  PROVE  /\ todo[r] # <<>> => Head(todo[r]).at # Head(todo[p]).at
         /\ Pending(r, Head(todo[p]).at) = <<>>
<1>1. "backend" \in Process /\ "launcher" \in Process /\ Head(todo[p]).at \in Session
  BY HeadIs DEF Process
<1>2. todo[r] # <<>> => Head(todo[r]).at # Head(todo[p]).at
  BY <1>1 DEF Frame, Apart, Target, Process
<1> QED BY <1>2 DEF Pending

\* Two lines, put together.
LEMMA TwoJoined == \A a, b : <<a>> \o <<b>> = <<a, b>>
<1> SUFFICES ASSUME NEW a, NEW b PROVE <<a>> \o <<b>> = <<a, b>>
  OBVIOUS
<1> DEFINE S == {a, b}
           d == <<a>> \o <<b>>
<1>1. <<a>> \in Seq(S) /\ <<b>> \in Seq(S)
  OBVIOUS
<1>2. d \in Seq(S) /\ Len(d) = 2 /\ d[1] = a /\ d[2] = b
  BY <1>1
<1> HIDE DEF S, d
<1>3. d = <<a, b>>
  BY <1>2
<1> QED BY <1>3 DEF d

\* A new session's header, with the project docs.
LEMMA DocsPlanned ==
  ASSUME Frame', NEW s \in Session, Pending("backend", s)' = <<Docs>>
  PROVE  Planned("backend", s)' = <<Header, Docs>> /\ file'[s] = <<Header>>
<1>1. Types' /\ Creating'
  BY DEF Frame
<1>2. <<Docs>> # <<>> /\ <<Docs>> # <<Header>>
  BY LinesDiffer
<1>3. todo'["backend"] # <<>> /\ Head(todo'["backend"]).op = "lines" /\ Head(todo'["backend"]).at = s
      /\ Head(todo'["backend"]).lines = <<Docs>>
  BY <1>2 DEF Pending
<1>4. todo'["backend"][1] = Head(todo'["backend"]) /\ 1 \in 1 .. Len(todo'["backend"])
  <2>1. todo'["backend"] \in Seq(Write)
    BY <1>1 DEF Types, Process
  <2> QED BY <1>3, <2>1
<1>5. Beginning(s)'
  BY <1>1, <1>3, <1>4 DEF Creating
<1>6. file'[s] = <<Header>> /\ s \notin bare'
  BY <1>2, <1>5 DEF Beginning
<1>7. \A a, b : <<a>> \o <<b>> = <<a, b>>
  BY TwoJoined
<1>8. file'[s] \o <<Docs>> = <<Header, Docs>>
  BY <1>6, <1>7
<1> QED BY <1>6, <1>8 DEF Planned, Appended

\* Nothing is pending, or what was.
LEMMA PlannedSame ==
  ASSUME Frame, Frame', NEW p \in Process, NEW s \in Session,
         \/ Pending(p, s)' = <<>>
         \/ Pending(p, s)' = Pending(p, s) /\ file'[s] = file[s] /\ (s \in bare' <=> s \in bare)
  PROVE  Planned(p, s)' = file'[s] \/ Planned(p, s)' = Planned(p, s)
<1>1. CASE Pending(p, s)' = <<>>
  BY <1>1, PlannedNone
<1>2. CASE Pending(p, s)' = Pending(p, s) /\ file'[s] = file[s] /\ (s \in bare' <=> s \in bare)
  BY <1>2 DEF Planned, Appended
<1> QED BY <1>1, <1>2

\* Lines that are planned may only cover what stands before them.
LEMMA CoveringPlans ==
  ASSUME Frame, Frame', Covering, NEW p \in Process, NEW s \in Session, NEW lines \in Seq(Line), NEW sync,
         NEW names, NEW returns, Plans(p, s, lines, sync, names, returns), UNCHANGED disk,
         Covered(Appended(s, lines))
  PROVE  Covering'
<1>1. Types
  BY DEF Frame
<1>2. /\ \A r \in Process \ {p} : todo'[r] = todo[r]
      /\ \A t \in Session : Pending(p, t)' = (IF t = s THEN lines ELSE <<>>)
  BY <1>1, PlansEffect
<1>3. UNCHANGED <<file, bare>>
  BY DEF disk
<1>4. ASSUME NEW r \in Process, NEW t \in Session PROVE Covered(Planned(r, t)')
  <2>1. CASE r = p /\ t = s
    <3>1. Planned(p, s)' = Appended(s, lines)
      BY <1>2, <1>3 DEF Planned, Appended
    <3> QED BY <2>1, <3>1
  <2>2. CASE ~(r = p /\ t = s)
    <3>1. Pending(r, t)' = <<>> \/ Pending(r, t)' = Pending(r, t)
      BY <1>2, <2>2 DEF Pending
    <3>2. Planned(r, t)' = file'[t] \/ Planned(r, t)' = Planned(r, t)
      BY <1>3, <3>1, PlannedSame
    <3> QED BY <1>3, <3>2 DEF Covering
  <2> QED BY <2>1, <2>2
<1>5. \A t \in Session : Covered(file'[t])
  BY <1>3 DEF Covering
<1> QED BY <1>4, <1>5 DEF Covering, Covered

\* No file changes, and what was to be written still is, or is forgotten.
LEMMA CoveringSame ==
  ASSUME Frame, Frame', Covering, UNCHANGED <<file, bare>>,
         \A p \in Process : todo'[p] = todo[p] \/ todo'[p] = <<>>
  PROVE  Covering'
<1>1. ASSUME NEW r \in Process, NEW t \in Session PROVE Covered(Planned(r, t)')
  <2>1. Pending(r, t)' = <<>> \/ Pending(r, t)' = Pending(r, t)
    BY DEF Pending
  <2>2. Planned(r, t)' = file'[t] \/ Planned(r, t)' = Planned(r, t)
    BY <2>1, PlannedSame
  <2> QED BY <2>2 DEF Covering
<1>2. \A t \in Session : Covered(file'[t])
  BY DEF Covering
<1> QED BY <1>1, <1>2 DEF Covering, Covered

\* A write leaves the file that was to be.
LEMMA CoveringPerform ==
  ASSUME Frame, Frame', Covering, NEW p \in Process, Perform(p)
  PROVE  Covering'
<1> SUFFICES ASSUME NEW w, w = Head(todo[p]) PROVE Covering'
  OBVIOUS
<1>1. /\ w.at \in Session /\ todo[p] # <<>> /\ (w.op = "lines" => Pending(p, w.at) = w.lines)
      /\ \A s \in Session : s # w.at => Pending(p, s) = <<>>
  BY Popped, HeadIs
<1>2. /\ \A r \in Process \ {p} : todo'[r] = todo[r]
      /\ \A s \in Session : Pending(p, s)' = <<>>
           \/ (p = "backend" /\ Pending(p, s)' = <<Docs>> /\ s = Head(todo[p]).at)
  BY Popped
<1>3. Performed(w)
  BY WritesState
<1>4. /\ \A s \in Session : s # w.at => file'[s] = file[s] /\ (s \in bare' <=> s \in bare)
      /\ file'[w.at] = IF w.op = "lines" THEN Appended(w.at, w.lines) ELSE file[w.at]
  <2>1. file'[w.at] = IF w.op = "lines" THEN Appended(w.at, w.lines) ELSE file[w.at]
    BY <1>3, Zenon DEF Performed
  <2> QED BY <1>3, <2>1, PerformedIs
<1>5. ASSUME NEW s \in Session PROVE Covered(file'[s])
  <2>1. file'[s] = file[s] \/ file'[s] = Planned(p, s)
    BY <1>1, <1>4 DEF Planned
  <2> QED BY <2>1 DEF Covering
<1>6. ASSUME NEW r \in Process, NEW s \in Session PROVE Covered(Planned(r, s)')
  <2>1. CASE Pending(r, s)' = <<>>
    BY <1>5, <2>1, PlannedNone
  <2>2. CASE r = p /\ Pending(r, s)' # <<>>
    <3>1. Planned(r, s)' = <<Header, Docs>>
      BY <1>2, <2>2, DocsPlanned
    <3>2. Covered(<<Header, Docs>>)
      BY LinesDiffer DEF Covered
    <3> QED BY <3>1, <3>2
  <2>3. CASE r # p /\ Pending(r, s)' # <<>>
    <3>1. Pending(r, s)' = Pending(r, s)
      BY <1>2, <2>3 DEF Pending
    <3>2. s # w.at
      BY <1>1, <2>3, <3>1, AloneIs
    <3>3. Planned(r, s)' = file'[s] \/ Planned(r, s)' = Planned(r, s)
      BY <1>4, <3>1, <3>2, PlannedSame
    <3> QED BY <1>5, <3>3 DEF Covering
  <2> QED BY <2>1, <2>2, <2>3
<1> QED BY <1>5, <1>6 DEF Covering, Covered

\* A part of a write begins as the whole would.
LEMMA AppendedFirst ==
  ASSUME Frame, NEW s \in Session, NEW lines \in Seq(Line), NEW k \in 1 .. Len(lines)
  PROVE  LET a == Appended(s, lines)
             b == Appended(s, SubSeq(lines, 1, k))
         IN  /\ Len(a) \in Nat /\ Len(b) \in Nat
             /\ \A i \in 1 .. Len(b) : i \in 1 .. Len(a) /\ b[i] = a[i]
<1> DEFINE l == SubSeq(lines, 1, k)
           a == Appended(s, lines)
           b == Appended(s, l)
           m == IF s \in bare THEN Len(file[s]) - 1 ELSE Len(file[s])
<1>1. k \in 0 .. Len(lines) /\ Len(lines) \in Nat /\ lines # <<>>
  OBVIOUS
<1>2. l \in Seq(Line) /\ Len(l) = k /\ \A i \in 1 .. k : l[i] = lines[i]
  BY <1>1, FirstIs
<1> HIDE DEF l
<1>3. l # <<>>
  BY <1>1, <1>2
<1>4. /\ Len(b) = m + Len(l) /\ m \in Nat
      /\ \A i \in 1 .. m : b[i] = file[s][i]
      /\ \A i \in 1 .. Len(l) : b[m + i] = IF s \in bare /\ i = 1 THEN Garbage ELSE l[i]
  <2> DEFINE n == IF s \in bare /\ l # <<>> THEN Len(file[s]) - 1 ELSE Len(file[s])
  <2>1. /\ Len(b) = n + Len(l) /\ n \in Nat
        /\ \A i \in 1 .. n : b[i] = file[s][i]
        /\ \A i \in 1 .. Len(l) : b[n + i] = IF s \in bare /\ i = 1 THEN Garbage ELSE l[i]
    <3>1. l \in Seq(Line)
      BY <1>2
    <3> QED BY ZenonT(60), <3>1, AppendedIs
  <2>2. n = m
    BY <1>3
  <2> QED BY <2>1, <2>2
<1>5. /\ Len(a) = m + Len(lines)
      /\ \A i \in 1 .. m : a[i] = file[s][i]
      /\ \A i \in 1 .. Len(lines) : a[m + i] = IF s \in bare /\ i = 1 THEN Garbage ELSE lines[i]
  <2> DEFINE n == IF s \in bare /\ lines # <<>> THEN Len(file[s]) - 1 ELSE Len(file[s])
  <2>1. /\ Len(a) = n + Len(lines)
        /\ \A i \in 1 .. n : a[i] = file[s][i]
        /\ \A i \in 1 .. Len(lines) : a[n + i] = IF s \in bare /\ i = 1 THEN Garbage ELSE lines[i]
    <3>1. lines \in Seq(Line)
      OBVIOUS
    <3> QED BY <3>1, AppendedIs
  <2>2. n = m
    BY <1>1
  <2> QED BY <2>1, <2>2
<1> HIDE DEF a, b, m
<1>6. Len(a) \in Nat /\ Len(b) \in Nat /\ Len(b) = m + k /\ Len(b) <= Len(a)
  BY <1>1, <1>2, <1>4, <1>5
<1>7. \A i \in 1 .. k : a[m + i] = b[m + i]
  BY <1>1, <1>2, <1>4, <1>5
<1>8. ASSUME NEW i \in 1 .. Len(b) PROVE i \in 1 .. Len(a) /\ b[i] = a[i]
  <2>1. CASE i \in 1 .. m
    <3>1. i \in 1 .. Len(a)
      BY <1>6
    <3>2. a[i] = file[s][i] /\ b[i] = file[s][i]
      BY <1>4, <1>5, <2>1
    <3> QED BY <3>1, <3>2
  <2>2. CASE i \notin 1 .. m
    <3>1. i - m \in 1 .. k /\ m + (i - m) = i
      BY <1>4, <1>6, <2>2
    <3>2. a[m + (i - m)] = b[m + (i - m)]
      BY <1>7, <3>1
    <3> QED BY <1>6, <3>1, <3>2
  <2> QED BY <2>1, <2>2
<1> QED BY <1>6, <1>8 DEF a, b, l

\* A death leaves a beginning of it.
LEMMA CoveringDie ==
  ASSUME Frame, Frame', Covering, NEW p \in Process, Die(p)
  PROVE  Covering'
<1> SUFFICES ASSUME NEW w, w = Head(todo[p]) PROVE Covering'
  OBVIOUS
<1>1. /\ todo'[p] = <<>> /\ \A r \in Process \ {p} : todo'[r] = todo[r]
      /\ \/ UNCHANGED <<file, bare>>
         \/ /\ todo[p] # <<>> /\ w.op = "lines" /\ w.at \in Session /\ Torn(w) /\ w.lines \in Seq(Line)
            /\ \A s \in Session : s # w.at => file'[s] = file[s] /\ (s \in bare' <=> s \in bare)
  BY DieState
<1>2. CASE UNCHANGED <<file, bare>>
  BY <1>1, <1>2, CoveringSame
<1>3. CASE /\ todo[p] # <<>> /\ w.op = "lines" /\ w.at \in Session /\ Torn(w) /\ w.lines \in Seq(Line)
           /\ \A s \in Session : s # w.at => file'[s] = file[s] /\ (s \in bare' <=> s \in bare)
  <2>1. PICK k \in DOMAIN w.lines : file' = [file EXCEPT ![w.at] = Appended(w.at, SubSeq(w.lines, 1, k))]
    BY <1>3 DEF Torn
  <2> DEFINE a == Appended(w.at, w.lines)
             b == Appended(w.at, SubSeq(w.lines, 1, k))
  <2>2. k \in 1 .. Len(w.lines)
    BY <1>3
  <2>4. file'[w.at] = b
    BY <1>3, <2>1 DEF Frame, Types
  <2>5. a = Planned(p, w.at)
    BY <1>3, <2>2 DEF Planned, Pending
  <2>6. Len(a) \in Nat /\ Len(b) \in Nat /\ \A i \in 1 .. Len(b) : i \in 1 .. Len(a) /\ b[i] = a[i]
    BY <1>3, <2>2, AppendedFirst
  <2> HIDE DEF a, b
  <2>10. Covered(a)
    BY <1>3, <2>5 DEF Covering
  <2>11. Covered(b)
    BY <2>6, <2>10, CoveredKept
  <2>12. ASSUME NEW s \in Session PROVE Covered(file'[s])
    BY <1>3, <2>4, <2>11 DEF Covering
  <2>13. ASSUME NEW r \in Process, NEW s \in Session PROVE Covered(Planned(r, s)')
    <3>1. CASE r = p \/ s = w.at
      <4>1. Pending(r, s)' = <<>>
        <5>1. CASE r = p
          BY <1>1, <5>1 DEF Pending
        <5>2. CASE r # p
          BY <1>1, <1>3, <3>1, <5>2, AloneIs DEF Pending
        <5> QED BY <5>1, <5>2
      <4> QED BY <2>12, <4>1, PlannedNone
    <3>2. CASE r # p /\ s # w.at
      <4>1. Pending(r, s)' = Pending(r, s)
        BY <1>1, <3>2 DEF Pending
      <4>2. Planned(r, s)' = file'[s] \/ Planned(r, s)' = Planned(r, s)
        BY <1>3, <3>2, <4>1, PlannedSame
      <4> QED BY <2>12, <4>2 DEF Covering
    <3> QED BY <3>1, <3>2
  <2> QED BY <2>12, <2>13 DEF Covering, Covered
<1> QED BY <1>1, <1>2, <1>3

\* The backend's commands.
LEMMA CoveringCommand ==
  ASSUME Frame, Frame', BoundsAssumption, Covering, NEW s \in Session,
         \/ \E docs \in BOOLEAN : CreateSession(s, docs)
         \/ \E r \in Run : StartRun(s, r)
         \/ \E type \in {"event", "end"} : AppendEvent(s, type)
         \/ \E extras \in SUBSET Extras : Finalize(s, extras)
         \/ FailCompaction(s) \/ EndCompaction(s) \/ SetMode(s)
         \/ \E n \in Name : NameSession(s, n)
  PROVE  Covering'
<1>1. Types /\ "backend" \in Process /\ UNCHANGED disk
  BY DEF Frame, Process, CreateSession, StartRun, AppendEvent, Finalize, FailCompaction, EndCompaction,
         SetMode, NameSession
<1>2. ASSUME NEW lines \in Seq(Line), NEW sync, NEW names, NEW returns,
             Plans("backend", s, lines, sync, names, returns),
             \A k \in 1 .. Len(lines) : lines[k].type # "compaction"
      PROVE  Covering'
  <2>1. Covered(Appended(s, lines))
    BY <1>2, CoveredMore DEF Covering
  <2> QED BY <1>1, <1>2, <2>1, CoveringPlans
<1>3. <<>> \in Seq(Line) /\ \A k \in 1 .. Len(<<>>) : <<>>[k].type # "compaction"
  OBVIOUS
<1>4. ASSUME NEW e \in Line, e.type # "compaction"
      PROVE  <<e>> \in Seq(Line) /\ \A k \in 1 .. Len(<<e>>) : <<e>>[k].type # "compaction"
  BY <1>4
<1>5. CASE \E docs \in BOOLEAN : CreateSession(s, docs)
  <2>1. Plans("backend", s, <<Header>>, TRUE, {{}}, {})
    BY <1>5, CreateSessionIs
  <2>2. <<Header>> \in Seq(Line) /\ \A k \in 1 .. Len(<<Header>>) : <<Header>>[k].type # "compaction"
    BY <1>4, LinesAre, LinesDiffer
  <2> QED BY <1>2, <2>1, <2>2
<1>6. CASE \E r \in Run : StartRun(s, r)
  <2>1. PICK r \in Run : StartRun(s, r)
    BY <1>6
  <2> DEFINE l == <<Of("run", r)>>
  <2>2. Plans("backend", s, l, FALSE, {}, {})
    BY <2>1, StartRunIs
  <2>3. Of("run", r) \in Line /\ Of("run", r).type # "compaction"
    BY LinesAre, LinesDiffer DEF OfRun
  <2>4. l \in Seq(Line) /\ \A k \in 1 .. Len(l) : l[k].type # "compaction"
    BY <1>4, <2>3
  <2> HIDE DEF l
  <2> QED BY <1>2, <2>2, <2>4
<1>7. CASE \E type \in {"event", "end"} : AppendEvent(s, type)
  <2>1. PICK type \in {"event", "end"} : AppendEvent(s, type)
    BY <1>7
  <2>2. PICK w \in writing[s] : Plans("backend", s, <<Of(type, w.run)>>, FALSE, {}, {})
    BY <2>1, AppendEventIs
  <2> DEFINE l == <<Of(type, w.run)>>
  <2>3. w.run \in Run /\ type \in OfRun
    BY <1>1, <2>2 DEF Types, Writer, OfRun
  <2>4. Of(type, w.run) \in Line /\ Of(type, w.run).type # "compaction"
    BY <2>3, LinesAre, LinesDiffer DEF OfRun
  <2>5. l \in Seq(Line) /\ \A k \in 1 .. Len(l) : l[k].type # "compaction"
    BY <1>4, <2>4
  <2>6. Plans("backend", s, l, FALSE, {}, {})
    BY <2>2
  <2> HIDE DEF l
  <2> QED BY <1>2, <2>5, <2>6
<1>8. CASE \E extras \in SUBSET Extras : Finalize(s, extras)
  <2>1. PICK extras \in SUBSET Extras : Finalize(s, extras)
    BY <1>8
  <2>2. PICK w \in writing[s] :
          /\ Plans("backend", s, Ending(w.run, extras), TRUE, {meta[s].name}, {{w.run}})
          /\ w.run \in Run /\ extras \in SUBSET Trailer
    BY <2>1, FinalizeIs
  <2> DEFINE l == Ending(w.run, extras)
  <2>3. l \in Seq(Line) /\ \A k \in 1 .. Len(l) : l[k].type # "compaction"
    BY <2>2, EndingIs DEF Trailer
  <2>4. Plans("backend", s, l, TRUE, {meta[s].name}, {{w.run}})
    BY <2>2
  <2> HIDE DEF l
  <2> QED BY <1>2, <2>3, <2>4
<1>9. CASE FailCompaction(s)
  <2>1. Plans("backend", s, <<>>, FALSE, {}, {{}})
    BY <1>9, FailCompactionIs
  <2> QED BY <1>2, <1>3, <2>1
<1>10. CASE EndCompaction(s)
  <2> DEFINE e == Compacting(s)
             l == <<e>>
  <2>1. /\ Plans("backend", s, l, TRUE, {meta[s].name}, {{}}) /\ Loads(file[s]) /\ e \in Line
        /\ source[s] = ToSet(Load(file[s]).runs)
    BY <1>10, EndCompactionIs
  <2>2. e.covers = source[s]
    BY DEF Compacting
  <2> HIDE DEF e
  <2>3. l \in Seq(Line) /\ Covered(Appended(s, l))
    BY <2>1, <2>2, CoveredCompaction DEF Covering
  <2> HIDE DEF l
  <2> QED BY <1>1, <2>1, <2>3, CoveringPlans
<1>11. CASE SetMode(s)
  <2>1. Plans("backend", s, <<>>, TRUE, {meta[s].name}, {})
    BY <1>11, SetModeIs
  <2> QED BY <1>2, <1>3, <2>1
<1>12. CASE \E n \in Name : NameSession(s, n)
  <2>1. PICK n \in Name : Plans("backend", s, <<Info(n)>>, TRUE, {{n}}, {})
    BY <1>12, NameSessionIs
  <2>2. <<Info(n)>> \in Seq(Line) /\ \A k \in 1 .. Len(<<Info(n)>>) : <<Info(n)>>[k].type # "compaction"
    BY <1>4, LinesAre, LinesDiffer
  <2> QED BY <1>2, <2>1, <2>2
<1> QED BY <1>5, <1>6, <1>7, <1>8, <1>9, <1>10, <1>11, <1>12

\* The launcher's steps.
LEMMA CoveringFork ==
  ASSUME Frame, Frame', Covering, CopyFork \/ DescribeFork \/ NameFork
  PROVE  Covering'
<1>0. <<>> \in Seq(Line) /\ \A k \in 1 .. Len(<<>>) : <<>>[k].type # "compaction"
  OBVIOUS
<1>1. "launcher" \in Process /\ UNCHANGED disk
  BY DEF Process, CopyFork, DescribeFork, NameFork
<1>2. ASSUME NEW t \in Session, NEW lines \in Seq(Line), NEW names,
             Plans("launcher", t, lines, TRUE, names, {}),
             \A k \in 1 .. Len(lines) : lines[k].type # "compaction"
      PROVE  Covering'
  <2>1. Covered(Appended(t, lines))
    BY <1>2, CoveredMore DEF Covering
  <2> QED BY <1>1, <1>2, <2>1, CoveringPlans
<1>3. CASE CopyFork
  <2> DEFINE l == ForkOf(file[forking.from], forking.last)
  <2>1. /\ l \in Seq(Line) /\ Plans("launcher", forking.to, l, TRUE, {}, {})
        /\ forking \in Fork /\ forking.to \in Session /\ forking.last \in SUBSET Run
        /\ file[forking.to] = <<>> /\ file[forking.from] \in Seq(Line)
    BY <1>3, CopyForkIs
  <2>2. Covered(file[forking.from])
    BY <2>1 DEF Covering, Fork
  <2>3. Covered(l)
    BY <2>1, <2>2, CoveredFork
  <2>4. forking.to \notin bare
    BY <2>1 DEF Frame, Locks
  <2> HIDE DEF l
  <2>5. Appended(forking.to, l) = l
    <3>1. Appended(forking.to, l) = <<>> \o l
      BY <2>1, <2>4 DEF Appended
    <3>2. \A q \in Seq(Line) : <<>> \o q = q
      OBVIOUS
    <3> QED BY <2>1, <3>1, <3>2
  <2> QED BY <1>1, <2>1, <2>3, <2>5, CoveringPlans
<1>4. CASE DescribeFork
  <2>1. forking.to \in Session /\ Plans("launcher", forking.to, <<>>, TRUE, {{}}, {})
    BY <1>4, DescribeForkIs
  <2> QED BY <1>0, <1>2, <2>1
<1>5. CASE NameFork
  <2>1. forking.to \in Session
        /\ \/ Plans("launcher", forking.to, <<>>, TRUE, {}, {})
           \/ \E n \in Name : Plans("launcher", forking.to, <<Info(n)>>, TRUE, {{n}}, {})
    BY <1>5, NameForkIs
  <2>2. CASE Plans("launcher", forking.to, <<>>, TRUE, {}, {})
    BY <1>0, <1>2, <2>1, <2>2
  <2>3. CASE \E n \in Name : Plans("launcher", forking.to, <<Info(n)>>, TRUE, {{n}}, {})
    <3>1. PICK n \in Name : Plans("launcher", forking.to, <<Info(n)>>, TRUE, {{n}}, {})
      BY <2>3
    <3>2. Info(n) \in Line /\ Info(n).type # "compaction"
      BY LinesAre, LinesDiffer
    <3>3. \A e \in Line : <<e>> \in Seq(Line) /\ Len(<<e>>) = 1 /\ <<e>>[1] = e
      OBVIOUS
    <3>4. <<Info(n)>> \in Seq(Line) /\ \A k \in 1 .. Len(<<Info(n)>>) : <<Info(n)>>[k].type # "compaction"
      BY <3>2, <3>3
    <3> QED BY <1>2, <2>1, <3>1, <3>4
  <2> QED BY <2>1, <2>2, <2>3
<1> QED BY <1>3, <1>4, <1>5

\* So does a loss of power.
LEMMA CoveringLosePower ==
  ASSUME Frame, Frame', Covering, LosePower
  PROVE  Covering'
<1>1. /\ \E kept \in [Session -> Int] : Lost(kept)
      /\ todo'["backend"] = <<>> /\ todo'["launcher"] = <<>>
  BY LostIs
<1>2. PICK kept \in [Session -> Int] : Lost(kept)
  BY <1>1
<1>3. ASSUME NEW s \in Session PROVE Covered(file'[s])
  <2>1. /\ kept[s] \in Nat /\ kept[s] <= Len(file[s]) /\ Len(file'[s]) \in Nat
        /\ \A k \in 1 .. kept[s] : file'[s][k] = file[s][k]
        /\ \A k \in kept[s] + 1 .. Len(file'[s]) : file'[s][k] = Garbage
    BY <1>2 DEF Lost
  <2>2. Len(file[s]) \in Nat /\ Covered(file[s])
    BY DEF Covering, Frame, Types
  <2>3. \A k \in 1 .. Len(file'[s]) : (k \in 1 .. Len(file[s]) /\ file'[s][k] = file[s][k])
                                        \/ file'[s][k].type \notin {"compaction", "messages"}
    BY <2>1, <2>2, LinesDiffer
  <2> QED BY <2>1, <2>2, <2>3, CoveredKept
<1>4. ASSUME NEW p \in Process, NEW s \in Session PROVE Covered(Planned(p, s)')
  <2>1. Pending(p, s)' = <<>>
    BY <1>1 DEF Pending, Process
  <2> QED BY <1>3, <2>1, PlannedNone
<1> QED BY <1>3, <1>4 DEF Covering, Covered

\* Every step keeps the compactions covering.
LEMMA CoveringStep ==
  ASSUME Frame, Frame', BoundsAssumption, Covering, [Next]_vars
  PROVE  Covering'
<1>1. CASE \E p \in Process : Perform(p)
  BY <1>1, CoveringPerform
<1>2. CASE \E p \in Process : Die(p)
  BY <1>2, CoveringDie
<1>3. CASE LosePower
  BY <1>3, CoveringLosePower
<1>4. CASE CopyFork \/ DescribeFork \/ NameFork
  BY <1>4, CoveringFork
<1>5. CASE UNCHANGED vars \/ GiveUpFork
           \/ (\E s \in Session : Abandon(s) \/ BeginCompaction(s))
           \/ (\E s \in Session : \E t \in Session \ {s}, names \in {{}} \cup {{n} : n \in ForkNames} :
                 BeginFork(s, t, names))
  <2>1. UNCHANGED <<file, bare, todo>>
    BY <1>5 DEF vars, disk, memory, GiveUpFork, Abandon, BeginCompaction, BeginFork
  <2> QED BY <2>1, CoveringSame
<1>6. CASE \E s \in Session :
             \/ \E docs \in BOOLEAN : CreateSession(s, docs)
             \/ \E r \in Run : StartRun(s, r)
             \/ \E type \in {"event", "end"} : AppendEvent(s, type)
             \/ \E extras \in SUBSET Extras : Finalize(s, extras)
             \/ FailCompaction(s) \/ EndCompaction(s) \/ SetMode(s)
             \/ \E n \in Name : NameSession(s, n)
  BY <1>6, CoveringCommand
<1> QED BY <1>1, <1>2, <1>3, <1>4, <1>5, <1>6 DEF Next

\* Whatever the two processes do, and wherever a death or a power loss cuts a
\* write, a compaction line of append_compaction_to_session covers every run
\* whose messages stand before it.
THEOREM AlwaysCovers == BoundsAssumption /\ Spec => []CompactionCovers
<1> SUFFICES ASSUME BoundsAssumption PROVE Spec => []CompactionCovers
  OBVIOUS
<1>1. Init /\ Frame => Covering
  <2> SUFFICES ASSUME Init, Frame PROVE Covering
    OBVIOUS
  <2>1. \A s \in Session : file[s] = <<>> /\ \A p \in Process : Pending(p, s) = <<>>
    BY DEF Init, Pending
  <2>2. Covered(<<>>)
    BY DEF Covered
  <2>3. ASSUME NEW s \in Session, NEW p \in Process PROVE Planned(p, s) = <<>>
    BY <2>1 DEF Planned, Appended
  <2> QED BY <2>1, <2>2, <2>3 DEF Covering
<1>2. Frame /\ Frame' /\ Covering /\ [Next]_vars => Covering'
  BY CoveringStep
<1>3. Frame /\ Covering => CompactionCovers
  <2> SUFFICES ASSUME Frame, Covering, NEW s \in Session PROVE
        \A i \in DOMAIN file[s] : file[s][i].type = "compaction" =>
          \A j \in 1 .. i - 1 :
            file[s][j].type = "messages" => file[s][j].run \in file[s][i].covers
    BY DEF CompactionCovers
  <2>1. DOMAIN file[s] = 1 .. Len(file[s])
    BY DEF Frame, Types
  <2>2. Covered(file[s])
    BY DEF Covering
  <2> QED BY <2>1, <2>2 DEF Covered
<1> QED BY <1>1, <1>2, <1>3, FrameAlways, PTL DEF Spec

-----------------------------------------------------------------------------
(* Sessions that nothing hurt load.                                         *)

\* The lines are a session with w's run open, as far as its appender knows.
Follow(lines, w) ==
  LET a == Load(lines)
  IN  a.ok /\ a.lines > 0 /\ a.current = {w.run} /\ a.events = w.events /\ a.ended = w.ended

Sound(lines) == lines # <<>> => Loads(lines)

\* What stands in the file once the writers' writes are done.
Goes(lines, writers, finalizing) ==
  IF writers = {} THEN Sound(lines)
  ELSE \A w \in writers : IF w.run \in finalizing THEN Loads(lines) ELSE Follow(lines, w)

Loading(s) ==
  s \notin hurt =>
    /\ Goes(Planned("backend", s), writing[s], Finalizing(s))
    /\ writing[s] = {} => Sound(file[s]) /\ Sound(Planned("launcher", s))

\* Several lines in one write are a run's last ones, or a fork's.
Batches ==
  \A p \in Process, s \in Session : Len(Pending(p, s)) > 1 =>
    \/ p = "backend" /\ writing[s] # {}
    \/ p = "launcher" /\ forking # NoFork /\ forking.to = s

\* One line that the loop accepts.
LEMMA Accepted ==
  ASSUME NEW a \in Seq(Line), NEW e \in Line, Load(a).ok, Follows(Load(a), e)
  PROVE  /\ Append(a, e) \in Seq(Line) /\ Append(a, e) = a \o <<e>>
         /\ Load(Append(a, e)) = After1(Load(a), e) /\ After1(Load(a), e).ok
         /\ Load(a) \in LoadState /\ Load(a).lines \in Nat
         /\ Remembers(Load(a), a, Len(a)) /\ Len(a) \in Nat
<1>1. Load(a) \in LoadState /\ Len(a) \in 0 .. Len(a) /\ Len(a) \in Nat
  BY LoadIs
<1>2. Load(Append(a, e)) = Step(Load(a), e) /\ Append(a, e) \in Seq(Line)
  BY LoadAppend
<1>3. Append(a, e) = a \o <<e>>
  BY AppendIsConcat
<1>4. Remembers(Load(a), a, Len(a))
  BY <1>1, WalkRemembers DEF Load
<1>5. Load(a).lines \in Nat
  BY <1>1 DEF LoadState
<1> QED BY <1>1, <1>2, <1>3, <1>4, <1>5, StepIs

\* A new session loads.
LEMMA HeaderLoads ==
  /\ <<Header>> \in Seq(Line) /\ Loads(<<Header>>)
  /\ <<Header, Docs>> \in Seq(Line) /\ Loads(<<Header, Docs>>)
<1>1. Header \in Line /\ Header.type = "header" /\ Docs \in Line /\ Docs.type = "docs"
  BY LinesAre, LinesDiffer
<1>2. <<>> \in Seq(Line) /\ Append(<<>>, Header) = <<Header>>
  OBVIOUS
<1>3. Load(<<>>).ok /\ Follows(Load(<<>>), Header)
  BY <1>1, LoadEmpty, BlankIs DEF Follows
<1> DEFINE a == Load(<<Header>>)
<1>4. <<Header>> \in Seq(Line) /\ a = After1(Blank, Header) /\ a.ok
  BY <1>1, <1>2, <1>3, LoadEmpty, Accepted
<1>5. a.lines = 1 /\ a.current = {} /\ a.docs = FALSE /\ a.runs = <<>>
  <2>1. a.docs = Blank.docs
    <3>1. Load(<<Header>>) = Step(Blank, Header)
      BY <1>1, <1>2, LoadAppend, LoadEmpty
    <3>2. Step(Blank, Header) = Taken(Blank, Header)
      BY <1>3, LoadEmpty DEF Step
    <3>3. Taken(Blank, Header) = [Blank EXCEPT !.lines = @ + 1]
      BY <1>1 DEF Taken, Trailer
    <3>4. \A b \in LoadState : [b EXCEPT !.lines = @ + 1].docs = b.docs
      BY DEF LoadState
    <3>5. [Blank EXCEPT !.lines = @ + 1].docs = Blank.docs
      BY <3>4, BlankIs
    <3> QED BY <3>1, <3>2, <3>3, <3>5
  <2>2. a.lines = Blank.lines + 1 /\ a.current = Blank.current /\ a.runs = Blank.runs
    BY <1>1, <1>4 DEF After1
  <2> QED BY <1>1, <2>1, <2>2, BlankIs
<1>6. Loads(<<Header>>)
  BY <1>4, <1>5 DEF Loads
<1>7. Follows(a, Docs)
  BY <1>1, <1>5 DEF Follows, Trailer
<1> DEFINE b == Load(Append(<<Header>>, Docs))
<1>8. /\ Append(<<Header>>, Docs) \in Seq(Line)
      /\ b = After1(a, Docs) /\ b.ok
  BY <1>1, <1>4, <1>7, Accepted
<1>9. b.lines = 2 /\ b.current = {}
  BY <1>1, <1>5, <1>8 DEF After1
<1>10. Append(<<Header>>, Docs) = <<Header, Docs>>
  <2>1. Append(<<Header>>, Docs) = <<Header>> \o <<Docs>>
    BY <1>1, <1>4, AppendIsConcat
  <2> QED BY <2>1, TwoJoined
<1> HIDE DEF b
<1>11. b.ok /\ b.lines > 0 /\ b.current = {}
  BY <1>8, <1>9
<1>12. Loads(Append(<<Header>>, Docs))
  BY <1>11 DEF Loads, b
<1> QED BY <1>4, <1>6, <1>8, <1>10, <1>12

\* A fresh run's first line.
LEMMA RunFollows ==
  ASSUME NEW a \in Seq(Line), Loads(a), NEW r \in Run, Of("run", r) \notin ToSet(a),
         NEW w, w.run = r, w.events = 0, w.ended = FALSE
  PROVE  Follow(a \o <<Of("run", r)>>, w)
<1> DEFINE e == Of("run", r)
           b == Load(a)
           c == Load(Append(a, e))
<1>1. e \in Line /\ e.type = "run" /\ e.run = r
  BY LinesAre, LinesDiffer DEF OfRun
<1>2. b.ok /\ b.lines > 0 /\ b.current = {}
  BY DEF Loads
<1>3. r \notin ToSet(b.runs)
  <2>1. Len(a) \in 0 .. Len(a) /\ ToSet(a) = {a[k] : k \in 1 .. Len(a)}
    BY DEF ToSet
  <2>2. Remembers(b, a, Len(a))
    BY <1>2, <2>1, WalkRemembers DEF Load
  <2> QED BY <2>1, <2>2 DEF Remembers
<1> HIDE DEF e
<1>4. Follows(b, e)
  BY <1>1, <1>2, <1>3 DEF Follows, Trailer
<1>5. c = After1(b, e) /\ c.ok /\ Append(a, e) = a \o <<e>> /\ b.lines \in Nat
  BY <1>1, <1>2, <1>4, Accepted
<1> HIDE DEF b
<1>6. c.lines = b.lines + 1 /\ c.current = {r} /\ c.events = 0 /\ c.ended = FALSE
  BY <1>1, <1>5 DEF After1
<1> HIDE DEF c
<1>7. c.ended = w.ended /\ c.events = w.events /\ c.lines > 0
  <2>1. c.lines > 0 /\ c.events = w.events
    BY <1>2, <1>5, <1>6
  <2>2. c.ended = w.ended
    BY <1>6, Zenon
  <2> QED BY <2>1, <2>2
<1>8. Follow(Append(a, e), w)
  BY <1>5, <1>6, <1>7 DEF Follow, c
<1> QED BY <1>5, <1>8 DEF e

\* Its next event, or its last.
LEMMA EventFollows ==
  ASSUME NEW a \in Seq(Line), NEW w, w.run \in Run, w.ended = FALSE, Follow(a, w),
         NEW type \in {"event", "end"}, type = "end" => w.events > 0,
         NEW v, v.run = w.run, v.events = (IF type = "event" THEN w.events + 1 ELSE w.events),
         type = "event" => v.ended = FALSE, type = "end" => v.ended = TRUE
  PROVE  Follow(a \o <<Of(type, w.run)>>, v)
<1> DEFINE e == Of(type, w.run)
           b == Load(a)
           c == Load(Append(a, e))
<1>1. e \in Line /\ e.type = type /\ e.run = w.run
  BY LinesAre, LinesDiffer DEF OfRun
<1>2. b.ok /\ b.lines > 0 /\ b.current = {w.run} /\ b.events = w.events /\ b.ended = FALSE
  BY DEF Follow
<1> HIDE DEF e
<1>4. Follows(b, e)
  BY <1>1, <1>2 DEF Follows, Trailer
<1>5. c = After1(b, e) /\ c.ok /\ Append(a, e) = a \o <<e>> /\ b.lines \in Nat
  BY <1>1, <1>2, <1>4, Accepted
<1> HIDE DEF b
<1>6. c.lines = b.lines + 1 /\ c.current = {w.run}
  BY <1>1, <1>2, <1>5 DEF After1
<1>7. /\ c.events = (IF type = "event" THEN w.events + 1 ELSE w.events)
      /\ type = "event" => c.ended = FALSE
      /\ type = "end" => c.ended = TRUE
  BY <1>1, <1>2, <1>5 DEF After1
<1> HIDE DEF c
<1>8. c.ended = v.ended /\ c.events = v.events
  BY <1>7
<1>9. Follow(Append(a, e), v)
  BY <1>2, <1>5, <1>6, <1>8 DEF Follow, c
<1> QED BY <1>5, <1>9 DEF e

\* The run has its messages, and its line of each of these types may follow.
Settled(lines, r, types) ==
  LET a == Load(lines)
  IN  /\ lines \in Seq(Line) /\ a.ok /\ a.lines > 0 /\ a.current = {}
      /\ a.runs # <<>> /\ Last(a.runs) = r /\ \A t \in types : a.latest[t] # {r}

\* The messages of a run that ended settle it.
LEMMA MessagesSettle ==
  ASSUME NEW a \in Seq(Line), NEW w, w.run \in Run, w.ended = TRUE, Follow(a, w)
  PROVE  Settled(a \o <<Of("messages", w.run)>>, w.run, Trailer)
<1> DEFINE r == w.run
           e == Of("messages", r)
           b == Load(a)
           c == Load(Append(a, e))
<1>1. e \in Line /\ e.type = "messages" /\ e.run = r
  BY LinesAre, LinesDiffer DEF OfRun
<1>2. b.ok /\ b.lines > 0 /\ b.current = {r} /\ b.ended = TRUE
  BY DEF Follow
<1> HIDE DEF e
<1>3. Follows(b, e)
  BY <1>1, <1>2 DEF Follows, Trailer
<1>4. /\ c = After1(b, e) /\ c.ok /\ Append(a, e) = a \o <<e>> /\ b.lines \in Nat /\ b \in LoadState
      /\ Append(a, e) \in Seq(Line) /\ Remembers(b, a, Len(a))
  BY <1>1, <1>2, <1>3, Accepted
<1> HIDE DEF b
<1>5. /\ c.lines = b.lines + 1 /\ c.current = {} /\ c.runs = Append(b.runs, r)
      /\ \A t \in Trailer : c.latest[t] = b.latest[t]
  BY <1>1, <1>4 DEF After1, Trailer
<1>6. b.runs \in Seq(Run) /\ r \in Run
  BY <1>4 DEF LoadState
<1>7. c.runs # <<>> /\ Last(c.runs) = r
  <2> DEFINE runs == b.runs
  <2>1. runs \in Seq(Run)
    BY <1>6
  <2> HIDE DEF runs
  <2>2. /\ Append(runs, r) # <<>> /\ Len(Append(runs, r)) = Len(runs) + 1
        /\ Append(runs, r)[Len(runs) + 1] = r
    BY <1>6, <2>1, AppendProperties
  <2>3. Last(Append(runs, r)) = r
    BY <2>2 DEF Last
  <2> QED BY <1>5, <2>2, <2>3 DEF runs
<1>8. r \notin ToSet(b.runs) /\ \A t \in Trailer : b.latest[t] \subseteq ToSet(b.runs)
  BY <1>2, <1>4 DEF Remembers
<1>9. \A t \in Trailer : c.latest[t] # {r}
  BY <1>5, <1>8
<1> HIDE DEF c
<1>10. c.lines > 0
  BY <1>2, <1>4, <1>5
<1>11. Settled(Append(a, e), r, Trailer)
  BY <1>4, <1>5, <1>7, <1>9, <1>10 DEF Settled, c
<1> QED BY <1>4, <1>11 DEF e

\* Each of its trailing lines may follow once.
LEMMA TrailerSettles ==
  ASSUME NEW a, NEW r \in Run, NEW types \in SUBSET Trailer, NEW t \in types, Settled(a, r, types)
  PROVE  Settled(a \o <<Of(t, r)>>, r, types \ {t})
<1> DEFINE e == Of(t, r)
           b == Load(a)
           c == Load(Append(a, e))
<1>1. e \in Line /\ e.type = t /\ e.run = r /\ t \in Trailer
  BY LinesAre, LinesDiffer
<1>2. /\ a \in Seq(Line) /\ b.ok /\ b.lines > 0 /\ b.current = {}
      /\ b.runs # <<>> /\ Last(b.runs) = r /\ b.latest[t] # {r} /\ \A u \in types : b.latest[u] # {r}
  BY DEF Settled
<1> HIDE DEF e
<1>3. Follows(b, e)
  BY <1>1, <1>2 DEF Follows, Trailer
<1>4. /\ c = After1(b, e) /\ c.ok /\ Append(a, e) = a \o <<e>> /\ b.lines \in Nat
      /\ Append(a, e) \in Seq(Line)
  BY <1>1, <1>2, <1>3, Accepted
<1> HIDE DEF b
<1>5. /\ c.lines = b.lines + 1 /\ c.current = {} /\ c.runs = b.runs
      /\ \A u \in Trailer \ {t} : c.latest[u] = b.latest[u]
  BY <1>1, <1>2, <1>4 DEF After1, Trailer
<1> HIDE DEF c
<1>6. c.lines > 0
  BY <1>2, <1>4, <1>5
<1>7. Settled(Append(a, e), r, types \ {t})
  BY <1>2, <1>4, <1>5, <1>6 DEF Settled, c
<1> QED BY <1>4, <1>7 DEF e

\* Three sequences, put together.
LEMMA Joined ==
  \A x, y, z \in Seq(Line) : (x \o y) \o z = x \o (y \o z) /\ x \o y \in Seq(Line)
<1> TAKE x, y, z \in Seq(Line)
<1>1. (x \o y) \o z = x \o (y \o z)
  BY ConcatAssociative
<1>2. x \o y \in Seq(Line)
  BY ConcatProperties
<1> QED BY <1>1, <1>2

Regrouped(a, m, i, u, g) == a \o (m \o ((i \o u) \o g)) = (((a \o m) \o i) \o u) \o g

\* The lines of an ending, regrouped.
LEMMA Regroup == \A a, m, i, u, g \in Seq(Line) : Regrouped(a, m, i, u, g)
<1> TAKE a, m, i, u, g \in Seq(Line)
<1> DEFINE S == Seq(Line)
           Cat(x, y) == x \o y
<1>1. a \in S /\ m \in S /\ i \in S /\ u \in S /\ g \in S
  OBVIOUS
<1>2. \A x, y, z \in S : Cat(Cat(x, y), z) = Cat(x, Cat(y, z)) /\ Cat(x, y) \in S
  BY Joined, Zenon
<1> HIDE DEF S, Cat
<1>3. Cat(Cat(a, m), Cat(Cat(i, u), g)) = Cat(a, Cat(m, Cat(Cat(i, u), g)))
  BY <1>1, <1>2
<1>4. Cat(Cat(a, m), Cat(Cat(i, u), g)) = Cat(Cat(Cat(a, m), Cat(i, u)), g)
  BY <1>1, <1>2
<1>5. Cat(Cat(a, m), Cat(i, u)) = Cat(Cat(Cat(a, m), i), u)
  BY <1>1, <1>2
<1>6. Cat(a, Cat(m, Cat(Cat(i, u), g))) = Cat(Cat(Cat(Cat(a, m), i), u), g)
  BY <1>3, <1>4, <1>5
<1> QED BY <1>6 DEF Cat, Regrouped

\* All lines of finalize.
LEMMA EndingLoads ==
  ASSUME NEW a \in Seq(Line), NEW w, w.run \in Run, w.ended = TRUE, Follow(a, w), NEW extras \in SUBSET Trailer
  PROVE  Loads(a \o Ending(w.run, extras))
<1> DEFINE r == w.run
           some(t) == IF t \in extras THEN <<Of(t, r)>> ELSE <<>>
           m == <<Of("messages", r)>>
           i == some("inventory")
           u == some("turn")
           g == some("grants")
<1>1. {"inventory", "turn", "grants"} = Trailer
  BY DEF Trailer
<1>2. m \in Seq(Line) /\ \A t \in Trailer : some(t) \in Seq(Line)
  <2>1. \A e \in Line : <<e>> \in Seq(Line)
    OBVIOUS
  <2>2. <<>> \in Seq(Line)
    OBVIOUS
  <2>3. Of("messages", r) \in Line /\ \A t \in Trailer : Of(t, r) \in Line
    BY LinesAre DEF OfRun
  <2> QED BY <2>1, <2>2, <2>3
<1>3. ASSUME NEW x, NEW types \in SUBSET Trailer, NEW t \in types, Settled(x, r, types)
      PROVE  Settled(x \o some(t), r, types \ {t})
  <2>1. CASE t \in extras
    BY <1>3, <2>1, TrailerSettles
  <2>2. CASE t \notin extras
    <3>1. x \in Seq(Line)
      BY <1>3 DEF Settled
    <3>2. x \o <<>> = x
      BY <3>1
    <3> QED BY <1>3, <2>2, <3>2 DEF Settled
  <2> QED BY <2>1, <2>2
<1>4. Settled(a \o m, r, Trailer)
  BY MessagesSettle
<1>5. m \in Seq(Line) /\ i \in Seq(Line) /\ u \in Seq(Line) /\ g \in Seq(Line)
  BY <1>1, <1>2
<1>6. Ending(r, extras) = m \o ((i \o u) \o g)
  BY DEF Ending, After
<1> HIDE DEF some, m
<1>7. Settled((a \o m) \o i, r, Trailer \ {"inventory"})
  BY <1>1, <1>3, <1>4
<1>8. Settled(((a \o m) \o i) \o u, r, (Trailer \ {"inventory"}) \ {"turn"})
  BY <1>1, <1>3, <1>7
<1>9. Settled((((a \o m) \o i) \o u) \o g, r, ((Trailer \ {"inventory"}) \ {"turn"}) \ {"grants"})
  BY <1>1, <1>3, <1>8
<1> HIDE DEF i, u, g
<1>10. a \o (m \o ((i \o u) \o g)) = (((a \o m) \o i) \o u) \o g
  <2>1. Regrouped(a, m, i, u, g)
    BY <1>5, Regroup
  <2> QED BY <2>1 DEF Regrouped
<1>11. Loads((((a \o m) \o i) \o u) \o g)
  BY <1>9 DEF Settled, Loads
<1> QED BY <1>6, <1>10, <1>11

\* A name, and a compaction through the last run.
LEMMA InfoLoads ==
  ASSUME NEW a \in Seq(Line), Loads(a), NEW n \in Name
  PROVE  Loads(a \o <<Info(n)>>)
<1> DEFINE e == Info(n)
           b == Load(a)
           c == Load(Append(a, e))
<1>1. e \in Line /\ e.type = "info"
  BY LinesAre, LinesDiffer
<1>2. b.ok /\ b.lines > 0 /\ b.current = {}
  BY DEF Loads
<1> HIDE DEF e
<1>3. Follows(b, e)
  BY <1>1, <1>2 DEF Follows, Trailer
<1>4. c = After1(b, e) /\ c.ok /\ Append(a, e) = a \o <<e>> /\ b.lines \in Nat
  BY <1>1, <1>2, <1>3, Accepted
<1> HIDE DEF b
<1>5. c.lines = b.lines + 1 /\ c.current = {}
  BY <1>1, <1>2, <1>4 DEF After1
<1>6. Loads(Append(a, e))
  BY <1>2, <1>4, <1>5 DEF Loads
<1> QED BY <1>4, <1>6 DEF e

\* A session loads with a compaction of its runs so far.
LEMMA CompactionLoads ==
  ASSUME NEW a \in Seq(Line), Loads(a), NEW e \in Line, e.type = "compaction",
         Load(a).runs # <<>>, e.run = Last(Load(a).runs)
  PROVE  Loads(a \o <<e>>)
<1> DEFINE b == Load(a)
           c == Load(Append(a, e))
           runs == b.runs
<1>1. b.ok /\ b.lines > 0 /\ b.current = {} /\ b \in LoadState
  BY LoadIs DEF Loads
<1>2. Remembers(b, a, Len(a))
  <2>1. Len(a) \in 0 .. Len(a)
    OBVIOUS
  <2> QED BY <1>1, <2>1, WalkRemembers DEF Load
<1>3. /\ runs \in Seq(Run) /\ runs # <<>> /\ b.compacted \in Nat /\ b.compacted <= Len(runs)
      /\ \A j, k \in 1 .. Len(runs) : runs[j] = runs[k] => j = k
  BY <1>1, <1>2 DEF Remembers, LoadState
<1> HIDE DEF runs
<1>4. Len(runs) \in 1 .. Len(runs) /\ e.run = runs[Len(runs)] /\ e.run \in ToSet(runs)
  <2>1. Len(runs) \in 1 .. Len(runs)
    BY <1>3
  <2>2. e.run = runs[Len(runs)]
    BY DEF Last, runs
  <2> QED BY <1>3, <2>1, <2>2 DEF ToSet
<1>5. IndexOf(runs, e.run) = Len(runs)
  BY <1>3, <1>4, IndexIs
<1>6. Follows(b, e)
  <2>1. IndexOf(runs, e.run) >= b.compacted
    BY <1>3, <1>5
  <2> QED BY <1>1, <1>4, <2>1 DEF Follows, Trailer, runs
<1>7. c = After1(b, e) /\ c.ok /\ Append(a, e) = a \o <<e>> /\ b.lines \in Nat
  BY <1>1, <1>6, Accepted
<1> HIDE DEF b
<1>8. c.lines = b.lines + 1 /\ c.current = {}
  BY <1>1, <1>7 DEF After1
<1>9. Loads(Append(a, e))
  BY <1>1, <1>7, <1>8 DEF Loads
<1> QED BY <1>7, <1>9

\* What a session that nothing hurt has, and each process's writes to it.
LEMMA LoadingFacts ==
  ASSUME Frame, NEW s \in Session, s \notin hurt
  PROVE  /\ s \notin bare /\ file[s] \in Seq(Line)
         /\ \A lines : Appended(s, lines) = file[s] \o lines
         /\ Appended(s, <<>>) = file[s]
         /\ \A p \in Process : Pending(p, s) = <<>> => Planned(p, s) = file[s]
<1>1. s \notin bare /\ file[s] \in Seq(Line)
  BY DEF Frame, Locks, Types
<1>2. \A lines : Appended(s, lines) = file[s] \o lines
  BY <1>1 DEF Appended
<1>3. file[s] \o <<>> = file[s]
  BY <1>1
<1>4. Appended(s, <<>>) = file[s]
  BY <1>2, <1>3
<1>5. \A p \in Process : Pending(p, s) = <<>> => Planned(p, s) = file[s]
  BY <1>4 DEF Planned
<1> QED BY <1>1, <1>2, <1>4, <1>5

\* The step does not write to the session, and leaves its writers.
LEMMA LoadingSame ==
  ASSUME Frame, Frame', NEW s \in Session, Loading(s), hurt \subseteq hurt',
         s \notin hurt' =>
           /\ file'[s] = file[s] /\ (s \in bare' <=> s \in bare) /\ writing'[s] = writing[s]
           /\ todo'["launcher"] = todo["launcher"] \/ todo'["launcher"] = <<>>
           /\ todo'["backend"] = todo["backend"] \/ (todo'["backend"] = <<>> /\ writing[s] = {})
  PROVE  Loading(s)'
<1> SUFFICES ASSUME s \notin hurt'
             PROVE  /\ Goes(Planned("backend", s)', writing'[s], Finalizing(s)')
                    /\ writing'[s] = {} => Sound(file'[s]) /\ Sound(Planned("launcher", s)')
  BY DEF Loading, Goes, Sound, Loads, Load, Follow
<1>0. "backend" \in Process /\ "launcher" \in Process /\ s \notin hurt
  BY DEF Process
<1>1. /\ Goes(Planned("backend", s), writing[s], Finalizing(s))
      /\ writing[s] = {} => Sound(file[s]) /\ Sound(Planned("launcher", s))
  BY <1>0 DEF Loading
<1>2. Planned("launcher", s)' = file'[s] \/ Planned("launcher", s)' = Planned("launcher", s)
  <2>1. Pending("launcher", s)' = <<>> \/ Pending("launcher", s)' = Pending("launcher", s)
    BY DEF Pending
  <2> QED BY <1>0, <2>1, PlannedSame
<1>3. writing'[s] # {} \/ (Sound(file'[s]) /\ Sound(Planned("launcher", s)'))
  BY <1>1, <1>2
<1>4. CASE todo'["backend"] = todo["backend"]
  <2>1. Pending("backend", s)' = Pending("backend", s) /\ Finalizing(s)' = Finalizing(s)
    BY <1>4 DEF Pending, Finalizing
  <2>2. Planned("backend", s)' = Planned("backend", s)
    BY <2>1 DEF Planned, Appended
  <2> QED BY <1>1, <1>3, <2>1, <2>2
<1>5. CASE todo'["backend"] = <<>> /\ writing[s] = {}
  <2>1. Pending("backend", s)' = <<>>
    BY <1>5 DEF Pending
  <2>2. Planned("backend", s)' = file'[s]
    BY <1>0, <2>1, PlannedNone
  <2> QED BY <1>1, <1>3, <1>5, <2>2 DEF Goes
<1> QED BY <1>4, <1>5

\* The session has neither writers nor writes left.
LEMMA LoadingDone ==
  ASSUME Frame', NEW s \in Session,
         s \notin hurt' => /\ writing'[s] = {} /\ Sound(file'[s])
                           /\ Pending("backend", s)' = <<>> /\ Pending("launcher", s)' = <<>>
  PROVE  Loading(s)'
<1>1. "backend" \in Process /\ "launcher" \in Process
  BY DEF Process
<1> SUFFICES ASSUME s \notin hurt'
             PROVE  /\ Goes(Planned("backend", s)', writing'[s], Finalizing(s)')
                    /\ writing'[s] = {} => Sound(file'[s]) /\ Sound(Planned("launcher", s)')
  BY DEF Loading, Goes, Sound, Loads, Load, Follow
<1>2. Planned("backend", s)' = file'[s] /\ Planned("launcher", s)' = file'[s]
  BY <1>1, PlannedNone
<1> QED BY <1>2 DEF Goes

\* Writers that the session gets with the lines: some of them return.
GoesOn(s, lines, returns, writers, ends) ==
  /\ writers = {} => writing[s] = {}
  /\ \A r \in Run : r \in ends <=> {r} \in returns
  /\ \A runs \in returns : \A r \in runs : r \in ends
  /\ s \notin hurt => Goes(Appended(s, lines), writers, ends)

\* The backend plans lines that go on as they should.
LEMMA LoadingPlans ==
  ASSUME Frame, Frame', \A t \in Session : Loading(t),
         NEW s \in Session, NEW lines \in Seq(Line), NEW sync, NEW names, NEW returns,
         Plans("backend", s, lines, sync, names, returns), UNCHANGED <<disk, hurt>>,
         NEW h, NEW w, NEW o, Takes(s, h, w, o), NEW ends, GoesOn(s, lines, returns, w, ends)
  PROVE  \A t \in Session : Loading(t)'
<1>0. /\ w = {} => writing[s] = {}
      /\ \A r \in Run : r \in ends <=> {r} \in returns
      /\ \A runs \in returns : \A r \in runs : r \in ends
      /\ s \notin hurt => Goes(Appended(s, lines), w, ends)
  BY DEF GoesOn
<1>1. Types /\ "backend" \in Process /\ "launcher" \in Process
  BY DEF Frame, Process
<1>2. /\ todo["backend"] = <<>> /\ Plan(todo'["backend"], s, lines, sync, names, returns)
      /\ todo'["launcher"] = todo["launcher"]
      /\ todo'["backend"] # <<>> => Head(todo'["backend"]).at = s
      /\ \A t \in Session : Pending("backend", t)' = (IF t = s THEN lines ELSE <<>>)
      /\ \A t \in Session : Pending("backend", t) = <<>>
  BY <1>1, PlansEffect DEF Process
<1>3. UNCHANGED <<file, bare, hurt>>
  BY DEF disk
<1>4. writing'[s] = w /\ \A t \in Session : t # s => writing'[t] = writing[t]
  BY <1>1 DEF Takes, Types
<1>5. ASSUME NEW t \in Session, t \notin hurt
      PROVE  writing'[t] = {} => writing[t] = {} /\ Sound(file'[t]) /\ Sound(Planned("launcher", t)')
  <2>1. Planned("launcher", t)' = Planned("launcher", t)
    BY <1>2, <1>3 DEF Planned, Appended, Pending
  <2>2. writing'[t] = {} => writing[t] = {}
    BY <1>0, <1>4
  <2> QED BY <1>3, <1>5, <2>1, <2>2 DEF Loading
<1>6. ASSUME NEW t \in Session, t \notin hurt, t # s
      PROVE  Goes(Planned("backend", t)', writing'[t], Finalizing(t)')
  <2>1. Finalizing(t) = {} /\ Planned("backend", t) = file[t]
    BY <1>2, FinalizingIs DEF Pending
  <2>2. Planned("backend", t)' = file[t]
    BY <1>1, <1>2, <1>3, <1>6, PlannedNone
  <2>3. Finalizing(t)' = {}
    <3>1. Types'
      BY DEF Frame
    <3>2. todo'["backend"] # <<>> \/ Len(todo'["backend"]) = 0
      BY <1>1, <3>1 DEF Types
    <3>3. \A i \in 1 .. Len(todo'["backend"]) : todo'["backend"][i].at = s
      BY <1>2 DEF Plan
    <3> QED BY <1>6, <3>3 DEF Finalizing
  <2> QED BY <1>4, <1>6, <2>1, <2>2, <2>3 DEF Loading
<1>7. s \notin hurt => Goes(Planned("backend", s)', writing'[s], Finalizing(s)')
  <2>1. Pending("backend", s)' = lines
    BY <1>2
  <2>2. Planned("backend", s)' = Appended(s, lines)
    BY <1>3, <2>1 DEF Planned, Appended
  <2>3. /\ \A i \in 1 .. Len(todo'["backend"]) :
             /\ todo'["backend"][i].at = s
             /\ todo'["backend"][i].op = "return" => todo'["backend"][i].runs \in returns
        /\ \A runs \in returns : \E i \in 1 .. Len(todo'["backend"]) :
             todo'["backend"][i].op = "return" /\ todo'["backend"][i].runs = runs
    BY <1>2 DEF Plan
  <2>4. \A r \in Run : r \in Finalizing(s)' <=> r \in ends
    <3>1. ASSUME NEW r \in Finalizing(s)' PROVE r \in ends
      BY <1>0, <2>3 DEF Finalizing
    <3>2. ASSUME NEW r \in Run, r \in ends PROVE r \in Finalizing(s)'
      <4>1. {r} \in returns
        BY <1>0, <3>2
      <4>2. PICK i \in 1 .. Len(todo'["backend"]) :
              todo'["backend"][i].op = "return" /\ todo'["backend"][i].runs = {r}
        BY <2>3, <4>1
      <4> QED BY <2>3, <4>2 DEF Finalizing
    <3> QED BY <3>1, <3>2
  <2>5. \A v \in writing'[s] : v.run \in Run
    BY DEF Frame, Types, Writer
  <2> QED BY <1>0, <1>4, <2>2, <2>4, <2>5 DEF Goes
<1>8. ASSUME NEW t \in Session PROVE Loading(t)'
  <2>1. t \notin hurt => Goes(Planned("backend", t)', writing'[t], Finalizing(t)')
    BY <1>6, <1>7
  <2> QED BY <1>3, <1>5, <2>1 DEF Loading, Goes, Sound, Loads, Load, Follow
<1> QED BY <1>8

\* The launcher plans lines that load.
LEMMA LoadingLaunch ==
  ASSUME Frame, Frame', \A t \in Session : Loading(t),
         NEW s \in Session, NEW lines \in Seq(Line), NEW sync, NEW names,
         Plans("launcher", s, lines, sync, names, {}), UNCHANGED <<disk, writing>>,
         hurt \subseteq hurt', s \notin hurt' => Sound(Appended(s, lines))
  PROVE  \A t \in Session : Loading(t)'
<1>1. Types /\ "backend" \in Process /\ "launcher" \in Process
  BY DEF Frame, Process
<1>2. /\ todo'["backend"] = todo["backend"]
      /\ \A t \in Session : Pending("launcher", t)' = (IF t = s THEN lines ELSE <<>>)
      /\ \A t \in Session : Pending("launcher", t) = <<>>
  BY <1>1, PlansEffect DEF Process
<1>3. UNCHANGED <<file, bare, writing>>
  BY DEF disk
<1>4. ASSUME NEW t \in Session, t \notin hurt'
      PROVE  /\ Goes(Planned("backend", t)', writing'[t], Finalizing(t)')
             /\ writing'[t] = {} => Sound(file'[t]) /\ Sound(Planned("launcher", t)')
  <2>1. t \notin hurt
    BY <1>4
  <2>2. Planned("backend", t)' = Planned("backend", t) /\ Finalizing(t)' = Finalizing(t)
    BY <1>2, <1>3 DEF Planned, Appended, Pending, Finalizing
  <2>3. Planned("launcher", t)' = IF t = s THEN Appended(s, lines) ELSE file[t]
    <3>1. CASE t = s
      <4>1. Pending("launcher", s)' = lines
        BY <1>2
      <4> QED BY <1>3, <3>1, <4>1 DEF Planned, Appended
    <3>2. CASE t # s
      BY <1>1, <1>2, <1>3, <3>2, PlannedNone
    <3> QED BY <3>1, <3>2
  <2>4. /\ Goes(Planned("backend", t), writing[t], Finalizing(t))
        /\ writing[t] = {} => Sound(file[t])
    BY <2>1 DEF Loading
  <2> QED BY <1>3, <1>4, <2>2, <2>3, <2>4
<1> QED BY <1>4 DEF Loading, Goes, Sound, Loads, Load, Follow

\* A write to another session.
LEMMA LoadingElsewhere ==
  ASSUME Frame, Frame', NEW p \in Process, Perform(p), NEW s \in Session, s # Head(todo[p]).at,
         Untouched(s), Loading(s), hurt' = hurt
  PROVE  Loading(s)'
<1>1. Types /\ "backend" \in Process /\ "launcher" \in Process
  BY DEF Frame, Process
<1>2. /\ todo[p] # <<>> /\ \A r \in Process \ {p} : todo'[r] = todo[r]
      /\ todo'[p] # <<>> => Head(todo'[p]).at = Head(todo[p]).at
  BY Popped
<1>3. Pending(p, s) = <<>> /\ Pending(p, s)' = <<>>
  BY <1>2 DEF Pending
<1>4. /\ file'[s] = file[s] /\ (s \in bare' <=> s \in bare) /\ writing'[s] = writing[s]
  BY DEF Untouched
<1>5. ASSUME NEW r \in Process, s \notin hurt PROVE Planned(r, s)' = Planned(r, s)
  <2>1. CASE r = p
    <3>1. Planned(p, s) = file[s] /\ Planned(p, s)' = file'[s]
      BY <1>3, <1>5, LoadingFacts, PlannedNone
    <3> QED BY <1>4, <2>1, <3>1
  <2>2. CASE r # p
    <3>1. Pending(r, s)' = Pending(r, s)
      BY <1>2, <2>2 DEF Pending
    <3> QED BY <1>4, <3>1 DEF Planned, Appended
  <2> QED BY <2>1, <2>2
<1>6. Finalizing(s)' = Finalizing(s)
  <2>1. CASE p = "backend"
    <3>1. Finalizing(s) = {}
      BY <1>2, <2>1, FinalizingIs
    <3>2. \A i \in 1 .. Len(todo'["backend"]) : todo'["backend"][i].at # s
      BY <2>1, Popped
    <3> QED BY <3>1, <3>2 DEF Finalizing
  <2>2. CASE p # "backend"
    BY <1>1, <1>2, <2>2 DEF Finalizing
  <2> QED BY <2>1, <2>2
<1> SUFFICES ASSUME s \notin hurt
             PROVE  /\ Goes(Planned("backend", s)', writing'[s], Finalizing(s)')
                    /\ writing'[s] = {} => Sound(file'[s]) /\ Sound(Planned("launcher", s)')
  BY DEF Loading, Goes, Sound, Loads, Load, Follow
<1>7. Planned("backend", s)' = Planned("backend", s) /\ Planned("launcher", s)' = Planned("launcher", s)
  BY <1>1, <1>5
<1> QED BY <1>4, <1>6, <1>7 DEF Loading

\* The backend's write.
LEMMA LoadingBackend ==
  ASSUME Frame, Frame', Perform("backend"), NEW w, w = Head(todo["backend"]), NEW s \in Session, s = w.at,
         Loading(s), hurt' = hurt
  PROVE  Loading(s)'
<1>1. Types /\ Types' /\ Locks' /\ "backend" \in Process /\ "launcher" \in Process
  BY DEF Frame, Process
<1>2. /\ todo["backend"] # <<>> /\ w = todo["backend"][1] /\ 1 \in 1 .. Len(todo["backend"])
      /\ \/ Pending("backend", s)' = <<>>
         \/ Pending("backend", s)' = <<Docs>>
  BY <1>1, Popped
<1>3. /\ w.op \in {"lines", "truncate", "put", "return"}
      /\ w.op = "lines" => Pending("backend", s) = w.lines
      /\ w.op # "lines" => Pending("backend", s) = <<>>
  BY <1>1, <1>2, HeadIs
<1>4. Performed(w)
  BY <1>1, WritesState
<1>5. /\ file'[s] = IF w.op = "lines" THEN Appended(s, w.lines) ELSE file[s]
      /\ writing'[s] = IF w.op = "return" THEN {} ELSE writing[s]
  BY <1>4, Zenon DEF Performed
<1> SUFFICES ASSUME s \notin hurt
             PROVE  /\ Goes(Planned("backend", s)', writing'[s], Finalizing(s)')
                    /\ writing'[s] = {} => Sound(file'[s]) /\ Sound(Planned("launcher", s)')
  BY DEF Loading, Goes, Sound, Loads, Load, Follow
<1>6. file'[s] = Planned("backend", s)
  <2>1. CASE w.op = "lines"
    BY <1>3, <1>5, <2>1 DEF Planned
  <2>2. CASE w.op # "lines"
    BY <1>1, <1>3, <1>5, <2>2, LoadingFacts
  <2> QED BY <2>1, <2>2
<1>7. Planned("launcher", s)' = file'[s]
  <2>1. Pending("launcher", s) = <<>> /\ todo'["launcher"] = todo["launcher"]
    BY <1>1, <1>2, AloneIs, Popped DEF Process
  <2>2. Pending("launcher", s)' = <<>>
    BY <2>1 DEF Pending
  <2> QED BY <1>1, <2>2, PlannedNone
<1>8. /\ Goes(Planned("backend", s), writing[s], Finalizing(s))
      /\ writing[s] = {} => Sound(file[s])
  BY DEF Loading
<1>9. writing'[s] = {} => Sound(file'[s])
  <2>1. CASE writing[s] = {}
    BY <1>6, <1>8, <2>1 DEF Goes
  <2>2. CASE writing[s] # {} /\ w.op = "return"
    <3>1. w.runs # {} /\ \E v \in writing[s] : w.runs = {v.run}
      <4>1. /\ w.runs # {} => \E v \in writing[w.at] : v.ended /\ w.runs = {v.run}
            /\ w.runs = {} => writing[w.at] = {}
        BY <1>2, <2>2 DEF Frame, Returns
      <4> QED BY <2>2, <4>1
    <3>2. PICK v \in writing[s] : w.runs = {v.run}
      BY <3>1
    <3>3. v.run \in Run
      BY <1>1 DEF Types, Writer
    <3>4. v.run \in Finalizing(s)
      BY <1>2, <2>2, <3>2, <3>3 DEF Finalizing
    <3>5. Loads(Planned("backend", s))
      BY <1>8, <2>2, <3>4 DEF Goes
    <3> QED BY <1>6, <3>5 DEF Sound
  <2> QED BY <1>5, <2>1, <2>2
<1>10. Goes(Planned("backend", s)', writing'[s], Finalizing(s)')
  <2>1. CASE Pending("backend", s)' = <<Docs>>
    <3>1. Planned("backend", s)' = <<Header, Docs>>
      BY <2>1, DocsPlanned
    <3>2. writing'[s] = {}
      <4>1. \E i \in 1 .. Len(todo'["backend"]) :
              /\ todo'["backend"][i].op = "lines" /\ todo'["backend"][i].lines = <<Docs>>
              /\ todo'["backend"][i].at = s
        <5>1. <<Docs>> # <<>>
          OBVIOUS
        <5>2. todo'["backend"] # <<>> /\ Head(todo'["backend"]).op = "lines" /\ Head(todo'["backend"]).at = s
              /\ Head(todo'["backend"]).lines = <<Docs>>
          BY <2>1, <5>1 DEF Pending
        <5>3. todo'["backend"][1] = Head(todo'["backend"]) /\ 1 \in 1 .. Len(todo'["backend"])
          <6>1. todo'["backend"] \in Seq(Write)
            BY <1>1 DEF Types
          <6> QED BY <5>2, <6>1
        <5> QED BY <5>2, <5>3
      <4>2. held'[s] = "free"
        BY <4>1 DEF Frame, Creating, Beginning
      <4> QED BY <1>1, <4>2 DEF Locks
    <3>3. Sound(<<Header, Docs>>)
      BY HeaderLoads DEF Sound
    <3> QED BY <3>1, <3>2, <3>3 DEF Goes
  <2>2. CASE Pending("backend", s)' = <<>>
    <3>1. Planned("backend", s)' = file'[s]
      BY <1>1, <2>2, PlannedNone
    <3>2. CASE w.op = "return"
      BY <1>5, <1>9, <3>1, <3>2 DEF Goes
    <3>3. CASE w.op # "return"
      <4>1. Finalizing(s)' = Finalizing(s)
        BY <3>3, FinalizingPopped
      <4> QED BY <1>5, <1>6, <1>8, <3>1, <3>3, <4>1
    <3> QED BY <3>2, <3>3
  <2> QED BY <1>2, <2>1, <2>2
<1> QED BY <1>7, <1>9, <1>10

\* The launcher's write.
LEMMA LoadingLauncher ==
  ASSUME Frame, Frame', Perform("launcher"), NEW w, w = Head(todo["launcher"]), NEW s \in Session, s = w.at,
         Loading(s), hurt' = hurt
  PROVE  Loading(s)'
<1>1. Types /\ Locks /\ "backend" \in Process /\ "launcher" \in Process
  BY DEF Frame, Process
<1>2. /\ todo["launcher"] # <<>> /\ todo'["backend"] = todo["backend"]
      /\ Pending("launcher", s)' = <<>>
  BY <1>1, Popped DEF Process
<1>3. /\ w.op = "lines" => Pending("launcher", s) = w.lines
      /\ w.op # "lines" => Pending("launcher", s) = <<>>
      /\ w.op # "return"
  BY <1>1, <1>2, HeadIs
<1>4. Performed(w)
  BY <1>1, WritesState
<1>5. /\ file'[s] = IF w.op = "lines" THEN Appended(s, w.lines) ELSE file[s]
      /\ writing'[s] = IF w.op = "return" THEN {} ELSE writing[s]
  BY <1>4, Zenon DEF Performed
<1>6. writing[s] = {} /\ writing'[s] = {}
  <2>1. held[s] = "free"
    BY <1>2 DEF Frame, Apart, Target
  <2> QED BY <1>1, <1>3, <1>5, <2>1 DEF Locks
<1>7. Pending("backend", s) = <<>> /\ Pending("backend", s)' = <<>>
  <2>1. Pending("backend", s) = <<>>
    BY <1>1, <1>2, AloneIs DEF Process
  <2> QED BY <1>2, <2>1 DEF Pending
<1>8. s \notin hurt' => Sound(file'[s])
  <2> SUFFICES ASSUME s \notin hurt PROVE Sound(file'[s])
    OBVIOUS
  <2>1. Sound(Planned("launcher", s)) /\ Sound(file[s])
    BY <1>6 DEF Loading
  <2>2. CASE w.op = "lines"
    BY <1>3, <1>5, <2>1, <2>2 DEF Planned
  <2>3. CASE w.op # "lines"
    BY <1>5, <2>1, <2>3
  <2> QED BY <2>2, <2>3
<1> QED BY <1>2, <1>6, <1>7, <1>8, LoadingDone

\* A write leaves the file that was to load.
LEMMA LoadingPerform ==
  ASSUME Frame, Frame', \A t \in Session : Loading(t), NEW p \in Process, Perform(p)
  PROVE  \A t \in Session : Loading(t)'
<1> SUFFICES ASSUME NEW w, w = Head(todo[p]), NEW s \in Session PROVE Loading(s)'
  OBVIOUS
<1>1. hurt' = hurt
  BY PerformIs
<1>2. Performed(w)
  BY WritesState
<1>3. CASE s # w.at
  <2>1. Untouched(s)
    BY <1>2, <1>3 DEF Performed
  <2> QED BY <1>1, <1>3, <2>1, LoadingElsewhere
<1>4. CASE s = w.at
  <2>1. CASE p = "backend"
    BY <1>1, <1>4, <2>1, LoadingBackend
  <2>2. CASE p = "launcher"
    BY <1>1, <1>4, <2>2, LoadingLauncher
  <2> QED BY <2>1, <2>2 DEF Process
<1> QED BY <1>3, <1>4

\* What the file and its writers are when the backend has nothing left to write.
LEMMA LoadingFree ==
  ASSUME Frame, NEW s \in Session, Loading(s), s \notin hurt, todo["backend"] = <<>>
  PROVE  /\ writing[s] = {} => Sound(file[s])
         /\ \A w \in writing[s] : Follow(file[s], w)
         /\ Goes(file[s], writing[s], {})
<1>1. Finalizing(s) = {} /\ Planned("backend", s) = file[s]
  BY FinalizingIs DEF Pending
<1> QED BY <1>1 DEF Loading, Goes

\* The first line of a run.
LEMMA StartLoads ==
  ASSUME Frame, NEW s \in Session, s \notin hurt, NEW r \in Run, StartRun(s, r)
  PROVE  Goes(Appended(s, <<Of("run", r)>>), {[run |-> r, events |-> 0, ended |-> FALSE]}, {})
<1>1. Loads(file[s]) /\ \A t \in Session : Of("run", r) \notin ToSet(file[t])
  BY DEF StartRun
<1>2. file[s] \in Seq(Line) /\ Appended(s, <<Of("run", r)>>) = file[s] \o <<Of("run", r)>>
  BY LoadingFacts
<1> DEFINE w == [run |-> r, events |-> 0, ended |-> FALSE]
<1>3. w.run = r /\ w.events = 0 /\ w.ended = FALSE
  OBVIOUS
<1> HIDE DEF w
<1>4. Follow(file[s] \o <<Of("run", r)>>, w)
  BY <1>1, <1>2, <1>3, RunFollows
<1>5. Goes(file[s] \o <<Of("run", r)>>, {w}, {})
  BY <1>4 DEF Goes
<1> QED BY <1>2, <1>5 DEF w

\* A further one.
LEMMA EventLoads ==
  ASSUME Frame, NEW s \in Session, Loading(s), s \notin hurt, todo["backend"] = <<>>,
         NEW w \in writing[s], w.ended = FALSE,
         NEW type \in {"event", "end"}, type = "end" => w.events > 0,
         NEW v, v.run = w.run, v.events = (IF type = "event" THEN w.events + 1 ELSE w.events),
         type = "event" => v.ended = FALSE, type = "end" => v.ended = TRUE
  PROVE  Goes(Appended(s, <<Of(type, w.run)>>), {v}, {})
<1>1. w.run \in Run
  BY DEF Frame, Types, Writer
<1>2. file[s] \in Seq(Line) /\ Appended(s, <<Of(type, w.run)>>) = file[s] \o <<Of(type, w.run)>>
  BY LoadingFacts
<1>3. Follow(file[s], w)
  BY LoadingFree
<1>4. Follow(file[s] \o <<Of(type, w.run)>>, v)
  BY <1>1, <1>2, <1>3, EventFollows
<1> QED BY <1>2, <1>4 DEF Goes

\* The last ones.
LEMMA FinalizeLoads ==
  ASSUME Frame, NEW s \in Session, Loading(s), s \notin hurt, todo["backend"] = <<>>,
         NEW w \in writing[s], w.ended, NEW extras \in SUBSET Trailer
  PROVE  Goes(Appended(s, Ending(w.run, extras)), writing[s], {w.run})
<1>1. w.run \in Run /\ w.ended = TRUE
  BY DEF Frame, Types, Writer
<1>2. file[s] \in Seq(Line) /\ Appended(s, Ending(w.run, extras)) = file[s] \o Ending(w.run, extras)
  BY LoadingFacts
<1>3. Follow(file[s], w)
  BY LoadingFree
<1>4. Loads(file[s] \o Ending(w.run, extras))
  BY <1>1, <1>2, <1>3, EndingLoads
<1>5. \A v \in writing[s] : v = w
  BY DEF Frame, Locks
<1> QED BY <1>2, <1>4, <1>5 DEF Goes

\* The backend's commands.
LEMMA LoadingCommand ==
  ASSUME Frame, Frame', BoundsAssumption, \A t \in Session : Loading(t), NEW s \in Session,
         \/ \E docs \in BOOLEAN : CreateSession(s, docs)
         \/ \E r \in Run : StartRun(s, r)
         \/ \E type \in {"event", "end"} : AppendEvent(s, type)
         \/ \E extras \in SUBSET Extras : Finalize(s, extras)
         \/ FailCompaction(s) \/ EndCompaction(s) \/ SetMode(s)
         \/ \E n \in Name : NameSession(s, n)
  PROVE  \A t \in Session : Loading(t)'
<1>1. Types /\ "backend" \in Process /\ UNCHANGED <<disk, hurt>> /\ todo["backend"] = <<>>
  BY DEF Frame, Process, CreateSession, StartRun, AppendEvent, Finalize, FailCompaction, EndCompaction,
         SetMode, NameSession, Does, Free
<1>2. Loading(s) /\ <<>> \in Seq(Line)
  OBVIOUS
<1>3. ASSUME NEW lines, NEW returns \in {{}, {{}}}, NEW writers, writers = {} => writing[s] = {},
             s \notin hurt => Goes(Appended(s, lines), writers, {})
      PROVE  GoesOn(s, lines, returns, writers, {})
  <2>1. /\ \A r \in Run : r \in {} <=> {r} \in returns
        /\ \A runs \in returns : \A r \in runs : r \in {}
    OBVIOUS
  <2> QED BY <1>3, <2>1 DEF GoesOn
<1>5. CASE \E docs \in BOOLEAN : CreateSession(s, docs)
  <2>1. /\ Plans("backend", s, <<Header>>, TRUE, {{}}, {}) /\ Takes(s, "free", {}, {})
        /\ file[s] = <<>> /\ s \notin bare
    BY <1>5, CreateSessionIs
  <2>2. <<Header>> \in Seq(Line) /\ Loads(<<Header>>)
    BY HeaderLoads
  <2>3. Appended(s, <<Header>>) = <<Header>>
    BY <2>1 DEF Appended
  <2>4. Goes(Appended(s, <<Header>>), {}, {})
    BY <2>2, <2>3 DEF Goes, Sound
  <2>5. writing[s] = {}
    BY <2>1 DEF Frame, Locks
  <2>6. GoesOn(s, <<Header>>, {}, {}, {})
    BY <1>3, <2>4, <2>5
  <2> QED BY <1>1, <2>1, <2>2, <2>6, LoadingPlans
<1>6. CASE \E r \in Run : StartRun(s, r)
  <2>1. PICK r \in Run : StartRun(s, r)
    BY <1>6
  <2> DEFINE l == <<Of("run", r)>>
             W == {[run |-> r, events |-> 0, ended |-> FALSE]}
  <2>2. Plans("backend", s, l, FALSE, {}, {}) /\ Takes(s, "run", W, {})
    BY <2>1, StartRunIs
  <2>3. l \in Seq(Line)
    BY LinesAre DEF OfRun
  <2>4. s \notin hurt => Goes(Appended(s, l), W, {})
    BY <2>1, StartLoads
  <2>5. W # {}
    OBVIOUS
  <2> HIDE DEF l, W
  <2>6. GoesOn(s, l, {}, W, {})
    BY <1>3, <2>4, <2>5
  <2> QED BY <1>1, <2>2, <2>3, <2>6, LoadingPlans
<1>7. CASE \E type \in {"event", "end"} : AppendEvent(s, type)
  <2>1. PICK type \in {"event", "end"} : AppendEvent(s, type)
    BY <1>7
  <2>2. PICK w \in writing[s] :
          /\ Plans("backend", s, <<Of(type, w.run)>>, FALSE, {}, {})
          /\ Takes(s, "run", {More(w, type)}, {})
          /\ w.ended = FALSE /\ (type = "end" => w.events > 0)
          /\ More(w, type).run = w.run
          /\ More(w, type).events = (IF type = "event" THEN w.events + 1 ELSE w.events)
          /\ More(w, type).ended = (type = "end")
    BY <2>1, AppendEventIs
  <2> DEFINE l == <<Of(type, w.run)>>
             v == More(w, type)
  <2>3. /\ (type = "event" => v.ended = FALSE) /\ (type = "end" => v.ended = TRUE) /\ v.run = w.run
        /\ v.events = (IF type = "event" THEN w.events + 1 ELSE w.events)
    BY <2>2
  <2>4. w.run \in Run /\ type \in OfRun
    BY <1>1, <2>2 DEF Types, Writer, OfRun
  <2>5. l \in Seq(Line)
    BY <2>4, LinesAre
  <2> HIDE DEF v
  <2>6. s \notin hurt => Goes(Appended(s, l), {v}, {})
    BY <1>1, <1>2, <2>2, <2>3, EventLoads
  <2>7. Plans("backend", s, l, FALSE, {}, {}) /\ Takes(s, "run", {v}, {})
    BY <2>2 DEF v
  <2> DEFINE V == {v}
  <2>8. V # {}
    OBVIOUS
  <2> HIDE DEF l, V
  <2>9. (s \notin hurt => Goes(Appended(s, l), V, {})) /\ Takes(s, "run", V, {})
    BY <2>6, <2>7 DEF V
  <2>10. GoesOn(s, l, {}, V, {})
    BY <1>3, <2>8, <2>9
  <2> QED BY <1>1, <2>5, <2>7, <2>9, <2>10, LoadingPlans
<1>8. CASE \E extras \in SUBSET Extras : Finalize(s, extras)
  <2>1. PICK extras \in SUBSET Extras : Finalize(s, extras)
    BY <1>8
  <2>2. PICK w \in writing[s] :
          /\ Plans("backend", s, Ending(w.run, extras), TRUE, {meta[s].name}, {{w.run}})
          /\ Takes(s, "run", writing[s], {})
          /\ w.ended /\ w.run \in Run /\ extras \in SUBSET Trailer
    BY <2>1, FinalizeIs
  <2> DEFINE l == Ending(w.run, extras)
             ends == {w.run}
             returns == {{w.run}}
  <2>3. l \in Seq(Line)
    BY <2>2, EndingIs
  <2>4. s \notin hurt => Goes(Appended(s, l), writing[s], ends)
    BY <1>1, <1>2, <2>2, FinalizeLoads
  <2>5. /\ \A r \in Run : r \in ends <=> {r} \in returns
        /\ \A runs \in returns : \A r \in runs : r \in ends
    OBVIOUS
  <2>6. Plans("backend", s, l, TRUE, {meta[s].name}, returns)
    BY <2>2
  <2> HIDE DEF l, ends, returns
  <2>7. GoesOn(s, l, returns, writing[s], ends)
    BY <2>4, <2>5 DEF GoesOn
  <2> QED BY <1>1, <2>2, <2>3, <2>6, <2>7, LoadingPlans
<1>9. CASE FailCompaction(s)
  <2>1. Plans("backend", s, <<>>, FALSE, {}, {{}}) /\ Takes(s, "compaction", {}, {}) /\ writing[s] = {}
    BY <1>9, FailCompactionIs
  <2>2. s \notin hurt => Goes(Appended(s, <<>>), {}, {})
    BY <1>1, <1>2, <2>1, LoadingFree, LoadingFacts DEF Goes
  <2>3. GoesOn(s, <<>>, {{}}, {}, {})
    BY <1>3, <2>1, <2>2
  <2> QED BY <1>1, <1>2, <2>1, <2>3, LoadingPlans
<1>10. CASE EndCompaction(s)
  <2> DEFINE e == Compacting(s)
             l == <<e>>
  <2>1. /\ Plans("backend", s, l, TRUE, {meta[s].name}, {{}})
        /\ Takes(s, "compaction", {}, {}) /\ e \in Line /\ writing[s] = {}
        /\ Loads(file[s]) /\ Load(file[s]).runs # <<>>
    BY <1>10, EndCompactionIs
  <2>2. e.type = "compaction" /\ e.run = Last(Load(file[s]).runs)
    BY DEF Compacting
  <2> HIDE DEF e
  <2>3. l \in Seq(Line)
    BY <2>1
  <2>4. s \notin hurt => Goes(Appended(s, l), {}, {})
    <3> SUFFICES ASSUME s \notin hurt PROVE Goes(Appended(s, l), {}, {})
      OBVIOUS
    <3>1. file[s] \in Seq(Line) /\ Appended(s, l) = file[s] \o l
      BY LoadingFacts
    <3>2. Loads(file[s] \o l)
      BY <2>1, <2>2, <3>1, CompactionLoads
    <3> QED BY <3>1, <3>2 DEF Goes, Sound
  <2> HIDE DEF l
  <2>5. GoesOn(s, l, {{}}, {}, {})
    BY <1>3, <2>1, <2>4
  <2> QED BY <1>1, <2>1, <2>3, <2>5, LoadingPlans
<1>11. CASE SetMode(s)
  <2>1. Plans("backend", s, <<>>, TRUE, {meta[s].name}, {}) /\ Takes(s, held[s], writing[s], source[s])
    BY <1>11, SetModeIs
  <2>2. s \notin hurt => Goes(Appended(s, <<>>), writing[s], {})
    BY <1>1, <1>2, LoadingFree, LoadingFacts
  <2>3. GoesOn(s, <<>>, {}, writing[s], {})
    BY <1>3, <2>2
  <2> QED BY <1>1, <1>2, <2>1, <2>3, LoadingPlans
<1>12. CASE \E n \in Name : NameSession(s, n)
  <2>1. PICK n \in Name : NameSession(s, n)
    BY <1>12
  <2> DEFINE l == <<Info(n)>>
  <2>2. /\ Plans("backend", s, l, TRUE, {{n}}, {}) /\ Takes(s, "free", {}, {})
        /\ Loads(file[s]) /\ writing[s] = {}
    BY <2>1, NameSessionIs
  <2>3. l \in Seq(Line)
    BY LinesAre
  <2>4. s \notin hurt => Goes(Appended(s, l), {}, {})
    BY <2>2, LoadingFacts, InfoLoads DEF Goes, Sound
  <2> HIDE DEF l
  <2>5. GoesOn(s, l, {}, {}, {})
    BY <1>3, <2>2, <2>4
  <2> QED BY <1>1, <2>2, <2>3, <2>5, LoadingPlans
<1> QED BY <1>5, <1>6, <1>7, <1>8, <1>9, <1>10, <1>11, <1>12

\* The launcher's commands.
LEMMA LoadingFork ==
  ASSUME Frame, Frame', \A t \in Session : Loading(t), CopyFork \/ DescribeFork \/ NameFork
  PROVE  \A t \in Session : Loading(t)'
<1>0. <<>> \in Seq(Line) /\ NoFork \notin Fork
  BY ForkStages
<1>1. forking \in Fork => forking.to \in Session /\ (forking.to \notin hurt => Sound(file[forking.to]))
  <2> SUFFICES ASSUME forking \in Fork
               PROVE  forking.to \in Session /\ (forking.to \notin hurt => Sound(file[forking.to]))
    OBVIOUS
  <2>1. forking.to \in Session
    BY DEF Fork
  <2>2. held[forking.to] = "free"
    BY <1>0, <2>1 DEF Frame, Apart, Target
  <2>3. writing[forking.to] = {}
    BY <2>1, <2>2 DEF Frame, Locks
  <2> QED BY <2>1, <2>3 DEF Loading
<1>2. CASE CopyFork
  <2> DEFINE a == file[forking.from]
             l == ForkOf(a, forking.last)
             s == forking.to
  <2>1. /\ l \in Seq(Line) /\ Plans("launcher", s, l, TRUE, {}, {})
        /\ s \in Session /\ forking.last \in SUBSET Run
        /\ file[s] = <<>> /\ a \in Seq(Line)
        /\ hurt' = (IF Loads(a) THEN hurt ELSE hurt \cup {s})
        /\ UNCHANGED <<disk, writing>>
    BY <1>2, CopyForkIs
  <2>2. Loads(a) => Loads(l)
    <3> SUFFICES ASSUME Loads(a) PROVE Loads(l)
      OBVIOUS
    <3>1. Load(a).ok /\ Load(a).current = {}
      BY DEF Loads
    <3>2. Alike(Load(a), Load(l))
      BY <2>1, <3>1, ForkAlike
    <3>3. Load(l) \in LoadState
      BY <2>1, LoadIs
    <3> HIDE DEF a, l
    <3>4. Load(l).ok /\ Load(l).lines > 0 /\ Load(l).current = {}
      BY <3>1, <3>2, <3>3 DEF Alike, LoadState
    <3> QED BY <3>4 DEF Loads
  <2> HIDE DEF a, l
  <2>3. s \notin hurt' => Sound(Appended(s, l))
    <3> SUFFICES ASSUME s \notin hurt' PROVE Sound(Appended(s, l))
      OBVIOUS
    <3>1. s \notin hurt /\ Loads(a)
      BY <2>1
    <3>2. Appended(s, l) = <<>> \o l
      BY <2>1, <3>1, LoadingFacts
    <3>3. \A q \in Seq(Line) : <<>> \o q = q
      OBVIOUS
    <3> QED BY <2>1, <2>2, <3>1, <3>2, <3>3 DEF Sound
  <2>4. hurt \subseteq hurt'
    BY <2>1
  <2> QED BY <2>1, <2>3, <2>4, LoadingLaunch
<1>3. CASE DescribeFork
  <2> DEFINE s == forking.to
  <2>1. /\ forking \in Fork /\ s \in Session
        /\ Plans("launcher", s, <<>>, TRUE, {{}}, {}) /\ UNCHANGED <<disk, writing, hurt>>
    BY <1>3, DescribeForkIs
  <2>2. s \notin hurt' => Sound(Appended(s, <<>>))
    BY <1>1, <2>1, LoadingFacts
  <2> QED BY <1>0, <2>1, <2>2, LoadingLaunch
<1>4. CASE NameFork
  <2> DEFINE s == forking.to
  <2>1. /\ forking \in Fork /\ s \in Session /\ UNCHANGED <<disk, writing, hurt>>
        /\ \/ Plans("launcher", s, <<>>, TRUE, {}, {})
           \/ /\ \E n \in Name : Plans("launcher", s, <<Info(n)>>, TRUE, {{n}}, {})
              /\ Loads(file[s])
    BY <1>4, NameForkIs
  <2>2. CASE Plans("launcher", s, <<>>, TRUE, {}, {})
    <3>1. s \notin hurt' => Sound(Appended(s, <<>>))
      BY <1>1, <2>1, LoadingFacts
    <3> QED BY <1>0, <2>1, <2>2, <3>1, LoadingLaunch
  <2>3. CASE /\ \E n \in Name : Plans("launcher", s, <<Info(n)>>, TRUE, {{n}}, {})
             /\ Loads(file[s])
    <3>1. PICK n \in Name : Plans("launcher", s, <<Info(n)>>, TRUE, {{n}}, {})
      BY <2>3
    <3> DEFINE l == <<Info(n)>>
    <3>2. l \in Seq(Line)
      BY LinesAre
    <3>3. s \notin hurt' => Sound(Appended(s, l))
      BY <2>1, <2>3, LoadingFacts, InfoLoads DEF Sound
    <3> HIDE DEF l
    <3>4. Plans("launcher", s, l, TRUE, {{n}}, {})
      BY <3>1 DEF l
    <3> QED BY <2>1, <3>2, <3>3, <3>4, LoadingLaunch
  <2> QED BY <2>1, <2>2, <2>3
<1> QED BY <1>2, <1>3, <1>4

\* Nothing is planned, or what was, or lines that may be several.
LEMMA BatchesKept ==
  ASSUME Batches,
         \/ /\ todo'["backend"] = todo["backend"]
            /\ \A s \in Session : Pending("backend", s) # <<>> => writing'[s] = writing[s]
         \/ \A s \in Session : Len(Pending("backend", s)') > 1 => writing'[s] # {},
         \/ todo'["launcher"] = todo["launcher"] /\ (todo["launcher"] = <<>> \/ forking' = forking)
         \/ \A s \in Session : Len(Pending("launcher", s)') > 1 => forking' # NoFork /\ forking'.to = s
  PROVE  Batches'
<1>0. "backend" \in Process /\ "launcher" \in Process /\ ~(Len(<<>>) > 1)
  BY DEF Process
<1>1. ASSUME NEW s \in Session, Len(Pending("backend", s)') > 1 PROVE writing'[s] # {}
  <2>1. CASE /\ todo'["backend"] = todo["backend"]
             /\ \A t \in Session : Pending("backend", t) # <<>> => writing'[t] = writing[t]
    <3>1. Pending("backend", s)' = Pending("backend", s)
      BY <2>1 DEF Pending
    <3>2. writing[s] # {} /\ Pending("backend", s) # <<>>
      BY <1>0, <1>1, <3>1 DEF Batches
    <3> QED BY <2>1, <3>2
  <2>2. CASE \A t \in Session : Len(Pending("backend", t)') > 1 => writing'[t] # {}
    BY <1>1, <2>2
  <2> QED BY <2>1, <2>2
<1>2. ASSUME NEW s \in Session, Len(Pending("launcher", s)') > 1 PROVE forking' # NoFork /\ forking'.to = s
  <2>1. CASE todo'["launcher"] = todo["launcher"] /\ (todo["launcher"] = <<>> \/ forking' = forking)
    <3>1. Pending("launcher", s)' = Pending("launcher", s)
      BY <2>1 DEF Pending
    <3>2. forking # NoFork /\ forking.to = s
      BY <1>0, <1>2, <3>1 DEF Batches
    <3>3. todo["launcher"] # <<>>
      BY <1>0, <1>2, <3>1 DEF Pending
    <3> QED BY <2>1, <3>2, <3>3
  <2>2. CASE \A t \in Session : Len(Pending("launcher", t)') > 1 => forking' # NoFork /\ forking'.to = t
    BY <1>2, <2>2
  <2> QED BY <2>1, <2>2
<1>3. NoFork' = NoFork
  BY DEF NoFork
<1> QED BY <1>1, <1>2, <1>3 DEF Batches, Process

\* The backend plans lines, several of them only for a run that is open.
LEMMA BatchesPlans ==
  ASSUME Frame, Batches, NEW s \in Session, NEW lines \in Seq(Line), NEW sync, NEW names, NEW returns,
         Plans("backend", s, lines, sync, names, returns), forking' = forking,
         NEW h, NEW w, NEW o, Takes(s, h, w, o), Len(lines) > 1 => w # {}
  PROVE  Batches'
<1>1. Types /\ "backend" \in Process /\ "launcher" \in Process /\ ~(Len(<<>>) > 1)
  BY DEF Frame, Process
<1>2. /\ todo'["launcher"] = todo["launcher"]
      /\ \A t \in Session : Pending("backend", t)' = (IF t = s THEN lines ELSE <<>>)
  BY <1>1, PlansEffect DEF Process
<1>3. writing'[s] = w
  BY <1>1 DEF Takes, Types
<1>4. ASSUME NEW t \in Session, Len(Pending("backend", t)') > 1 PROVE writing'[t] # {}
  BY <1>1, <1>2, <1>3, <1>4
<1> QED BY <1>2, <1>4, BatchesKept

\* A write leaves less to write.
LEMMA BatchesPerform ==
  ASSUME Frame, Frame', Batches, NEW p \in Process, Perform(p)
  PROVE  Batches'
<1> SUFFICES ASSUME NEW w, w = Head(todo[p]) PROVE Batches'
  OBVIOUS
<1>1. /\ \A r \in Process \ {p} : todo'[r] = todo[r]
      /\ \A s \in Session : Pending(p, s)' = <<>> \/ Pending(p, s)' = <<Docs>>
      /\ todo[p] # <<>>
  BY Popped
<1>2. forking' = forking /\ Performed(w)
  BY PerformIs, WritesState
<1>3. Len(<<>>) = 0 /\ Len(<<Docs>>) = 1
  OBVIOUS
<1>4. ASSUME NEW s \in Session, Len(Pending(p, s)') > 1 PROVE FALSE
  <2>1. CASE Pending(p, s)' = <<>>
    BY <1>3, <1>4, <2>1
  <2>2. CASE Pending(p, s)' = <<Docs>>
    BY <1>3, <1>4, <2>2
  <2> QED BY <1>1, <2>1, <2>2
<1>5. CASE p = "backend"
  BY <1>1, <1>2, <1>4, <1>5, BatchesKept DEF Process
<1>6. CASE p = "launcher"
  <2>1. todo'["backend"] = todo["backend"] /\ Pending("backend", w.at) = <<>>
    BY <1>1, <1>6, AloneIs DEF Process
  <2>2. \A s \in Session : s # w.at => writing'[s] = writing[s]
    BY <1>2, PerformedIs
  <2> QED BY <1>4, <1>6, <2>1, <2>2, BatchesKept
<1> QED BY <1>5, <1>6 DEF Process

\* A death leaves nothing.
LEMMA BatchesDie ==
  ASSUME Frame, Batches, NEW p \in Process, Die(p)
  PROVE  Batches'
<1>1. /\ todo'[p] = <<>> /\ \A r \in Process \ {p} : todo'[r] = todo[r]
  BY DieState
<1>2. \A s \in Session : ~(Len(Pending(p, s)') > 1)
  <2>1. \A s \in Session : Pending(p, s)' = <<>>
    BY <1>1 DEF Pending
  <2>2. Len(<<>>) = 0
    OBVIOUS
  <2> QED BY <2>1, <2>2
<1>3. CASE p = "backend"
  <2>1. forking' = forking
    BY <1>3 DEF Die
  <2> QED BY <1>1, <1>2, <1>3, <2>1, BatchesKept DEF Process
<1>4. CASE p = "launcher"
  <2>1. writing' = writing
    BY <1>4 DEF Die
  <2> QED BY <1>1, <1>2, <1>4, <2>1, BatchesKept DEF Process
<1> QED BY <1>3, <1>4 DEF Process

\* The commands of the backend write one line, or an ending.
LEMMA BatchesCommand ==
  ASSUME Frame, BoundsAssumption, Batches, NEW s \in Session,
         \/ \E docs \in BOOLEAN : CreateSession(s, docs)
         \/ \E r \in Run : StartRun(s, r)
         \/ \E type \in {"event", "end"} : AppendEvent(s, type)
         \/ \E extras \in SUBSET Extras : Finalize(s, extras)
         \/ FailCompaction(s) \/ EndCompaction(s) \/ SetMode(s)
         \/ \E n \in Name : NameSession(s, n)
  PROVE  Batches'
<1>0. <<>> \in Seq(Line) /\ ~(Len(<<>>) > 1)
  OBVIOUS
<1>a. Types
  BY DEF Frame
<1>b. forking' = forking
  BY DEF CreateSession, StartRun, AppendEvent, Finalize, FailCompaction, EndCompaction,
         SetMode, NameSession
<1>1. Types /\ forking' = forking /\ <<>> \in Seq(Line) /\ ~(Len(<<>>) > 1)
  BY <1>0, <1>a, <1>b
<1>2. \A e \in Line : <<e>> \in Seq(Line) /\ ~(Len(<<e>>) > 1)
  OBVIOUS
<1>3. CASE \E docs \in BOOLEAN : CreateSession(s, docs)
  <2>1. Plans("backend", s, <<Header>>, TRUE, {{}}, {}) /\ Takes(s, "free", {}, {})
    BY <1>3, CreateSessionIs
  <2> QED BY <1>1, <1>2, <2>1, LinesAre, BatchesPlans
<1>4. CASE \E r \in Run : StartRun(s, r)
  <2>1. PICK r \in Run : StartRun(s, r)
    BY <1>4
  <2> DEFINE W == {[run |-> r, events |-> 0, ended |-> FALSE]}
  <2>2. Plans("backend", s, <<Of("run", r)>>, FALSE, {}, {}) /\ Takes(s, "run", W, {})
    BY <2>1, StartRunIs
  <2>3. Of("run", r) \in Line
    BY LinesAre DEF OfRun
  <2> HIDE DEF W
  <2> QED BY <1>1, <1>2, <2>2, <2>3, BatchesPlans
<1>5. CASE \E type \in {"event", "end"} : AppendEvent(s, type)
  <2>1. PICK type \in {"event", "end"} : AppendEvent(s, type)
    BY <1>5
  <2>2. PICK w \in writing[s] : /\ Plans("backend", s, <<Of(type, w.run)>>, FALSE, {}, {})
                                /\ Takes(s, "run", {More(w, type)}, {})
    BY <2>1, AppendEventIs
  <2>3. w.run \in Run /\ type \in OfRun
    BY <1>1, <2>2 DEF Types, Writer, OfRun
  <2>4. Of(type, w.run) \in Line
    BY <2>3, LinesAre
  <2> QED BY <1>1, <1>2, <2>2, <2>4, BatchesPlans
<1>6. CASE \E extras \in SUBSET Extras : Finalize(s, extras)
  <2>1. PICK extras \in SUBSET Extras : Finalize(s, extras)
    BY <1>6
  <2>2. PICK w \in writing[s] :
          /\ Plans("backend", s, Ending(w.run, extras), TRUE, {meta[s].name}, {{w.run}})
          /\ Takes(s, "run", writing[s], {})
          /\ w.run \in Run /\ extras \in SUBSET Trailer
    BY <2>1, FinalizeIs
  <2>3. Ending(w.run, extras) \in Seq(Line) /\ writing[s] # {}
    BY <2>2, EndingIs
  <2> QED BY <1>1, <2>2, <2>3, BatchesPlans
<1>7. CASE FailCompaction(s)
  <2>1. Plans("backend", s, <<>>, FALSE, {}, {{}}) /\ Takes(s, "compaction", {}, {})
    BY <1>7, FailCompactionIs
  <2> QED BY <1>1, <2>1, BatchesPlans
<1>8. CASE EndCompaction(s)
  <2>1. /\ Plans("backend", s, <<Compacting(s)>>, TRUE, {meta[s].name}, {{}})
        /\ Takes(s, "compaction", {}, {}) /\ Compacting(s) \in Line
    BY <1>8, EndCompactionIs
  <2> QED BY <1>1, <1>2, <2>1, BatchesPlans
<1>9. CASE SetMode(s)
  <2>1. Plans("backend", s, <<>>, TRUE, {meta[s].name}, {}) /\ Takes(s, held[s], writing[s], source[s])
    BY <1>9, SetModeIs
  <2> QED BY <1>1, <2>1, BatchesPlans
<1>10. CASE \E n \in Name : NameSession(s, n)
  <2>1. PICK n \in Name : NameSession(s, n)
    BY <1>10
  <2>2. Plans("backend", s, <<Info(n)>>, TRUE, {{n}}, {}) /\ Takes(s, "free", {}, {})
    BY <2>1, NameSessionIs
  <2>3. Info(n) \in Line
    BY LinesAre
  <2> QED BY <1>1, <1>2, <2>2, <2>3, BatchesPlans
<1> QED BY <1>3, <1>4, <1>5, <1>6, <1>7, <1>8, <1>9, <1>10

\* The launcher writes a fork, or one line.
LEMMA BatchesFork ==
  ASSUME Frame, Batches, CopyFork \/ DescribeFork \/ NameFork
  PROVE  Batches'
<1>0. Types /\ "launcher" \in Process /\ writing' = writing
  BY DEF Frame, Process, CopyFork, DescribeFork, NameFork
<1>1. Types /\ "launcher" \in Process /\ writing' = writing /\ <<>> \in Seq(Line) /\ NoFork \notin Fork
  BY <1>0, ForkStages
<1>2. ASSUME NEW t \in Session, NEW lines \in Seq(Line), NEW names,
             Plans("launcher", t, lines, TRUE, names, {}),
             Len(lines) > 1 => forking' # NoFork /\ forking'.to = t
      PROVE  Batches'
  <2>1. /\ todo'["backend"] = todo["backend"]
        /\ \A u \in Session : Pending("launcher", u)' = (IF u = t THEN lines ELSE <<>>)
    BY <1>1, <1>2, PlansEffect DEF Process
  <2>2. ~(Len(<<>>) > 1)
    OBVIOUS
  <2>3. ASSUME NEW u \in Session, Len(Pending("launcher", u)') > 1 PROVE forking' # NoFork /\ forking'.to = u
    BY <1>2, <2>1, <2>2, <2>3
  <2> QED BY <1>1, <2>1, <2>3, BatchesKept
<1>3. CASE CopyFork
  <2> DEFINE l == ForkOf(file[forking.from], forking.last)
  <2>1. /\ l \in Seq(Line) /\ forking.to \in Session /\ Plans("launcher", forking.to, l, TRUE, {}, {})
        /\ forking' \in Fork /\ forking'.to = forking.to
    BY <1>3, CopyForkIs
  <2> HIDE DEF l
  <2> QED BY <1>1, <1>2, <2>1
<1>4. CASE DescribeFork
  <2>1. forking.to \in Session /\ Plans("launcher", forking.to, <<>>, TRUE, {{}}, {})
    BY <1>4, DescribeForkIs
  <2>2. ~(Len(<<>>) > 1)
    OBVIOUS
  <2> QED BY <1>1, <1>2, <2>1, <2>2
<1>5. CASE NameFork
  <2>1. forking.to \in Session
        /\ \/ Plans("launcher", forking.to, <<>>, TRUE, {}, {})
           \/ \E n \in Name : Plans("launcher", forking.to, <<Info(n)>>, TRUE, {{n}}, {})
    BY <1>5, NameForkIs
  <2>2. CASE Plans("launcher", forking.to, <<>>, TRUE, {}, {})
    <3>1. ~(Len(<<>>) > 1)
      OBVIOUS
    <3> QED BY <1>1, <1>2, <2>1, <2>2, <3>1
  <2>3. CASE \E n \in Name : Plans("launcher", forking.to, <<Info(n)>>, TRUE, {{n}}, {})
    <3>1. PICK n \in Name : Plans("launcher", forking.to, <<Info(n)>>, TRUE, {{n}}, {})
      BY <2>3
    <3>2. Info(n) \in Line
      BY LinesAre
    <3>3. <<Info(n)>> \in Seq(Line) /\ ~(Len(<<Info(n)>>) > 1)
      BY <3>2
    <3> QED BY <1>2, <2>1, <3>1, <3>3
  <2> QED BY <2>1, <2>2, <2>3
<1> QED BY <1>3, <1>4, <1>5

\* Several lines in one write are an ending's or a fork's.
LEMMA BatchesStep ==
  ASSUME Frame, Frame', BoundsAssumption, Batches, [Next]_vars
  PROVE  Batches'
<1>1. CASE \E p \in Process : Perform(p)
  BY <1>1, BatchesPerform
<1>2. CASE \E p \in Process : Die(p)
  BY <1>2, BatchesDie
<1>3. CASE LosePower
  <2>1. todo'["backend"] = <<>> /\ todo'["launcher"] = <<>>
    BY <1>3, LostIs
  <2>2. /\ \A s \in Session : Pending("backend", s)' = <<>> /\ Pending("launcher", s)' = <<>>
        /\ ~(Len(<<>>) > 1)
    BY <2>1 DEF Pending
  <2> QED BY <2>2, BatchesKept
<1>4. CASE CopyFork \/ DescribeFork \/ NameFork
  BY <1>4, BatchesFork
<1>5. CASE UNCHANGED vars \/ GiveUpFork \/ (\E s \in Session : BeginCompaction(s))
           \/ (\E s \in Session : \E t \in Session \ {s}, names \in {{}} \cup {{n} : n \in ForkNames} :
                 BeginFork(s, t, names))
  <2>1. UNCHANGED <<todo, writing>> /\ (todo["launcher"] = <<>> \/ forking' = forking)
    BY <1>5 DEF vars, disk, memory, GiveUpFork, BeginCompaction, BeginFork, Free
  <2> QED BY <2>1, BatchesKept
<1>6. CASE \E s \in Session : Abandon(s)
  <2>1. UNCHANGED <<todo, forking>> /\ todo["backend"] = <<>>
    BY <1>6 DEF Abandon, Free
  <2>2. \A s \in Session : Pending("backend", s) = <<>>
    BY <2>1 DEF Pending
  <2> QED BY <2>1, <2>2, BatchesKept
<1>7. CASE \E s \in Session :
             \/ \E docs \in BOOLEAN : CreateSession(s, docs)
             \/ \E r \in Run : StartRun(s, r)
             \/ \E type \in {"event", "end"} : AppendEvent(s, type)
             \/ \E extras \in SUBSET Extras : Finalize(s, extras)
             \/ FailCompaction(s) \/ EndCompaction(s) \/ SetMode(s)
             \/ \E n \in Name : NameSession(s, n)
  BY <1>7, BatchesCommand
<1> QED BY <1>1, <1>2, <1>3, <1>4, <1>5, <1>6, <1>7 DEF Next

\* What a death spares.
LEMMA DieSpares ==
  ASSUME Frame, NEW p \in Process, Die(p), NEW s \in Session, s \notin hurt'
  PROVE  /\ s \notin hurt /\ s \notin bare'
         /\ p = "backend" => writing[s] = {} /\ writing'[s] = {}
         /\ p = "launcher" => writing'[s] = writing[s] /\ ~(forking # NoFork /\ forking.to = s)
<1>1. /\ p = "backend" => /\ writing' = [t \in Session |-> {}]
                          /\ hurt' = hurt \cup bare' \cup {t \in Session : writing[t] # {}}
      /\ p = "launcher" => /\ writing' = writing
                           /\ hurt' = hurt \cup bare' \cup (IF forking.stage = "none" THEN {} ELSE {forking.to})
  BY DEF Die
<1>2. forking # NoFork => forking.stage # "none"
  BY ForkStages DEF Frame
<1> QED BY <1>1, <1>2 DEF Process

\* A write of one line that a death tears, and leaves whole.
LEMMA LoadingTorn ==
  ASSUME Frame, Frame', Batches, NEW p \in Process, Die(p), NEW w, w = Head(todo[p]),
         todo[p] # <<>>, w.op = "lines", Torn(w), NEW s \in Session, s = w.at, Loading(s)
  PROVE  Loading(s)'
<1>1. Types /\ "backend" \in Process /\ "launcher" \in Process
  BY DEF Frame, Process
<1>2. /\ w.lines \in Seq(Line) /\ w.lines # <<>> /\ Pending(p, s) = w.lines
      /\ p = "launcher" => Target(s)
  BY HeadIs
<1>3. ASSUME s \notin hurt' PROVE writing[s] = {} /\ writing'[s] = {} /\ Sound(file'[s])
  <2>1. /\ s \notin hurt
        /\ p = "backend" => writing[s] = {} /\ writing'[s] = {}
        /\ p = "launcher" => writing'[s] = writing[s] /\ ~(forking # NoFork /\ forking.to = s)
    BY <1>3, DieSpares
  <2>2. writing[s] = {} /\ writing'[s] = {}
    <3>1. CASE p = "backend"
      BY <2>1, <3>1
    <3>2. CASE p = "launcher"
      <4>1. held[s] = "free"
        BY <1>2, <3>2 DEF Frame, Apart
      <4>2. writing[s] = {}
        BY <4>1 DEF Frame, Locks
      <4> QED BY <2>1, <3>2, <4>2
    <3> QED BY <3>1, <3>2 DEF Process
  <2>3. Sound(Planned(p, s))
    <3>1. CASE p = "backend"
      BY <2>1, <2>2, <3>1 DEF Loading, Goes
    <3>2. CASE p = "launcher"
      BY <2>1, <2>2, <3>2 DEF Loading
    <3> QED BY <3>1, <3>2 DEF Process
  <2>4. ~(Len(w.lines) > 1)
    BY <1>2, <2>1, <2>2 DEF Batches, Process
  <2>5. PICK k \in DOMAIN w.lines : file' = [file EXCEPT ![s] = Appended(s, SubSeq(w.lines, 1, k))]
    BY DEF Torn
  <2>6. Len(w.lines) = 1 /\ k = 1
    <3>1. Len(w.lines) \in Nat /\ Len(w.lines) # 0 /\ DOMAIN w.lines = 1 .. Len(w.lines)
      BY <1>2
    <3>2. \A n \in Nat : n # 0 /\ ~(n > 1) => n = 1
      OBVIOUS
    <3>3. Len(w.lines) = 1
      BY <2>4, <3>1, <3>2, Zenon
    <3> QED BY <3>1, <3>3
  <2>7. SubSeq(w.lines, 1, 1) = w.lines
    <3>1. 1 \in 0 .. Len(w.lines)
      BY <2>6
    <3>2. /\ SubSeq(w.lines, 1, 1) \in Seq(Line) /\ Len(SubSeq(w.lines, 1, 1)) = 1
          /\ \A i \in 1 .. 1 : SubSeq(w.lines, 1, 1)[i] = w.lines[i]
      BY <1>2, <3>1, FirstIs
    <3> DEFINE a == SubSeq(w.lines, 1, 1)
               b == w.lines
    <3>3. a \in Seq(Line) /\ b \in Seq(Line) /\ Len(a) = 1 /\ Len(b) = 1 /\ a[1] = b[1]
      BY <1>2, <2>6, <3>2
    <3> HIDE DEF a, b
    <3>4. a = b
      BY <3>3
    <3> QED BY <3>4 DEF a, b
  <2>8. file'[s] = Appended(s, w.lines)
    BY <1>1, <2>5, <2>6, <2>7 DEF Types
  <2> QED BY <1>2, <2>2, <2>3, <2>8 DEF Planned
<1>4. Pending("backend", s)' = <<>> /\ Pending("launcher", s)' = <<>>
  <2>1. /\ todo'[p] = <<>> /\ \A r \in Process \ {p} : todo'[r] = todo[r]
    BY DieState
  <2>2. ASSUME NEW r \in Process PROVE Pending(r, s)' = <<>>
    <3>1. CASE r = p
      BY <2>1, <3>1 DEF Pending
    <3>2. CASE r # p
      <4>1. Pending(r, s) = <<>> /\ todo'[r] = todo[r]
        BY <2>1, <3>2, AloneIs
      <4> QED BY <4>1 DEF Pending
    <3> QED BY <3>1, <3>2
  <2> QED BY <1>1, <2>2
<1> QED BY <1>3, <1>4, LoadingDone

\* A death leaves all of a write or none of it, or hurts the session.
LEMMA LoadingDie ==
  ASSUME Frame, Frame', Batches, \A t \in Session : Loading(t), NEW p \in Process, Die(p)
  PROVE  \A t \in Session : Loading(t)'
<1> SUFFICES ASSUME NEW w, w = Head(todo[p]), NEW s \in Session PROVE Loading(s)'
  OBVIOUS
<1>1. /\ todo'[p] = <<>> /\ \A r \in Process \ {p} : todo'[r] = todo[r]
      /\ hurt \subseteq hurt'
      /\ \/ UNCHANGED <<file, bare>>
         \/ /\ todo[p] # <<>> /\ w.op = "lines" /\ w.at \in Session /\ Torn(w)
            /\ \A t \in Session : t # w.at => file'[t] = file[t] /\ (t \in bare' <=> t \in bare)
  BY DieState
<1>2. CASE file'[s] = file[s] /\ (s \in bare' <=> s \in bare)
  <2>1. ASSUME s \notin hurt'
        PROVE  /\ writing'[s] = writing[s]
               /\ todo'["launcher"] = todo["launcher"] \/ todo'["launcher"] = <<>>
               /\ todo'["backend"] = todo["backend"] \/ (todo'["backend"] = <<>> /\ writing[s] = {})
    <3>1. /\ p = "backend" => writing[s] = {} /\ writing'[s] = {}
          /\ p = "launcher" => writing'[s] = writing[s]
      BY <2>1, DieSpares
    <3> QED BY <1>1, <3>1 DEF Process
  <2> QED BY <1>1, <1>2, <2>1, LoadingSame
<1>3. CASE s = w.at /\ todo[p] # <<>> /\ w.op = "lines" /\ Torn(w)
  BY <1>3, LoadingTorn
<1> QED BY <1>1, <1>2, <1>3

\* A loss of power hurts what it cuts.
LEMMA LoadingLosePower ==
  ASSUME Frame, Frame', \A t \in Session : Loading(t), LosePower
  PROVE  \A t \in Session : Loading(t)'
<1> SUFFICES ASSUME NEW s \in Session PROVE Loading(s)'
  OBVIOUS
<1>1. /\ hurt \subseteq hurt' /\ writing'[s] = {} /\ (writing[s] # {} => s \in hurt')
      /\ todo'["backend"] = <<>> /\ todo'["launcher"] = <<>>
  BY LostIs
<1>2. PICK kept \in [Session -> Int] : Lost(kept)
  BY LostIs
<1>3. Pending("backend", s)' = <<>> /\ Pending("launcher", s)' = <<>>
  BY <1>1 DEF Pending
<1>4. ASSUME s \notin hurt' PROVE Sound(file'[s])
  <2>1. /\ kept[s] \in Nat /\ kept[s] <= Len(file[s]) /\ ~(kept[s] < Len(file[s]))
        /\ file'[s] = SubSeq(file[s], 1, kept[s]) /\ file'[s] \in Seq(Line)
        /\ \A k \in 1 .. kept[s] : file'[s][k] = file[s][k]
    BY <1>2, <1>4 DEF Lost
  <2>2. file[s] \in Seq(Line)
    BY DEF Frame, Types
  <2>3. kept[s] = Len(file[s]) /\ kept[s] \in 0 .. Len(file[s])
    BY <2>1, <2>2
  <2>4. Len(file'[s]) = Len(file[s])
    BY <2>1, <2>2, <2>3, FirstIs
  <2>5. file'[s] = file[s]
    BY <2>1, <2>2, <2>3, <2>4
  <2>6. Sound(file[s])
    BY <1>1, <1>4 DEF Loading
  <2> QED BY <2>5, <2>6
<1> QED BY <1>1, <1>3, <1>4, LoadingDone

\* Every step leaves the sessions that nothing hurt loading.
LEMMA LoadingStep ==
  ASSUME Frame, Frame', BoundsAssumption, Batches, \A t \in Session : Loading(t), [Next]_vars
  PROVE  \A t \in Session : Loading(t)'
<1>1. CASE \E p \in Process : Perform(p)
  BY <1>1, LoadingPerform
<1>2. CASE \E p \in Process : Die(p)
  BY <1>2, LoadingDie
<1>3. CASE LosePower
  BY <1>3, LoadingLosePower
<1>4. CASE CopyFork \/ DescribeFork \/ NameFork
  BY <1>4, LoadingFork
<1>5. CASE UNCHANGED vars \/ GiveUpFork
           \/ (\E s \in Session : Abandon(s) \/ BeginCompaction(s))
           \/ (\E s \in Session : \E t \in Session \ {s}, names \in {{}} \cup {{n} : n \in ForkNames} :
                 BeginFork(s, t, names))
  <2>1. UNCHANGED <<file, bare, todo>> /\ hurt \subseteq hurt'
    BY <1>5 DEF vars, disk, memory, GiveUpFork, Abandon, BeginCompaction, BeginFork
  <2>2. ASSUME NEW s \in Session, s \notin hurt' PROVE writing'[s] = writing[s]
    <3>1. CASE \E t \in Session : Abandon(t)
      <4>1. PICK t \in Session : Abandon(t)
        BY <3>1
      <4>2. writing' = [writing EXCEPT ![t] = {}] /\ t # s
        BY <2>2, <4>1 DEF Abandon
      <4> QED BY <4>2 DEF Frame, Types
    <3>2. CASE ~(\E t \in Session : Abandon(t))
      BY <1>5, <3>2 DEF vars, disk, memory, GiveUpFork, BeginCompaction, BeginFork
    <3> QED BY <3>1, <3>2
  <2> QED BY <2>1, <2>2, LoadingSame
<1>6. CASE \E s \in Session :
             \/ \E docs \in BOOLEAN : CreateSession(s, docs)
             \/ \E r \in Run : StartRun(s, r)
             \/ \E type \in {"event", "end"} : AppendEvent(s, type)
             \/ \E extras \in SUBSET Extras : Finalize(s, extras)
             \/ FailCompaction(s) \/ EndCompaction(s) \/ SetMode(s)
             \/ \E n \in Name : NameSession(s, n)
  BY <1>6, LoadingCommand
<1> QED BY <1>1, <1>2, <1>3, <1>4, <1>5, <1>6 DEF Next

\* What stands in a file that nothing hurt, loads as far as it goes.
LEMMA LoadingLoads ==
  ASSUME Frame, \A s \in Session : Loading(s)
  PROVE  LoadsUnlessHurt
<1> SUFFICES ASSUME NEW s \in Session, s \notin hurt, file[s] # <<>>
             PROVE  IF writing[s] = {} THEN Loads(file[s]) ELSE Load(file[s]).ok
  BY DEF LoadsUnlessHurt
<1>1. CASE writing[s] = {}
  BY <1>1 DEF Loading, Sound
<1>2. CASE writing[s] # {}
  <2> DEFINE a == file[s]
             b == Pending("backend", s)
             c == a \o b
  <2>1. Load(Planned("backend", s)).ok
    BY <1>2 DEF Loading, Goes, Follow, Loads
  <2>2. Planned("backend", s) = c /\ a \in Seq(Line)
    BY LoadingFacts DEF Planned
  <2>3. b \in Seq(Line)
    <3>1. <<>> \in Seq(Line)
      OBVIOUS
    <3>2. todo["backend"] # <<>> => /\ Head(todo["backend"]).op = "lines" => Head(todo["backend"]).lines \in Seq(Line)
      BY HeadIs DEF Process
    <3> QED BY <3>1, <3>2 DEF Pending
  <2> HIDE DEF a, b
  <2>4. /\ c \in Seq(Line) /\ Len(c) = Len(a) + Len(b) /\ Len(a) \in Nat /\ Len(b) \in Nat
        /\ \A i \in 1 .. Len(a) : c[i] = a[i]
    <3>1. a \in Seq(Line) /\ b \in Seq(Line)
      BY <2>2, <2>3
    <3> QED BY <3>1, ConcatIs
  <2> HIDE DEF c
  <2>5. Walk(c)[Len(c)].ok /\ Len(c) \in 0 .. Len(c) /\ Len(a) \in 0 .. Len(c) /\ Len(a) <= Len(c)
    BY <2>1, <2>2, <2>4 DEF Load
  <2>6. Walk(c)[Len(a)].ok
    BY <2>4, <2>5, WalkOk
  <2>7. Walk(a)[Len(a)] = Walk(c)[Len(a)]
    BY <2>2, <2>4, <2>5, WalkSame
  <2>8. Load(a).ok
    BY <2>6, <2>7 DEF Load
  <2> QED BY <1>2, <2>8 DEF a
<1> QED BY <1>1, <1>2

\* A session stops loading only when a run in it was abandoned, a fork of a
\* session that does not load was made of it, or a death or a power loss hit it:
\* nothing that SessionRunAppender, the compactor, the naming or the fork writes,
\* in whatever order and wherever the launcher stands, is refused by load_session.
THEOREM AlwaysLoads == BoundsAssumption /\ Spec => []LoadsUnlessHurt
<1> SUFFICES ASSUME BoundsAssumption PROVE Spec => []LoadsUnlessHurt
  OBVIOUS
<1> DEFINE All == \A s \in Session : Loading(s)
<1>1. Init /\ Frame => Batches /\ All
  <2> SUFFICES ASSUME Init, Frame PROVE Batches /\ All
    OBVIOUS
  <2>1. \A s \in Session, p \in Process : Pending(p, s) = <<>>
    BY DEF Init, Pending
  <2>2. \A s \in Session : file[s] = <<>> /\ writing[s] = {}
    BY DEF Init
  <2>3. ~(Len(<<>>) > 1) /\ "backend" \in Process /\ "launcher" \in Process
    BY DEF Process
  <2>4. Batches
    BY <2>1, <2>3 DEF Batches
  <2>5. ASSUME NEW s \in Session, NEW p \in Process PROVE Planned(p, s) = <<>>
    BY <2>1, <2>2 DEF Planned, Appended
  <2>6. All
    BY <2>2, <2>3, <2>5 DEF Loading, Goes, Sound
  <2> QED BY <2>4, <2>6
<1>2. Frame /\ Frame' /\ Batches /\ All /\ [Next]_vars => Batches' /\ All'
  <2> SUFFICES ASSUME Frame, Frame', Batches, All, [Next]_vars PROVE Batches' /\ All'
    OBVIOUS
  <2>1. Batches'
    BY BatchesStep
  <2>2. \A s \in Session : Loading(s)'
    BY LoadingStep
  <2> QED BY <2>1, <2>2 DEF All
<1>3. Frame /\ All => LoadsUnlessHurt
  BY LoadingLoads
<1> HIDE DEF All
<1> QED BY <1>1, <1>2, <1>3, FrameAlways, PTL DEF Spec

\* The store can be used, whatever the two processes do: every session that
\* nothing hurt loads, and those that the launcher did not name answer to names of
\* their own.
THEOREM AlwaysUsable == BoundsAssumption /\ Spec => []StoreUsable
<1>1. LoadsUnlessHurt /\ NamesUnique => StoreUsable
  BY DEF StoreUsable
<1> QED BY <1>1, AlwaysLoads, NamesAlwaysUnique, PTL

=============================================================================
