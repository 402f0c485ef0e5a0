---------------------------- MODULE SessionProofs -----------------------------
(***************************************************************************)
(* What holds of the events of a run for any finite set of calls and any   *)
(* numbers of retries and updates: what the client was shown is well       *)
(* formed, a complete run on disk obeys the contract and an incomplete one *)
(* has a named cause, and a cancelled run is complete on disk.             *)
(*                                                                         *)
(* The invariant compares three tables: the appender's open calls are      *)
(* those the written stream started and did not resolve, and they are the  *)
(* pending calls of run.py but for the ones an attempt dropped.  Appending *)
(* several events is followed up to the first of them that does not fit.   *)
(*                                                                         *)
(* The properties of the session store are proved in StoreProofs, of which *)
(* the two stores of MCSession are instances; the last part of this module *)
(* carries them over.                                                      *)
(***************************************************************************)
EXTENDS MCSession, SequenceTheorems, FiniteSetTheorems, WellFoundedInduction, TLAPS

-----------------------------------------------------------------------------
(* Natural numbers.                                                         *)

\* A set of natural numbers that is not empty has a least element.
LEMMA Least ==
  ASSUME NEW T, T \subseteq Nat, T # {}
  PROVE  \E n \in T : \A m \in T : n <= m
<1> DEFINE R == OpToRel(<,Nat)
<1>1. IsWellFoundedOn(R, Nat)
  BY NatLessThanWellFounded
<1>2. \A x \in Nat, y \in Nat : y < x => <<y,x>> \in R
  BY DEF OpToRel
<1> HIDE DEF R
<1>3. \E x \in T : \A y \in T : ~ (<<y, x>> \in R)
  BY <1>1, WFMin
<1>4. PICK x \in T : \A y \in T : ~ (<<y, x>> \in R)
  BY <1>3
<1>5. ASSUME NEW y \in T PROVE x <= y
  <2>1. x \in Nat /\ y \in Nat
    OBVIOUS
  <2>2. ~(y < x)
    BY <1>2, <1>4, <2>1
  <2> QED BY <2>1, <2>2
<1> QED BY <1>5

-----------------------------------------------------------------------------
(* The events of a run.                                                     *)

Updates(e, c) == e.kind = "updated" /\ e.call = c
Ends(e) == e.kind \in S!Terminal

\* An event ends the run, or starts, updates or resolves one call.
LEMMA EventCases ==
  ASSUME NEW e \in S!Event
  PROVE  \/ Ends(e) /\ \A c \in Call : ~S!Starts(e, c) /\ ~Updates(e, c) /\ ~S!Resolves(e, c)
         \/ \E c \in Call : /\ ~Ends(e)
                            /\ \/ S!Starts(e, c) /\ ~Updates(e, c) /\ ~S!Resolves(e, c)
                               \/ ~S!Starts(e, c) /\ Updates(e, c) /\ ~S!Resolves(e, c)
                               \/ ~S!Starts(e, c) /\ ~Updates(e, c) /\ S!Resolves(e, c)
                            /\ \A d \in Call \ {c} : ~S!Starts(e, d) /\ ~Updates(e, d) /\ ~S!Resolves(e, d)
  BY DEF S!Event, S!Terminal, S!Resolution, S!Starts, S!Resolves, Updates, Ends

\* When an event may follow a stream, call by call.
LEMMA AcceptsIs ==
  ASSUME NEW o, NEW l, NEW e \in S!Event
  PROVE  S!Accepts(o, l, e) <=> /\ ~S!Closed(l)
                                /\ Ends(e) => o = {}
                                /\ \A c \in Call : /\ S!Starts(e, c) => c \notin o
                                                   /\ Updates(e, c) \/ S!Resolves(e, c) => c \in o
<1>1. CASE Ends(e)
  <2>1. S!Accepts(o, l, e) <=> ~S!Closed(l) /\ o = {}
    BY <1>1 DEF S!Accepts, Ends, S!Terminal
  <2> QED BY <2>1, <1>1, EventCases
<1>2. CASE ~Ends(e)
  <2>1. e.call \in Call
    BY <1>2 DEF Ends, S!Event
  <2> QED BY <1>2, <2>1 DEF S!Accepts, Ends, S!Terminal, S!Event, S!Starts, S!Resolves, Updates, S!Resolution
<1> QED BY <1>1, <1>2

\* The rules of Sound at one place of a stream.
SoundAt(s, i) ==
  /\ Ends(s[i]) => i = Len(s) /\ \A c \in Call, j \in 1..(i-1) : S!Starts(s[j], c) => \E k \in j..(i-1) : S!Resolves(s[k], c)
  /\ \A c \in Call : S!Starts(s[i], c) => \A j \in 1..(i-1) : ~S!Starts(s[j], c)
  /\ \A c \in Call : Updates(s[i], c) \/ S!Resolves(s[i], c) =>
       /\ \E j \in 1..(i-1) : S!Starts(s[j], c)
       /\ \A j \in 1..(i-1) : ~S!Resolves(s[j], c)

\* A stream is well formed when it obeys the rules at each place.
LEMMA SoundIs ==
  ASSUME NEW s \in Seq(S!Event)
  PROVE  S!Sound(s) <=> \A i \in 1..Len(s) : SoundAt(s, i)
<1>1. DOMAIN s = 1..Len(s) /\ Len(s) \in Nat
  BY LenProperties
<1>2. \A i \in 1..Len(s) : s[i] \in S!Event
  BY <1>1
<1>3. ASSUME NEW i \in 1..Len(s), Ends(s[i])
      PROVE  SoundAt(s, i) <=> /\ i = Len(s)
                               /\ \A j \in 1 .. i - 1 : s[j].kind = "started"
                                     => \E k \in j .. i - 1 : s[k].kind \in S!Resolution /\ s[k].call = s[j].call
  <2>1. \A c \in Call : ~S!Starts(s[i], c) /\ ~Updates(s[i], c) /\ ~S!Resolves(s[i], c)
    BY <1>2, <1>3, EventCases
  <2>2. \A j \in 1..(i-1) : s[j] \in S!Event
    BY <1>1, <1>2
  <2>3. \A j \in 1..(i-1) : s[j].kind = "started" => s[j].call \in Call
    BY <2>2 DEF S!Event, S!Resolution, S!Terminal
  <2> QED BY <1>3, <2>1, <2>3 DEF SoundAt, S!Starts, S!Resolves
<1>4. ASSUME NEW i \in 1..Len(s), ~Ends(s[i])
      PROVE  SoundAt(s, i) <=>
               IF s[i].kind = "started"
               THEN {j \in 1 .. i - 1 : s[j].kind \in {"started"} /\ s[j].call = s[i].call} = {}
               ELSE /\ {j \in 1 .. i - 1 : s[j].kind \in {"started"} /\ s[j].call = s[i].call} # {}
                    /\ {j \in 1 .. i - 1 : s[j].kind \in S!Resolution /\ s[j].call = s[i].call} = {}
  <2>1. s[i].call \in Call /\ s[i].kind \in {"started", "updated"} \cup S!Resolution
    BY <1>2, <1>4 DEF S!Event, Ends
  <2>2. CASE s[i].kind = "started"
    BY <1>4, <2>1, <2>2 DEF SoundAt, S!Starts, S!Resolves, Updates, S!Resolution
  <2>3. CASE s[i].kind # "started"
    BY <1>4, <2>1, <2>3 DEF SoundAt, S!Starts, S!Resolves, Updates
  <2> QED BY <2>2, <2>3
<1> DEFINE ends(i) == /\ i = Len(s)
                      /\ \A j \in 1 .. i - 1 : s[j].kind = "started"
                            => \E k \in j .. i - 1 : s[k].kind \in S!Resolution /\ s[k].call = s[j].call
           starts(i) == {j \in 1 .. i - 1 : s[j].kind \in {"started"} /\ s[j].call = s[i].call} = {}
           goesOn(i) == /\ {j \in 1 .. i - 1 : s[j].kind \in {"started"} /\ s[j].call = s[i].call} # {}
                        /\ {j \in 1 .. i - 1 : s[j].kind \in S!Resolution /\ s[j].call = s[i].call} = {}
<1>5. S!Sound(s) <=> \A i \in DOMAIN s : CASE s[i].kind \in S!Terminal -> ends(i)
                                          [] s[i].kind = "started" -> starts(i)
                                          [] OTHER -> goesOn(i)
  BY DEF S!Sound
<1> HIDE DEF ends, starts, goesOn
<1>6. ASSUME NEW i \in 1..Len(s)
      PROVE  SoundAt(s, i) <=> CASE s[i].kind \in S!Terminal -> ends(i)
                                 [] s[i].kind = "started" -> starts(i)
                                 [] OTHER -> goesOn(i)
  <2>1. CASE Ends(s[i])
    <3>1. s[i].kind # "started"
      BY <2>1 DEF Ends, S!Terminal
    <3> QED BY <1>3, <2>1, <3>1 DEF Ends, ends
  <2>2. CASE ~Ends(s[i])
    BY <1>4, <2>2 DEF Ends, starts, goesOn
  <2> QED BY <2>1, <2>2
<1> QED BY <1>1, <1>5, <1>6

\* The calls a stream has started, and those it has not resolved.
StartedIn(s) == {c \in Call : \E i \in 1..Len(s) : S!Starts(s[i], c)}
OpenOf(s) == {c \in Call : /\ \E i \in 1..Len(s) : S!Starts(s[i], c)
                           /\ \A i \in 1..Len(s) : ~S!Resolves(s[i], c)}

\* What an appender may be fed: no call starts a second time, and only the last
\* event ends the run.
Fresh(l, es) == \A i \in 1..Len(es), c \in Call :
  S!Starts(es[i], c) => c \notin StartedIn(l) /\ \A j \in 1..(i-1) : ~S!Starts(es[j], c)
LastEnds(es) == \A i \in 1..Len(es) : Ends(es[i]) => i = Len(es)

\* The stream after the first n events, and whether the next one fits.
Upto(l, es, n) == l \o SubSeq(es, 1, n)
Fits(o, l, es, i) == S!Accepts(S!OpenAfter(o, es, i - 1), Upto(l, es, i - 1), es[i])

\* Appending takes the events one after the other until one does not fit.
LEMMA FeedTakes ==
  ASSUME NEW o, NEW l \in Seq(S!Event), NEW es \in Seq(S!Event)
  PROVE  \E n \in 0..Len(es) :
           /\ S!Feed(o, l, es).ok = (n = Len(es))
           /\ S!Feed(o, l, es).open = S!OpenAfter(o, es, n)
           /\ S!Feed(o, l, es).log = Upto(l, es, n)
           /\ \A i \in 1..n : Fits(o, l, es, i)
           /\ n < Len(es) => ~Fits(o, l, es, n + 1)
<1>1. DOMAIN es = 1..Len(es) /\ Len(es) \in Nat
  BY LenProperties
<1> DEFINE refused == S!Refused(o, l, es)
           m == IF refused = {} THEN Len(es) ELSE S!Min(refused) - 1
<1>2. refused = {i \in 1..Len(es) : ~Fits(o, l, es, i)}
  BY <1>1 DEF S!Refused, Fits, Upto
<1>3. /\ S!Feed(o, l, es).ok = (refused = {})
      /\ S!Feed(o, l, es).open = S!OpenAfter(o, es, m)
      /\ S!Feed(o, l, es).log = Upto(l, es, m)
  BY DEF S!Feed, Upto
<1> HIDE DEF refused
<1>4. CASE refused = {}
  <2>1. m = Len(es) /\ m \in 0..Len(es)
    BY <1>1, <1>4
  <2> HIDE DEF m
  <2>2. \A i \in 1..m : Fits(o, l, es, i)
    BY <1>2, <1>4, <2>1
  <2>3. ~(m < Len(es))
    BY <1>1, <2>1
  <2> QED BY <1>3, <1>4, <2>1, <2>2, <2>3
<1>5. CASE refused # {}
  <2>1. \E n \in refused : \A k \in refused : n <= k
    <3>1. refused \subseteq Nat
      BY <1>1, <1>2
    <3> QED BY <1>5, <3>1, Least
  <2>2. S!Min(refused) \in refused /\ \A k \in refused : S!Min(refused) <= k
    BY <2>1 DEF S!Min
  <2> DEFINE x == S!Min(refused)
  <2> HIDE DEF x
  <2>3. x \in refused /\ (\A k \in refused : x <= k) /\ m = x - 1
    BY <1>5, <2>2 DEF x
  <2> HIDE DEF m
  <2>4. m \in 0..Len(es) /\ m < Len(es) /\ m + 1 = x
    BY <1>1, <1>2, <2>3
  <2>5. \A i \in 1..m : i \notin refused /\ i \in 1..Len(es)
    BY <1>1, <1>2, <2>3, <2>4
  <2>6. \A i \in 1..m : Fits(o, l, es, i)
    BY <1>2, <2>5
  <2>7. ~Fits(o, l, es, m + 1)
    BY <1>2, <2>3, <2>4
  <2> QED BY <1>3, <1>5, <2>4, <2>6, <2>7
<1> QED BY <1>4, <1>5

\* The places of the stream after the first n events.
LEMMA UptoIs ==
  ASSUME NEW l \in Seq(S!Event), NEW es \in Seq(S!Event), NEW n \in 0..Len(es)
  PROVE  /\ Upto(l, es, n) \in Seq(S!Event) /\ Len(Upto(l, es, n)) = Len(l) + n
         /\ Len(l) \in Nat /\ Len(es) \in Nat
         /\ \A i \in 1..Len(l) : Upto(l, es, n)[i] = l[i] /\ i \in 1..(Len(l) + n)
         /\ \A i \in 1..n : Upto(l, es, n)[Len(l) + i] = es[i] /\ Len(l) + i \in 1..(Len(l) + n)
         /\ \A i \in 1..(Len(l) + n) : i \in 1..Len(l) \/ \E k \in 1..n : i = Len(l) + k
<1> DEFINE h == SubSeq(es, 1, n)
<1>1. Len(l) \in Nat /\ Len(es) \in Nat
  BY LenProperties
<1>2. h \in Seq(S!Event) /\ Len(h) = n /\ \A i \in 1..n : h[i] = es[i]
  BY <1>1, SubSeqProperties
<1> HIDE DEF h
<1>3. /\ l \o h \in Seq(S!Event) /\ Len(l \o h) = Len(l) + n
      /\ \A i \in 1..(Len(l) + n) : (l \o h)[i] = IF i <= Len(l) THEN l[i] ELSE h[i - Len(l)]
  BY <1>1, <1>2, ConcatProperties
<1>4. \A i \in 1..n : (l \o h)[Len(l) + i] = es[i] /\ Len(l) + i \in 1..(Len(l) + n)
  BY <1>1, <1>2, <1>3
<1>6. \A i \in 1..Len(l) : (l \o h)[i] = l[i] /\ i \in 1..(Len(l) + n)
  BY <1>1, <1>2, <1>3
<1>5. \A i \in 1..(Len(l) + n) : i \in 1..Len(l) \/ \E k \in 1..n : i = Len(l) + k
  <2> SUFFICES ASSUME NEW i \in 1..(Len(l) + n), i \notin 1..Len(l)
               PROVE  i - Len(l) \in 1..n /\ i = Len(l) + (i - Len(l))
    OBVIOUS
  <2> QED BY <1>1
<1> QED BY <1>1, <1>3, <1>4, <1>5, <1>6 DEF Upto, h

\* What fits when no call starts twice: the calls open in the stream so far are
\* those of OpenOf, and each call that is open there was started and not resolved.
LEMMA OpenIs ==
  ASSUME NEW l \in Seq(S!Event), NEW es \in Seq(S!Event), NEW n \in 0..Len(es),
         S!Sound(l), Fresh(l, es), \A i \in 1..n : Fits(OpenOf(l), l, es, i)
  PROVE  S!OpenAfter(OpenOf(l), es, n) = OpenOf(Upto(l, es, n))
<1> DEFINE t == Upto(l, es, n)
           o == S!OpenAfter(OpenOf(l), es, n)
<1>1. /\ t \in Seq(S!Event) /\ Len(t) = Len(l) + n /\ Len(l) \in Nat /\ Len(es) \in Nat
      /\ \A i \in 1..Len(l) : t[i] = l[i] /\ i \in 1..(Len(l) + n)
      /\ \A i \in 1..n : t[Len(l) + i] = es[i] /\ Len(l) + i \in 1..(Len(l) + n)
      /\ \A i \in 1..(Len(l) + n) : i \in 1..Len(l) \/ \E k \in 1..n : i = Len(l) + k
  BY UptoIs
<1>2. \A i \in 1..n : i \in 1..Len(es) /\ es[i] \in S!Event
  BY <1>1
<1> HIDE DEF t
\* a call in o is open in t
<1>3. ASSUME NEW c \in OpenOf(l), \A i \in 1..n : ~S!Resolves(es[i], c)
      PROVE  c \in OpenOf(t)
  <2>1. \E i \in 1..Len(t) : S!Starts(t[i], c)
    BY <1>1, <1>3 DEF OpenOf
  <2>2. \A i \in 1..(Len(l) + n) : ~S!Resolves(t[i], c)
    <3>1. \A i \in 1..Len(l) : ~S!Resolves(t[i], c)
      BY <1>1, <1>3 DEF OpenOf
    <3>2. \A i \in 1..n : ~S!Resolves(t[Len(l) + i], c)
      BY <1>1, <1>3
    <3> QED BY <1>1, <3>1, <3>2
  <2> QED BY <1>1, <1>3, <2>1, <2>2 DEF OpenOf
<1>4. ASSUME NEW c \in Call, NEW i \in 1..n, S!Starts(es[i], c), \A j \in i..n : ~S!Resolves(es[j], c)
      PROVE  c \in OpenOf(t)
  <2>1. c \notin StartedIn(l) /\ \A j \in 1..(i-1) : ~S!Starts(es[j], c)
    BY <1>2, <1>4 DEF Fresh
  <2>2. \A j \in 1..Len(l) : ~S!Resolves(l[j], c)
    <3>1. ASSUME NEW j \in 1..Len(l), S!Resolves(l[j], c) PROVE FALSE
      <4>1. SoundAt(l, j)
        BY SoundIs
      <4>2. \E k \in 1..(j-1) : S!Starts(l[k], c)
        BY <3>1, <4>1 DEF SoundAt
      <4>3. \E k \in 1..Len(l) : S!Starts(l[k], c)
        BY <1>1, <4>2
      <4> QED BY <2>1, <4>3 DEF StartedIn
    <3> QED BY <3>1
  <2>3. ASSUME NEW j \in 1..(i-1), S!Resolves(es[j], c) PROVE FALSE
    <3>1. j \in 1..n /\ Fits(OpenOf(l), l, es, j)
      BY <1>1
    <3>2. c \in S!OpenAfter(OpenOf(l), es, j - 1)
      BY <2>3, <3>1 DEF Fits, S!Accepts, S!Resolves, S!Resolution, S!Terminal
    <3>3. c \notin OpenOf(l)
      BY <2>1 DEF OpenOf, StartedIn
    <3>4. \E k \in 1..(j-1) : S!Starts(es[k], c)
      BY <3>2, <3>3 DEF S!OpenAfter
    <3> QED BY <1>1, <2>1, <3>4
  <2>4. \A j \in 1..n : ~S!Resolves(es[j], c)
    <3> SUFFICES ASSUME NEW j \in 1..n PROVE ~S!Resolves(es[j], c)
      OBVIOUS
    <3>1. j \in i..n \/ j \in 1..(i-1)
      BY <1>1
    <3> QED BY <1>4, <2>3, <3>1
  <2>5. S!Starts(t[Len(l) + i], c) /\ Len(l) + i \in 1..Len(t)
    BY <1>1, <1>4
  <2>6. \A j \in 1..(Len(l) + n) : ~S!Resolves(t[j], c)
    <3>1. \A j \in 1..Len(l) : ~S!Resolves(t[j], c)
      BY <1>1, <2>2
    <3>2. \A j \in 1..n : ~S!Resolves(t[Len(l) + j], c)
      BY <1>1, <2>4
    <3> QED BY <1>1, <3>1, <3>2
  <2> QED BY <1>1, <2>5, <2>6 DEF OpenOf
<1>5. ASSUME NEW c \in OpenOf(t)
      PROVE  c \in o
  <2>1. \A i \in 1..n : ~S!Resolves(es[i], c)
    BY <1>1, <1>5 DEF OpenOf
  <2>2. PICK i \in 1..Len(t) : S!Starts(t[i], c)
    BY <1>5 DEF OpenOf
  <2>3. CASE i \in 1..Len(l)
    <3>1. S!Starts(l[i], c) /\ \A j \in 1..Len(l) : ~S!Resolves(l[j], c)
      BY <1>1, <1>5, <2>2, <2>3 DEF OpenOf
    <3>2. c \in OpenOf(l)
      BY <2>3, <3>1, <1>5 DEF OpenOf
    <3> QED BY <2>1, <3>2 DEF S!OpenAfter, OpenOf
  <2>4. CASE i \notin 1..Len(l)
    <3>1. PICK k \in 1..n : i = Len(l) + k
      BY <1>1, <2>4
    <3>2. S!Starts(es[k], c)
      BY <1>1, <2>2, <3>1
    <3>3. \A j \in k..n : ~S!Resolves(es[j], c)
      BY <2>1
    <3> QED BY <1>5, <3>2, <3>3 DEF S!OpenAfter, OpenOf
  <2> QED BY <2>3, <2>4
<1> QED BY <1>3, <1>4, <1>5 DEF S!OpenAfter, OpenOf, t

\* A sound stream that is not over has no event that ends it.
LEMMA NotOver ==
  ASSUME NEW l \in Seq(S!Event), S!Sound(l)
  PROVE  /\ Len(l) \in Nat
         /\ S!Closed(l) <=> l # <<>> /\ Ends(l[Len(l)])
         /\ S!Closed(l) <=> \E i \in 1..Len(l) : Ends(l[i])
<1>1. Len(l) \in Nat /\ (l # <<>> <=> Len(l) > 0)
  BY LenProperties, EmptySeq
<1>2. S!Closed(l) <=> l # <<>> /\ Ends(l[Len(l)])
  BY DEF S!Closed, S!Last, Ends
<1>3. \A i \in 1..Len(l) : Ends(l[i]) => i = Len(l)
  BY SoundIs DEF SoundAt
<1> QED BY <1>1, <1>2, <1>3

\* An event that ends the run fits when no call is open.
LEMMA EndFits ==
  ASSUME NEW o, NEW l, NEW e, Ends(e), S!Accepts(o, l, e)
  PROVE  o = {}
  BY DEF S!Accepts, Ends, S!Terminal

\* Appending what fits keeps a stream sound.
LEMMA UptoSound ==
  ASSUME NEW l \in Seq(S!Event), NEW es \in Seq(S!Event), NEW n \in 0..Len(es),
         S!Sound(l), ~S!Closed(l), Fresh(l, es), \A i \in 1..n : Fits(OpenOf(l), l, es, i)
  PROVE  S!Sound(Upto(l, es, n))
<1> DEFINE t == Upto(l, es, n)
<1>1. /\ t \in Seq(S!Event) /\ Len(t) = Len(l) + n /\ Len(l) \in Nat /\ Len(es) \in Nat
      /\ \A i \in 1..Len(l) : t[i] = l[i] /\ i \in 1..(Len(l) + n)
      /\ \A i \in 1..n : t[Len(l) + i] = es[i] /\ Len(l) + i \in 1..(Len(l) + n)
      /\ \A i \in 1..(Len(l) + n) : i \in 1..Len(l) \/ \E k \in 1..n : i = Len(l) + k
  BY UptoIs
<1>2. \A i \in 1..n : i \in 1..Len(es) /\ es[i] \in S!Event /\ i - 1 \in 0..Len(es) /\ i - 1 \in 0..n
  BY <1>1
\* the part before each of the new events
<1>3. ASSUME NEW i \in 1..n
      PROVE  LET b == Upto(l, es, i - 1) IN
             /\ b \in Seq(S!Event) /\ Len(b) = Len(l) + i - 1
             /\ \A j \in 1..(Len(l) + i - 1) : b[j] = t[j]
             /\ S!OpenAfter(OpenOf(l), es, i - 1) = OpenOf(b)
             /\ ~S!Closed(b)
  <2> DEFINE b == Upto(l, es, i - 1)
  <2>1. i - 1 \in 0..Len(es)
    BY <1>2
  <2>2. /\ b \in Seq(S!Event) /\ Len(b) = Len(l) + (i - 1)
        /\ \A j \in 1..Len(l) : b[j] = l[j]
        /\ \A j \in 1..(i - 1) : b[Len(l) + j] = es[j]
        /\ \A j \in 1..(Len(l) + (i - 1)) : j \in 1..Len(l) \/ \E k \in 1..(i - 1) : j = Len(l) + k
    BY <2>1, UptoIs
  <2> HIDE DEF b, t
  <2>3. \A j \in 1..(i - 1) : j \in 1..n
    BY <1>1
  <2>4. \A j \in 1..(Len(l) + (i - 1)) : b[j] = t[j]
    <3> SUFFICES ASSUME NEW j \in 1..(Len(l) + (i - 1)) PROVE b[j] = t[j]
      OBVIOUS
    <3>1. CASE j \in 1..Len(l)
      BY <1>1, <2>2, <3>1
    <3>2. CASE j \notin 1..Len(l)
      <4>1. PICK k \in 1..(i - 1) : j = Len(l) + k
        BY <2>2, <3>2
      <4> QED BY <1>1, <2>2, <2>3, <4>1
    <3> QED BY <3>1, <3>2
  <2>5. S!OpenAfter(OpenOf(l), es, i - 1) = OpenOf(b)
    <3>1. \A j \in 1..(i - 1) : Fits(OpenOf(l), l, es, j)
      BY <2>3
    <3> QED BY <2>1, <3>1, OpenIs DEF b
  <2>6. ~S!Closed(b)
    BY DEF Fits, S!Accepts, b
  <2>7. Len(b) = Len(l) + i - 1 /\ Len(l) + (i - 1) = Len(l) + i - 1
    BY <1>1, <2>2
  <2> QED BY <2>2, <2>4, <2>5, <2>6, <2>7 DEF b, t
<1> HIDE DEF t
<1>4. ASSUME NEW i \in 1..Len(l)
      PROVE  SoundAt(t, i) /\ ~Ends(t[i])
  <2>1. SoundAt(l, i) /\ ~Ends(l[i])
    BY SoundIs, NotOver
  <2>2. \A j \in 1..(i-1) : t[j] = l[j]
    BY <1>1
  <2>3. t[i] = l[i]
    BY <1>1
  <2> QED BY <2>1, <2>2, <2>3 DEF SoundAt
\* what is updated or resolved was started and not resolved
<1>5. ASSUME NEW k \in 1..n, NEW c \in Call, Updates(es[k], c) \/ S!Resolves(es[k], c)
      PROVE  /\ \E j \in 1..(Len(l) + k - 1) : S!Starts(t[j], c)
             /\ \A j \in 1..(Len(l) + k - 1) : ~S!Resolves(t[j], c)
  <2> DEFINE b == Upto(l, es, k - 1)
  <2>1. /\ b \in Seq(S!Event) /\ Len(b) = Len(l) + k - 1
        /\ \A j \in 1..(Len(l) + k - 1) : b[j] = t[j]
        /\ S!OpenAfter(OpenOf(l), es, k - 1) = OpenOf(b)
    BY <1>3
  <2>2. c \in S!OpenAfter(OpenOf(l), es, k - 1)
    <3>1. Fits(OpenOf(l), l, es, k)
      OBVIOUS
    <3> QED BY <1>5, <3>1 DEF Fits, S!Accepts, S!Resolves, Updates, S!Resolution, S!Terminal
  <2> HIDE DEF b
  <2> QED BY <2>1, <2>2 DEF OpenOf
\* no call starts twice
<1>6. ASSUME NEW k \in 1..n, NEW c \in Call, S!Starts(es[k], c)
      PROVE  \A j \in 1..(Len(l) + k - 1) : ~S!Starts(t[j], c)
  <2>1. c \notin StartedIn(l) /\ \A j \in 1..(k-1) : ~S!Starts(es[j], c)
    BY <1>2, <1>6 DEF Fresh
  <2>2. \A j \in 1..Len(l) : ~S!Starts(t[j], c)
    BY <1>1, <2>1 DEF StartedIn
  <2> SUFFICES ASSUME NEW j \in 1..(Len(l) + k - 1) PROVE ~S!Starts(t[j], c)
    OBVIOUS
  <2>3. CASE j \in 1..Len(l)
    BY <2>2, <2>3
  <2>4. CASE j \notin 1..Len(l)
    <3>1. j - Len(l) \in 1..(k-1) /\ j - Len(l) \in 1..n /\ j = Len(l) + (j - Len(l))
      BY <1>1, <2>4
    <3>2. t[j] = es[j - Len(l)]
      BY <1>1, <3>1
    <3> QED BY <2>1, <3>1, <3>2
  <2> QED BY <2>3, <2>4
\* an event that ends the run is the last one, and every call is resolved
<1>7. ASSUME NEW k \in 1..n, Ends(es[k])
      PROVE  /\ k = n
             /\ \A c \in Call, j \in 1..(Len(l) + k - 1) :
                  S!Starts(t[j], c) => \E x \in j..(Len(l) + k - 1) : S!Resolves(t[x], c)
  <2> DEFINE b == Upto(l, es, k - 1)
             p == Len(l) + k - 1
  <2>0. p \in Nat
    BY <1>1
  <2>1. /\ b \in Seq(S!Event) /\ Len(b) = p
        /\ \A j \in 1..p : b[j] = t[j]
        /\ S!OpenAfter(OpenOf(l), es, k - 1) = OpenOf(b)
    BY <1>3
  <2>2. OpenOf(b) = {}
    <3>1. Fits(OpenOf(l), l, es, k)
      OBVIOUS
    <3>2. S!OpenAfter(OpenOf(l), es, k - 1) = {}
      BY <1>7, <3>1, EndFits DEF Fits
    <3> QED BY <2>1, <3>2
  <2>3. k = n
    <3>1. SUFFICES ASSUME k # n PROVE FALSE
      OBVIOUS
    <3>2. k + 1 \in 1..n /\ (k + 1) - 1 = k /\ Len(l) + (k + 1) - 1 = Len(l) + k
      BY <1>1, <3>1
    <3> DEFINE d == Upto(l, es, k)
    <3>3. d \in Seq(S!Event) /\ Len(d) = Len(l) + k /\ (\A j \in 1..(Len(l) + k) : d[j] = t[j]) /\ ~S!Closed(d)
      BY <1>3, <3>2
    <3> HIDE DEF d
    <3>4. Len(l) + k \in 1..(Len(l) + k) /\ t[Len(l) + k] = es[k]
      BY <1>1
    <3>5. d[Len(l) + k] = es[k]
      BY <3>3, <3>4
    <3>7. Len(d) > 0
      BY <1>1, <3>3
    <3>6. d[Len(d)] = es[k] /\ d # <<>>
      BY <3>3, <3>5, <3>7
    <3> QED BY <1>7, <3>3, <3>6 DEF S!Closed, S!Last, Ends
  <2>4. ASSUME NEW c \in Call, NEW j \in 1..p, S!Starts(t[j], c)
        PROVE  \E x \in j..p : S!Resolves(t[x], c)
    <3> HIDE DEF b
    <3>1. PICK x \in 1..p : S!Resolves(t[x], c)
      BY <2>1, <2>2, <2>4 DEF OpenOf
    <3>2. j \in 1..(Len(l) + n) /\ x \in 1..(Len(l) + n)
      BY <1>1
    <3>3. ASSUME x < j PROVE FALSE
      <4>1. PICK y \in 1..(x-1) : S!Starts(t[y], c)
        <5>1. CASE x \in 1..Len(l)
          BY <1>4, <3>1, <5>1 DEF SoundAt
        <5>2. CASE x \notin 1..Len(l)
          <6>1. PICK z \in 1..n : x = Len(l) + z
            BY <1>1, <3>2, <5>2
          <6>2. S!Resolves(es[z], c)
            BY <1>1, <3>1, <6>1
          <6>3. \E y \in 1..(Len(l) + z - 1) : S!Starts(t[y], c)
            BY <1>5, <6>2
          <6>4. Len(l) + z - 1 = x - 1
            BY <1>1, <6>1
          <6> QED BY <6>3, <6>4
        <5> QED BY <5>1, <5>2
      <4>2. y \in 1..(j-1)
        BY <1>1, <3>3
      <4>3. CASE j \in 1..Len(l)
        BY <1>4, <2>4, <4>1, <4>2, <4>3 DEF SoundAt
      <4>4. CASE j \notin 1..Len(l)
        <5>1. PICK z \in 1..n : j = Len(l) + z
          BY <1>1, <3>2, <4>4
        <5>2. S!Starts(es[z], c) /\ y \in 1..(Len(l) + z - 1)
          BY <1>1, <2>4, <4>2, <5>1
        <5> QED BY <1>6, <4>1, <5>2
      <4> QED BY <4>3, <4>4
    <3>4. x \in j..p
      BY <2>0, <3>3
    <3> QED BY <3>1, <3>4
  <2> QED BY <2>3, <2>4
<1>8. ASSUME NEW k \in 1..n
      PROVE  SoundAt(t, Len(l) + k)
  <2>1. t[Len(l) + k] = es[k] /\ (Len(l) + k) - 1 = Len(l) + k - 1
    BY <1>1
  <2>2. Ends(es[k]) => Len(l) + k = Len(t)
    BY <1>1, <1>7
  <2> QED BY <1>5, <1>6, <1>7, <2>1, <2>2 DEF SoundAt
<1>9. \A i \in 1..Len(t) : SoundAt(t, i)
  BY <1>1, <1>4, <1>8
<1> QED BY <1>1, <1>9, SoundIs DEF t

\* A stream is not over when its last event does not end the run.
LEMMA UptoGoesOn ==
  ASSUME NEW l \in Seq(S!Event), NEW es \in Seq(S!Event), NEW n \in 0..Len(es),
         ~S!Closed(l), n = 0 \/ ~Ends(es[n])
  PROVE  ~S!Closed(Upto(l, es, n))
<1> DEFINE t == Upto(l, es, n)
<1>1. /\ t \in Seq(S!Event) /\ Len(t) = Len(l) + n /\ Len(l) \in Nat /\ Len(es) \in Nat
      /\ \A i \in 1..Len(l) : t[i] = l[i]
      /\ \A i \in 1..n : t[Len(l) + i] = es[i]
  BY UptoIs
<1> HIDE DEF t
<1>2. CASE n = 0
  <2>1. Len(t) = Len(l)
    BY <1>1, <1>2
  <2>2. t # <<>> => l # <<>> /\ t[Len(t)] = l[Len(l)]
    BY <1>1, <2>1
  <2> QED BY <2>1, <2>2 DEF S!Closed, S!Last, t
<1>3. CASE n # 0
  <2>1. n \in 1..n
    BY <1>3
  <2>2. t[Len(t)] = es[n]
    BY <1>1, <2>1
  <2> QED BY <1>3, <2>2 DEF S!Closed, S!Last, t, Ends
<1> QED BY <1>2, <1>3

\* All of it.
LEMMA UptoAll ==
  ASSUME NEW l \in Seq(S!Event), NEW es \in Seq(S!Event)
  PROVE  Upto(l, es, Len(es)) = l \o es
<1>1. Len(es) \in Nat /\ \A i \in 1..Len(es) : es[i] \in S!Event
  BY LenProperties
<1>2. SubSeq(es, 1, Len(es)) = es
  BY <1>1, SubSeqProperties
<1> QED BY <1>2 DEF Upto

\* What appending to a sound stream makes of it.
LEMMA FeedEffect ==
  ASSUME NEW l \in Seq(S!Event), NEW es \in Seq(S!Event),
         S!Sound(l), ~S!Closed(l), Fresh(l, es), LastEnds(es)
  PROVE  LET r == S!Feed(OpenOf(l), l, es) IN
         /\ r.log \in Seq(S!Event) /\ S!Sound(r.log) /\ r.open = OpenOf(r.log)
         /\ StartedIn(r.log) \subseteq StartedIn(l) \cup StartedIn(es)
         /\ r.ok <=> \A i \in 1..Len(es) : Fits(OpenOf(l), l, es, i)
         /\ ~r.ok => ~S!Closed(r.log)
         /\ r.ok => r.log = l \o es /\ r.open = S!OpenAfter(OpenOf(l), es, Len(es))
<1> DEFINE r == S!Feed(OpenOf(l), l, es)
<1>0. Len(es) \in Nat /\ Len(l) \in Nat
  BY LenProperties
<1>1. PICK n \in 0..Len(es) :
           /\ r.ok = (n = Len(es))
           /\ r.open = S!OpenAfter(OpenOf(l), es, n)
           /\ r.log = Upto(l, es, n)
           /\ \A i \in 1..n : Fits(OpenOf(l), l, es, i)
           /\ n < Len(es) => ~Fits(OpenOf(l), l, es, n + 1)
  BY FeedTakes
<1> HIDE DEF r
<1>2. /\ r.log \in Seq(S!Event) /\ Len(r.log) = Len(l) + n
      /\ \A i \in 1..Len(l) : r.log[i] = l[i]
      /\ \A i \in 1..n : r.log[Len(l) + i] = es[i]
      /\ \A i \in 1..(Len(l) + n) : i \in 1..Len(l) \/ \E k \in 1..n : i = Len(l) + k
  <2> DEFINE t == Upto(l, es, n)
  <2>1. /\ t \in Seq(S!Event) /\ Len(t) = Len(l) + n
        /\ \A i \in 1..Len(l) : t[i] = l[i]
        /\ \A i \in 1..n : t[Len(l) + i] = es[i]
        /\ \A i \in 1..(Len(l) + n) : i \in 1..Len(l) \/ \E k \in 1..n : i = Len(l) + k
    BY UptoIs
  <2>2. r.log = t
    BY <1>1
  <2> HIDE DEF t
  <2> QED BY <2>1, <2>2
<1>3. S!Sound(r.log)
  BY <1>1, UptoSound
<1>4. r.open = OpenOf(r.log)
  BY <1>1, OpenIs
<1>5. StartedIn(r.log) \subseteq StartedIn(l) \cup StartedIn(es)
  <2> SUFFICES ASSUME NEW c \in StartedIn(r.log) PROVE c \in StartedIn(l) \cup StartedIn(es)
    OBVIOUS
  <2>1. PICK i \in 1..(Len(l) + n) : S!Starts(r.log[i], c)
    BY <1>2 DEF StartedIn
  <2>2. c \in Call
    BY DEF StartedIn
  <2>3. CASE i \in 1..Len(l)
    BY <1>2, <2>1, <2>2, <2>3 DEF StartedIn
  <2>4. CASE i \notin 1..Len(l)
    <3>1. PICK k \in 1..n : i = Len(l) + k
      BY <1>2, <2>4
    <3>2. k \in 1..Len(es) /\ S!Starts(es[k], c)
      BY <1>0, <1>2, <2>1, <3>1
    <3> QED BY <2>2, <3>2 DEF StartedIn
  <2> QED BY <2>3, <2>4
<1>6. r.ok <=> \A i \in 1..Len(es) : Fits(OpenOf(l), l, es, i)
  <2>1. CASE n = Len(es)
    BY <1>1, <2>1
  <2>2. CASE n # Len(es)
    <3>1. n < Len(es) /\ n + 1 \in 1..Len(es)
      BY <1>0, <2>2
    <3> QED BY <1>1, <2>2, <3>1
  <2> QED BY <2>1, <2>2
<1>7. ASSUME ~r.ok PROVE ~S!Closed(r.log)
  <2>1. n # Len(es)
    BY <1>1, <1>7
  <2>2. n = 0 \/ ~Ends(es[n])
    BY <1>0, <2>1 DEF LastEnds
  <2> QED BY <1>1, <2>2, UptoGoesOn
<1>8. ASSUME r.ok PROVE r.log = l \o es /\ r.open = S!OpenAfter(OpenOf(l), es, Len(es))
  BY <1>1, <1>8, UptoAll
<1> QED BY <1>2, <1>3, <1>4, <1>5, <1>6, <1>7, <1>8 DEF r

\* A finite set of calls in some order.
LEMMA OrderIs ==
  ASSUME NEW P \in SUBSET Call, IsFiniteSet(P)
  PROVE  \E n \in Nat :
           /\ S!SetToSeq(P) \in [1..n -> P]
           /\ \A i, j \in 1..n : S!SetToSeq(P)[i] = S!SetToSeq(P)[j] => i = j
           /\ \A c \in P : \E i \in 1..n : S!SetToSeq(P)[i] = c
<1> DEFINE n == Cardinality(P)
           order == S!SetToSeq(P)
<1>1. n \in Nat /\ ExistsBijection(1..n, P)
  BY FS_CardinalityType
<1>2. S!Cardinality(P) = n
  BY DEF S!Cardinality, Cardinality
<1>3. order = CHOOSE f \in [1..n -> P] : S!IsInjective(f)
  BY <1>2 DEF S!SetToSeq
<1>4. \E f \in [1..n -> P] : S!IsInjective(f)
  BY <1>1 DEF ExistsBijection, Bijection, Injection, IsInjective, S!IsInjective
<1> HIDE DEF n, order
<1>5. order \in [1..n -> P] /\ S!IsInjective(order)
  BY <1>3, <1>4
<1>6. \A i, j \in 1..n : order[i] = order[j] => i = j
  BY <1>5 DEF S!IsInjective
<1> DEFINE T == {order[i] : i \in 1..n}
<1>7. T \in SUBSET P
  BY <1>5
<1>8. Cardinality(T) = n /\ IsFiniteSet(T)
  <2>1. order \in Bijection(1..n, T)
    BY <1>5, <1>6 DEF Bijection, Injection, Surjection, IsInjective, T
  <2>2. ExistsBijection(1..n, T)
    BY <2>1 DEF ExistsBijection
  <2> HIDE DEF T
  <2> QED BY <1>1, <2>2, FS_CountingElements, <1>7, FS_Subset
<1>9. T = P
  <2> HIDE DEF T
  <2> QED BY <1>7, <1>8, FS_Subset DEF n
<1>10. \A c \in P : \E i \in 1..n : order[i] = c
  BY <1>9
<1> QED BY <1>1, <1>5, <1>6, <1>10 DEF order

-----------------------------------------------------------------------------
(* Which events fit.                                                        *)

\* When each of the events to append fits, as long as none of them ends the run early.
LEMMA FitsIs ==
  ASSUME NEW o, NEW l \in Seq(S!Event), NEW es \in Seq(S!Event), NEW i \in 1..Len(es),
         ~S!Closed(l), LastEnds(es)
  PROVE  LET before == S!OpenAfter(o, es, i - 1) IN
         Fits(o, l, es, i) <=> /\ Ends(es[i]) => before = {}
                               /\ \A c \in Call : /\ S!Starts(es[i], c) => c \notin before
                                                  /\ Updates(es[i], c) \/ S!Resolves(es[i], c) => c \in before
<1>1. Len(es) \in Nat /\ es[i] \in S!Event /\ i - 1 \in 0..Len(es)
  BY LenProperties
<1>2. ~S!Closed(Upto(l, es, i - 1))
  <2>1. i - 1 = 0 \/ ~Ends(es[i - 1])
    BY <1>1 DEF LastEnds
  <2> QED BY <1>1, <2>1, UptoGoesOn
<1> QED BY <1>1, <1>2, AcceptsIs DEF Fits

\* One event that neither starts a call nor ends the run.
LEMMA OneFits ==
  ASSUME NEW l \in Seq(S!Event), NEW o, NEW e \in S!Event, NEW c \in o, c \in Call,
         ~S!Closed(l), Updates(e, c) \/ S!Resolves(e, c)
  PROVE  /\ <<e>> \in Seq(S!Event) /\ Len(<<e>>) = 1 /\ <<e>>[1] = e
         /\ Fresh(l, <<e>>) /\ LastEnds(<<e>>) /\ StartedIn(<<e>>) = {}
         /\ \A i \in 1..Len(<<e>>) : ~Ends(<<e>>[i]) /\ Fits(o, l, <<e>>, i)
         /\ S!Resolves(e, c) => S!OpenAfter(o, <<e>>, 1) = (o \cap Call) \ {c}
         /\ Updates(e, c) => S!OpenAfter(o, <<e>>, 1) = o \cap Call
<1>1. <<e>> \in Seq(S!Event) /\ Len(<<e>>) = 1 /\ <<e>>[1] = e
  OBVIOUS
<1>2. /\ ~Ends(e) /\ \A d \in Call : ~S!Starts(e, d)
      /\ \A d \in Call \ {c} : ~Updates(e, d) /\ ~S!Resolves(e, d)
      /\ S!Resolves(e, c) <=> ~Updates(e, c)
  BY EventCases
<1> DEFINE es == <<e>>
<1> HIDE DEF es
<1>3. Fresh(l, es) /\ LastEnds(es) /\ StartedIn(es) = {}
  BY <1>1, <1>2 DEF Fresh, LastEnds, StartedIn, es
<1>4. S!OpenAfter(o, es, 0) = o \cap Call
  BY DEF S!OpenAfter
<1>5. Fits(o, l, es, 1)
  <2>1. es \in Seq(S!Event) /\ 1 \in 1..Len(es) /\ es[1] = e
    BY <1>1 DEF es
  <2>2. S!OpenAfter(o, es, 1 - 1) = o \cap Call
    BY <1>4
  <2>3. Fits(o, l, es, 1) <=> /\ Ends(es[1]) => S!OpenAfter(o, es, 1 - 1) = {}
                              /\ \A d \in Call : /\ S!Starts(es[1], d) => d \notin S!OpenAfter(o, es, 1 - 1)
                                                 /\ Updates(es[1], d) \/ S!Resolves(es[1], d) => d \in S!OpenAfter(o, es, 1 - 1)
    BY <1>3, <2>1, FitsIs
  <2> QED BY <1>2, <2>1, <2>2, <2>3
<1>6. S!Resolves(e, c) => S!OpenAfter(o, es, 1) = (o \cap Call) \ {c}
  BY <1>1, <1>2 DEF S!OpenAfter, es
<1>7. Updates(e, c) => S!OpenAfter(o, es, 1) = o \cap Call
  BY <1>1, <1>2 DEF S!OpenAfter, es
<1> QED BY <1>1, <1>2, <1>3, <1>5, <1>6, <1>7 DEF es

\* The failures of some calls, then the end of the run.
FailList(P, how) == Append(S!FailAll(P), S!Over(how))

\* What that list holds, place by place.
LEMMA FailListIs ==
  ASSUME NEW P \in SUBSET Call, IsFiniteSet(P), NEW how \in S!Terminal
  PROVE  LET es == FailList(P, how) IN
         \E n \in Nat : \E f \in [1..n -> P] :
           /\ es \in Seq(S!Event) /\ Len(es) = n + 1
           /\ \A i \in 1..n : es[i] = S!On("failed", f[i])
           /\ es[n + 1] = S!Over(how)
           /\ \A i, j \in 1..n : f[i] = f[j] => i = j
           /\ \A c \in P : \E i \in 1..n : f[i] = c
<1>1. PICK n \in Nat : /\ S!SetToSeq(P) \in [1..n -> P]
                       /\ \A i, j \in 1..n : S!SetToSeq(P)[i] = S!SetToSeq(P)[j] => i = j
                       /\ \A c \in P : \E i \in 1..n : S!SetToSeq(P)[i] = c
  BY OrderIs
<1> DEFINE f == S!SetToSeq(P)
<1>2. f \in [1..n -> P] /\ DOMAIN f = 1..n
  BY <1>1
<1> HIDE DEF f
<1> DEFINE g == [i \in 1..n |-> S!On("failed", f[i])]
<1>3. S!FailAll(P) = g
  BY <1>2 DEF S!FailAll, f
<1>4. \A i \in 1..n : S!On("failed", f[i]) \in S!Event
  BY <1>2 DEF S!On, S!Event, S!Resolution
<1>5. g \in Seq(S!Event) /\ Len(g) = n /\ \A i \in 1..n : g[i] = S!On("failed", f[i])
  BY <1>4, SeqDef, LenProperties
<1> HIDE DEF g
<1>6. S!Over(how) \in S!Event
  BY DEF S!Over, S!Event
<1> DEFINE es == Append(g, S!Over(how))
<1>7. es \in Seq(S!Event) /\ Len(es) = n + 1 /\ (\A i \in 1..n : es[i] = g[i]) /\ es[n + 1] = S!Over(how)
  BY <1>5, <1>6, AppendProperties
<1> HIDE DEF es
<1>8. FailList(P, how) = es
  BY <1>3 DEF FailList, es
<1>9. \A i \in 1..n : es[i] = S!On("failed", f[i])
  BY <1>5, <1>7
<1>10. \A i, j \in 1..n : f[i] = f[j] => i = j
  BY <1>1 DEF f
<1>11. \A c \in P : \E i \in 1..n : f[i] = c
  BY <1>1 DEF f
<1> HIDE DEF es
<1>12. /\ es \in Seq(S!Event) /\ Len(es) = n + 1
       /\ \A i \in 1..n : es[i] = S!On("failed", f[i])
       /\ es[n + 1] = S!Over(how)
       /\ \A i, j \in 1..n : f[i] = f[j] => i = j
       /\ \A c \in P : \E i \in 1..n : f[i] = c
  BY <1>7, <1>9, <1>10, <1>11
<1>13. n \in Nat /\ f \in [1..n -> P]
  BY <1>1, <1>2
<1> QED BY <1>8, <1>12, <1>13

\* Failing calls that are open fits; the end of the run fits when these were all of them.
LEMMA FailListFits ==
  ASSUME NEW l \in Seq(S!Event), NEW o \in SUBSET Call, NEW P \in SUBSET o, IsFiniteSet(P),
         NEW how \in S!Terminal, ~S!Closed(l)
  PROVE  LET es == FailList(P, how) IN
         /\ es \in Seq(S!Event) /\ Len(es) \in Nat \ {0} /\ Ends(es[Len(es)])
         /\ Fresh(l, es) /\ LastEnds(es) /\ StartedIn(es) = {}
         /\ \A i \in 1..Len(es) : i # Len(es) => Fits(o, l, es, i)
         /\ Fits(o, l, es, Len(es)) <=> o = P
         /\ S!OpenAfter(o, es, Len(es)) = o \ P
<1> DEFINE es == FailList(P, how)
<1>0. P \in SUBSET Call
  OBVIOUS
<1>a. PICK n \in Nat : \E f \in [1..n -> P] :
           /\ es \in Seq(S!Event) /\ Len(es) = n + 1
           /\ \A i \in 1..n : es[i] = S!On("failed", f[i])
           /\ es[n + 1] = S!Over(how)
           /\ \A i, j \in 1..n : f[i] = f[j] => i = j
           /\ \A c \in P : \E i \in 1..n : f[i] = c
  BY <1>0, FailListIs
<1>1. PICK f \in [1..n -> P] :
           /\ es \in Seq(S!Event) /\ Len(es) = n + 1
           /\ \A i \in 1..n : es[i] = S!On("failed", f[i])
           /\ es[n + 1] = S!Over(how)
           /\ \A i, j \in 1..n : f[i] = f[j] => i = j
           /\ \A c \in P : \E i \in 1..n : f[i] = c
  BY <1>a
<1> HIDE DEF es
<1>2. \A i \in 1..n : /\ ~Ends(es[i]) /\ S!Resolves(es[i], f[i])
                      /\ \A c : ~S!Starts(es[i], c) /\ ~Updates(es[i], c)
                      /\ \A c : S!Resolves(es[i], c) => c = f[i]
  <2> SUFFICES ASSUME NEW i \in 1..n
               PROVE  /\ ~Ends(es[i]) /\ S!Resolves(es[i], f[i])
                      /\ \A c : ~S!Starts(es[i], c) /\ ~Updates(es[i], c)
                      /\ \A c : S!Resolves(es[i], c) => c = f[i]
    OBVIOUS
  <2>0. es[i] = S!On("failed", f[i])
    BY <1>1
  <2>1. es[i].kind = "failed" /\ es[i].call = f[i]
    BY <2>0 DEF S!On
  <2> QED BY <2>1 DEF Ends, S!Terminal, S!Resolves, S!Resolution, S!Starts, Updates
<1>3. Ends(es[n + 1]) /\ \A c : ~S!Starts(es[n + 1], c) /\ ~Updates(es[n + 1], c) /\ ~S!Resolves(es[n + 1], c)
  BY <1>1 DEF S!Over, Ends, S!Terminal, S!Resolves, S!Resolution, S!Starts, Updates
<1>4. \A i \in 1..Len(es) : i \in 1..n \/ i = n + 1
  BY <1>1
<1>5. Fresh(l, es) /\ LastEnds(es) /\ StartedIn(es) = {}
  BY <1>1, <1>2, <1>3, <1>4 DEF Fresh, LastEnds, StartedIn
<1>6. ASSUME NEW i \in 1..n PROVE Fits(o, l, es, i)
  <2>1. f[i] \in S!OpenAfter(o, es, i - 1)
    <3>1. \A j \in 1..(i - 1) : j \in 1..n /\ j # i
      BY <1>1
    <3>2. \A j \in 1..(i - 1) : ~S!Resolves(es[j], f[i])
      <4>1. \A j \in 1..(i - 1) : f[j] # f[i]
        BY <1>1, <3>1
      <4> QED BY <1>2, <3>1, <4>1
    <3>3. f[i] \in o /\ f[i] \in Call
      BY <1>1
    <3> QED BY <3>2, <3>3 DEF S!OpenAfter
  <2>2. i \in 1..Len(es)
    BY <1>1
  <2>3. Fits(o, l, es, i) <=> /\ Ends(es[i]) => S!OpenAfter(o, es, i - 1) = {}
                              /\ \A d \in Call : /\ S!Starts(es[i], d) => d \notin S!OpenAfter(o, es, i - 1)
                                                 /\ Updates(es[i], d) \/ S!Resolves(es[i], d) => d \in S!OpenAfter(o, es, i - 1)
    BY <1>1, <1>5, <2>2, FitsIs
  <2> QED BY <1>2, <2>1, <2>3
<1>7. S!OpenAfter(o, es, n) = o \ P
  <2>1. S!OpenAfter(o, es, n) = {c \in Call : c \in o /\ \A i \in 1..n : ~S!Resolves(es[i], c)}
    BY <1>2 DEF S!OpenAfter
  <2>2. ASSUME NEW c \in Call PROVE (\A i \in 1..n : ~S!Resolves(es[i], c)) <=> c \notin P
    <3>1. ASSUME NEW i \in 1..n, S!Resolves(es[i], c) PROVE c \in P
      <4>1. c = f[i]
        BY <1>2, <3>1
      <4> QED BY <1>1, <4>1
    <3>2. ASSUME c \in P PROVE \E i \in 1..n : S!Resolves(es[i], c)
      <4>1. PICK i \in 1..n : f[i] = c
        BY <1>1, <3>2
      <4> QED BY <1>2, <4>1
    <3> QED BY <3>1, <3>2
  <2> QED BY <2>1, <2>2
<1>8. Fits(o, l, es, n + 1) <=> o = P
  <2>1. n + 1 \in 1..Len(es) /\ (n + 1) - 1 = n
    BY <1>1
  <2>3. Fits(o, l, es, n + 1) <=> /\ Ends(es[n + 1]) => S!OpenAfter(o, es, (n + 1) - 1) = {}
                              /\ \A d \in Call : /\ S!Starts(es[n + 1], d) => d \notin S!OpenAfter(o, es, (n + 1) - 1)
                                                 /\ Updates(es[n + 1], d) \/ S!Resolves(es[n + 1], d) => d \in S!OpenAfter(o, es, (n + 1) - 1)
    BY <1>1, <1>5, <2>1, FitsIs
  <2>2. Fits(o, l, es, n + 1) <=> S!OpenAfter(o, es, n) = {}
    BY <1>3, <2>1, <2>3
  <2> QED BY <1>7, <2>2
<1>9. S!OpenAfter(o, es, n + 1) = o \ P
  <2>1. \A i \in 1..(n + 1) : i \in 1..n \/ i = n + 1
    BY <1>1
  <2>2. \A i \in 1..n : i \in 1..(n + 1)
    OBVIOUS
  <2>3. \A c \in Call : (\A i \in 1..(n + 1) : ~S!Resolves(es[i], c)) <=> (\A i \in 1..n : ~S!Resolves(es[i], c))
    BY <1>3, <2>1, <2>2
  <2>4. \A c \in Call, i \in 1..(n + 1) : ~S!Starts(es[i], c)
    BY <1>2, <1>3, <2>1
  <2>5. \A c \in Call, i \in 1..n : ~S!Starts(es[i], c)
    BY <1>2
  <2>6. S!OpenAfter(o, es, n + 1) = S!OpenAfter(o, es, n)
    BY <2>3, <2>4, <2>5 DEF S!OpenAfter
  <2> QED BY <1>7, <2>6
<1>10. \A i \in 1..Len(es) : i # Len(es) => Fits(o, l, es, i)
  BY <1>1, <1>4, <1>6
<1> QED BY <1>1, <1>3, <1>5, <1>8, <1>9, <1>10 DEF es

\* A call starts, is updated, and may be resolved and followed by the end of the run.
Begins(es, c, n) ==
  /\ n \in Nat \ {0} /\ n <= Len(es) /\ Len(es) <= n + 2
  /\ S!Starts(es[1], c) /\ \A i \in 2..n : Updates(es[i], c)
  /\ Len(es) > n => S!Resolves(es[n + 1], c)
  /\ Len(es) > n + 1 => Ends(es[n + 2])

OpenThen(o, es, c, n) == IF Len(es) = n THEN o \cup {c} ELSE o
OpenAt(o, c, n, k) == IF k \in 1..n THEN o \cup {c} ELSE o

\* What each of these events is.
LEMMA StartKinds ==
  ASSUME NEW c \in Call, NEW es \in Seq(S!Event), NEW n, Begins(es, c, n)
  PROVE  /\ n \in Nat \ {0} /\ Len(es) \in {n, n + 1, n + 2}
         /\ \A i \in 1..Len(es) :
              /\ Ends(es[i]) <=> i = n + 2
              /\ \A d \in Call : /\ S!Starts(es[i], d) <=> i = 1 /\ d = c
                                 /\ Updates(es[i], d) <=> i \in 2..n /\ d = c
                                 /\ S!Resolves(es[i], d) <=> i = n + 1 /\ d = c
<1>1. n \in Nat \ {0} /\ Len(es) \in {n, n + 1, n + 2}
  BY LenProperties DEF Begins
<1>2. \A i \in 1..Len(es) : es[i] \in S!Event /\ (i = 1 \/ i \in 2..n \/ i = n + 1 \/ i = n + 2)
  BY <1>1
<1>3. ASSUME NEW i \in 1..Len(es)
      PROVE  /\ Ends(es[i]) <=> i = n + 2
             /\ \A d \in Call : /\ S!Starts(es[i], d) <=> i = 1 /\ d = c
                                /\ Updates(es[i], d) <=> i \in 2..n /\ d = c
                                /\ S!Resolves(es[i], d) <=> i = n + 1 /\ d = c
  <2>1. es[i] \in S!Event
    BY <1>2
  <2>2. CASE i = 1
    <3>1. S!Starts(es[i], c) /\ i # n + 1 /\ i # n + 2 /\ i \notin 2..n
      BY <1>1, <2>2 DEF Begins
    <3> QED BY <2>1, <2>2, <3>1, EventCases DEF S!Starts
  <2>3. CASE i \in 2..n
    <3>1. Updates(es[i], c) /\ i # 1 /\ i # n + 1 /\ i # n + 2
      BY <1>1, <2>3 DEF Begins
    <3> QED BY <2>1, <2>3, <3>1, EventCases DEF Updates
  <2>4. CASE i = n + 1
    <3>1. S!Resolves(es[i], c) /\ i # 1 /\ i \notin 2..n /\ i # n + 2
      BY <1>1, <2>4 DEF Begins
    <3> QED BY <2>1, <2>4, <3>1, EventCases DEF S!Resolves
  <2>5. CASE i = n + 2
    <3>1. Ends(es[i]) /\ i # 1 /\ i \notin 2..n /\ i # n + 1
      BY <1>1, <2>5 DEF Begins
    <3> QED BY <2>1, <2>5, <3>1, EventCases
  <2> QED BY <1>2, <2>2, <2>3, <2>4, <2>5
<1> QED BY <1>1, <1>3

\* The calls that are open on the way, and after it.
LEMMA StartOpens ==
  ASSUME NEW o \in SUBSET Call, NEW c \in Call, c \notin o, NEW es \in Seq(S!Event), NEW n, Begins(es, c, n),
         NEW k \in 0..Len(es)
  PROVE  S!OpenAfter(o, es, k) = OpenAt(o, c, n, k)
<1>1. n \in Nat \ {0} /\ Len(es) \in {n, n + 1, n + 2}
  BY StartKinds
<1>3. ASSUME NEW i \in 1..Len(es)
      PROVE  /\ Ends(es[i]) <=> i = n + 2
             /\ \A d \in Call : /\ S!Starts(es[i], d) <=> i = 1 /\ d = c
                                /\ Updates(es[i], d) <=> i \in 2..n /\ d = c
                                /\ S!Resolves(es[i], d) <=> i = n + 1 /\ d = c
  BY StartKinds
<1> QED
  <2>1. \A i \in 1..k : i \in 1..Len(es)
    BY <1>1
  <2>2. S!OpenAfter(o, es, k) =
          {d \in Call : \/ d \in o /\ \A i \in 1..k : ~(i = n + 1 /\ d = c)
                        \/ \E i \in 1..k : (i = 1 /\ d = c) /\ \A j \in i..k : ~(j = n + 1 /\ d = c)}
    <3>1. ASSUME NEW d \in Call
          PROVE  /\ (\A i \in 1..k : ~S!Resolves(es[i], d)) <=> \A i \in 1..k : ~(i = n + 1 /\ d = c)
                 /\ (\E i \in 1..k : S!Starts(es[i], d) /\ \A j \in i..k : ~S!Resolves(es[j], d))
                      <=> \E i \in 1..k : (i = 1 /\ d = c) /\ \A j \in i..k : ~(j = n + 1 /\ d = c)
      <4>1. \A i \in 1..k : \A j \in i..k : j \in 1..Len(es)
        BY <1>1
      <4> QED BY <1>3, <2>1, <4>1
    <3> QED BY <3>1 DEF S!OpenAfter
  <2>3. CASE k \in 1..n
    <3>1. 1 \in 1..k /\ \A i \in 1..k : i # n + 1
      BY <1>1, <2>3
    <3> QED BY <2>2, <2>3, <3>1 DEF OpenAt
  <2>4. CASE k = 0
    BY <1>1, <2>2, <2>4 DEF OpenAt
  <2>5. CASE k \notin 1..n /\ k # 0
    <3>1. n + 1 \in 1..k
      BY <1>1, <2>5
    <3> QED BY <2>2, <2>5, <3>1 DEF OpenAt
  <2> QED BY <2>3, <2>4, <2>5

\* ... and after all of them.
LEMMA StartOpensAll ==
  ASSUME NEW o \in SUBSET Call, NEW c \in Call, c \notin o, NEW es \in Seq(S!Event), NEW n, Begins(es, c, n)
  PROVE  S!OpenAfter(o, es, Len(es)) = OpenThen(o, es, c, n)
<1>1. n \in Nat \ {0} /\ Len(es) \in {n, n + 1, n + 2}
  BY StartKinds
<1>2. Len(es) \in 0..Len(es) /\ (Len(es) \in 1..n <=> Len(es) = n)
  BY <1>1
<1>3. S!OpenAfter(o, es, Len(es)) = OpenAt(o, c, n, Len(es))
  BY <1>2, StartOpens
<1> QED BY <1>2, <1>3 DEF OpenThen, OpenAt

\* What of it fits.
LEMMA StartFits ==
  ASSUME NEW l \in Seq(S!Event), NEW o \in SUBSET Call, NEW c \in Call \ o, c \notin StartedIn(l),
         ~S!Closed(l), NEW es \in Seq(S!Event), NEW n, Begins(es, c, n)
  PROVE  /\ Fresh(l, es) /\ LastEnds(es) /\ StartedIn(es) = {c}
         /\ \A i \in 1..Len(es) : ~Ends(es[i]) => Fits(o, l, es, i)
         /\ Ends(es[Len(es)]) => (Fits(o, l, es, Len(es)) <=> o = {})
         /\ Ends(es[Len(es)]) <=> Len(es) = n + 2
<1>1. n \in Nat \ {0} /\ Len(es) \in {n, n + 1, n + 2}
  BY StartKinds
<1>3. ASSUME NEW i \in 1..Len(es)
      PROVE  /\ es[i] \in S!Event /\ (i = 1 \/ i \in 2..n \/ i = n + 1 \/ i = n + 2)
             /\ Ends(es[i]) <=> i = n + 2
             /\ \A d \in Call : /\ S!Starts(es[i], d) <=> i = 1 /\ d = c
                                /\ Updates(es[i], d) <=> i \in 2..n /\ d = c
                                /\ S!Resolves(es[i], d) <=> i = n + 1 /\ d = c
  <2>1. i = 1 \/ i \in 2..n \/ i = n + 1 \/ i = n + 2
    BY <1>1
  <2> QED BY <2>1, StartKinds
<1>4. Fresh(l, es)
  <2> SUFFICES ASSUME NEW i \in 1..Len(es), NEW d \in Call, S!Starts(es[i], d)
               PROVE  d \notin StartedIn(l) /\ \A j \in 1..(i-1) : ~S!Starts(es[j], d)
    BY DEF Fresh
  <2>1. i = 1 /\ d = c
    BY <1>3
  <2> QED BY <2>1
<1>5. LastEnds(es)
  BY <1>1, <1>3 DEF LastEnds
<1>6. StartedIn(es) = {c}
  <2>1. 1 \in 1..Len(es)
    BY <1>1
  <2> QED BY <1>3, <2>1 DEF StartedIn
<1>7. ASSUME NEW k \in 0..Len(es) PROVE S!OpenAfter(o, es, k) = OpenAt(o, c, n, k)
  BY StartOpens
<1>8. ASSUME NEW i \in 1..Len(es)
      PROVE  i # n + 2 => Fits(o, l, es, i) /\ ~Ends(es[i])
  <2>1. Fits(o, l, es, i) <=> /\ Ends(es[i]) => S!OpenAfter(o, es, i - 1) = {}
                              /\ \A d \in Call : /\ S!Starts(es[i], d) => d \notin S!OpenAfter(o, es, i - 1)
                                                 /\ Updates(es[i], d) \/ S!Resolves(es[i], d) => d \in S!OpenAfter(o, es, i - 1)
    BY <1>5, FitsIs
  <2>2. i - 1 \in 0..Len(es)
    BY <1>1
  <2>3. S!OpenAfter(o, es, i - 1) = IF i - 1 \in 1..n THEN o \cup {c} ELSE o
    BY <1>7, <2>2 DEF OpenAt
  <2>4. /\ i = 1 => i - 1 \notin 1..n
        /\ i \in 2..n \/ i = n + 1 => i - 1 \in 1..n
    BY <1>1
  <2> QED BY <1>3, <2>1, <2>3, <2>4
<1>9. ASSUME Len(es) = n + 2
      PROVE  (Fits(o, l, es, n + 2) <=> o = {}) /\ Ends(es[n + 2])
  <2>0. n + 2 \in 1..Len(es) /\ (n + 2) - 1 = n + 1 /\ n + 1 \in 0..Len(es) /\ n + 1 \notin 1..n /\ n + 2 # 1 /\ n + 2 # n + 1 /\ n + 2 \notin 2..n
    BY <1>1, <1>9
  <2>1. Fits(o, l, es, n + 2) <=>
          /\ Ends(es[n + 2]) => S!OpenAfter(o, es, (n + 2) - 1) = {}
          /\ \A d \in Call : /\ S!Starts(es[n + 2], d) => d \notin S!OpenAfter(o, es, (n + 2) - 1)
                             /\ Updates(es[n + 2], d) \/ S!Resolves(es[n + 2], d) => d \in S!OpenAfter(o, es, (n + 2) - 1)
    BY <1>5, <2>0, FitsIs
  <2>2. S!OpenAfter(o, es, n + 1) = o
    BY <1>7, <2>0 DEF OpenAt
  <2> QED BY <1>3, <2>0, <2>1, <2>2
<1>11. Ends(es[Len(es)]) <=> Len(es) = n + 2
  <2>1. Len(es) \in 1..Len(es)
    BY <1>1
  <2> QED BY <1>3, <2>1
<1>12. \A i \in 1..Len(es) : ~Ends(es[i]) => Fits(o, l, es, i)
  BY <1>3, <1>8
<1>13. Ends(es[Len(es)]) => (Fits(o, l, es, Len(es)) <=> o = {})
  BY <1>9, <1>11
<1> QED BY <1>4, <1>5, <1>6, <1>11, <1>12, <1>13

\* The events run.py emits for a call that starts, with its buffered updates.
LEMMA BegunIs ==
  ASSUME NEW c \in Call, NEW m \in Nat
  PROVE  LET begun == <<S!On("started", c)>> \o [i \in 1..m |-> S!On("updated", c)] IN
         /\ begun \in Seq(S!Event) /\ Len(begun) = m + 1
         /\ S!Starts(begun[1], c) /\ \A i \in 2..(m + 1) : Updates(begun[i], c)
<1> DEFINE u == [i \in 1..m |-> S!On("updated", c)]
           s == <<S!On("started", c)>>
<1>1. S!On("updated", c) \in S!Event /\ S!On("started", c) \in S!Event
  BY DEF S!On, S!Event
<1>2. u \in Seq(S!Event) /\ Len(u) = m /\ \A i \in 1..m : u[i] = S!On("updated", c)
  BY <1>1, SeqDef, LenProperties
<1>3. s \in Seq(S!Event) /\ Len(s) = 1 /\ s[1] = S!On("started", c)
  BY <1>1
<1> HIDE DEF u, s
<1>4. /\ s \o u \in Seq(S!Event) /\ Len(s \o u) = 1 + m
      /\ \A i \in 1..(1 + m) : (s \o u)[i] = IF i <= 1 THEN s[i] ELSE u[i - 1]
  <2>1. /\ s \o u \in Seq(S!Event) /\ Len(s \o u) = Len(s) + Len(u)
        /\ \A i \in 1..(Len(s) + Len(u)) : (s \o u)[i] = IF i <= Len(s) THEN s[i] ELSE u[i - Len(s)]
    BY <1>2, <1>3, ConcatProperties
  <2> QED BY <1>2, <1>3, <2>1
<1>5. (s \o u)[1] = S!On("started", c)
  BY <1>3, <1>4
<1>6. \A i \in 2..(m + 1) : (s \o u)[i] = S!On("updated", c)
  <2> SUFFICES ASSUME NEW i \in 2..(m + 1) PROVE (s \o u)[i] = S!On("updated", c)
    OBVIOUS
  <2>1. i \in 1..(1 + m) /\ ~(i <= 1) /\ i - 1 \in 1..m
    OBVIOUS
  <2> QED BY <1>2, <1>4, <2>1
<1>7. S!Starts(S!On("started", c), c) /\ Updates(S!On("updated", c), c)
  BY DEF S!Starts, Updates, S!On
<1>8. 1 + m = m + 1
  OBVIOUS
<1> HIDE DEF u, s
<1>9. /\ s \o u \in Seq(S!Event) /\ Len(s \o u) = m + 1
      /\ S!Starts((s \o u)[1], c) /\ \A i \in 2..(m + 1) : Updates((s \o u)[i], c)
  BY <1>4, <1>5, <1>6, <1>7, <1>8
<1> QED BY <1>9 DEF s, u

-----------------------------------------------------------------------------
(* The invariant of a run.                                                  *)

StreamTyped ==
  /\ stage \in {"asking", "tools", "over"}
  /\ unseen \subseteq Call /\ idle \subseteq Call /\ running \subseteq Call /\ used \subseteq Call
  /\ pending \subseteq Call /\ dropped \subseteq Call
  /\ buffered \in [Call -> Nat]
  /\ log \in Seq(S!Event) /\ tail \in Seq(S!Event)
  /\ filed \in {"open", "complete", "incomplete"}

\* The table of the appender is what the file says; while the run goes on,
\* nothing was shown that is not written.
Written ==
  /\ S!Sound(log) /\ S!Sound(S!Shown) /\ open = OpenOf(log)
  /\ stage # "over" => tail = <<>> /\ filed = "open" /\ ~S!Closed(log)

\* No call to come has started before.
Announced == unseen \cap StartedIn(log) = {} /\ unseen \cup StartedIn(log) \subseteq used

\* The tables of run.py and of the appender differ by the calls that were dropped.
TablesAgree == stage # "over" => pending \subseteq open /\ open \subseteq pending \cup dropped

\* A tool belongs to a call to come or to a pending one.
ToolsPending ==
  /\ running \cup idle \subseteq unseen \cup pending /\ running \cap idle = {}
  /\ stage # "tools" => unseen = {} /\ idle = {} /\ running = {}

\* How the run ended.
EndKnown ==
  /\ stage = "over" => S!Closed(S!Shown) /\ filed # "open"
  /\ filed = "complete" => S!Closed(log)
  /\ filed = "incomplete" => dropped # {} \/ \E c \in Call : buffered[c] > 0

StreamIInv == StreamTyped /\ Written /\ Announced /\ TablesAgree /\ ToolsPending /\ EndKnown

\* There are finitely many calls, so an order of any of them exists.
LEMMA FiniteCalls == \A P \in SUBSET Call : IsFiniteSet(P)
<1>1. S!IsFiniteSet(Call)
  BY BoundsHold DEF S!RetriesAssumption
<1>2. IsFiniteSet(Call)
  BY <1>1 DEF S!IsFiniteSet, IsFiniteSet
<1> QED BY <1>2, FS_Subset

\* The failures of the open calls and the end of the run complete a stream.
LEMMA FailuresComplete ==
  ASSUME NEW g \in Seq(S!Event), S!Sound(g), ~S!Closed(g), NEW o \in SUBSET Call, o = OpenOf(g)
  PROVE  LET fs == FailList(o, "run_failed") IN
         fs \in Seq(S!Event) /\ S!Sound(g \o fs) /\ S!Closed(g \o fs)
<1> DEFINE fs == FailList(o, "run_failed")
<1>1. /\ fs \in Seq(S!Event) /\ Len(fs) \in Nat \ {0} /\ Ends(fs[Len(fs)])
      /\ Fresh(g, fs) /\ LastEnds(fs)
      /\ \A i \in 1..Len(fs) : i # Len(fs) => Fits(o, g, fs, i)
      /\ Fits(o, g, fs, Len(fs)) <=> o = o
  <2>1. "run_failed" \in S!Terminal /\ IsFiniteSet(o) /\ o \in SUBSET o
    BY FiniteCalls DEF S!Terminal
  <2> HIDE DEF fs
  <2>2. \A P \in SUBSET o : IsFiniteSet(P) =>
          LET x == FailList(P, "run_failed") IN
          /\ x \in Seq(S!Event) /\ Len(x) \in Nat \ {0} /\ Ends(x[Len(x)])
          /\ Fresh(g, x) /\ LastEnds(x)
          /\ \A i \in 1..Len(x) : i # Len(x) => Fits(o, g, x, i)
          /\ Fits(o, g, x, Len(x)) <=> o = P
    BY <2>1, FailListFits
  <2> QED BY <2>1, <2>2 DEF fs
<1> HIDE DEF fs
<1>2. \A i \in 1..Len(fs) : Fits(OpenOf(g), g, fs, i)
  BY <1>1
<1>3. Len(fs) \in 0..Len(fs) /\ Len(fs) \in 1..Len(fs) /\ Upto(g, fs, Len(fs)) = g \o fs
  BY <1>1, UptoAll
<1> DEFINE t == Upto(g, fs, Len(fs))
<1>4. S!Sound(t)
  BY <1>1, <1>2, <1>3, UptoSound
<1>5. S!Closed(t)
  <2>1. /\ Len(t) = Len(g) + Len(fs) /\ Len(g) \in Nat
        /\ t[Len(g) + Len(fs)] = fs[Len(fs)]
    BY <1>1, <1>3, UptoIs
  <2> HIDE DEF t
  <2>2. Len(t) > 0 /\ t[Len(t)] = fs[Len(fs)]
    BY <1>1, <2>1
  <2>3. t # <<>>
    BY <2>2
  <2> QED BY <1>1, <2>2, <2>3 DEF S!Closed, S!Last, Ends
<1> QED BY <1>1, <1>3, <1>4, <1>5 DEF fs

\* What the appender and the client have after some events are emitted.
LEMMA EmitEffect ==
  ASSUME StreamTyped, Written, stage # "over",
         NEW es \in Seq(S!Event), Fresh(log, es), LastEnds(es), Len(es) > 0,
         NEW to \in {"asking", "tools", "over"}, to = "over" <=> Ends(es[Len(es)]),
         S!Emit(es, to)
  PROVE  /\ log' \in Seq(S!Event) /\ tail' \in Seq(S!Event) /\ Written'
         /\ StartedIn(log') \subseteq StartedIn(log) \cup StartedIn(es)
         /\ filed' = "incomplete" <=> \E i \in 1..Len(es) : ~Fits(open, log, es, i)
         /\ filed' \in {"open", "complete", "incomplete"}
         /\ stage' = IF filed' = "incomplete" THEN "over" ELSE to
         /\ stage' = "over" => S!Closed(S!Shown') /\ filed' # "open"
         /\ filed' = "complete" => S!Closed(log')
         /\ filed' # "incomplete" => open' = S!OpenAfter(open, es, Len(es))
<1> DEFINE r == S!Feed(open, log, es)
<1>0. Len(es) \in Nat \ {0} /\ open = OpenOf(log) /\ tail = <<>> /\ filed = "open" /\ ~S!Closed(log)
  BY LenProperties DEF Written
<1>1. /\ r.log \in Seq(S!Event) /\ S!Sound(r.log) /\ r.open = OpenOf(r.log)
      /\ StartedIn(r.log) \subseteq StartedIn(log) \cup StartedIn(es)
      /\ r.ok <=> \A i \in 1..Len(es) : Fits(open, log, es, i)
      /\ ~r.ok => ~S!Closed(r.log)
      /\ r.ok => r.log = log \o es /\ r.open = S!OpenAfter(open, es, Len(es))
  BY <1>0, FeedEffect DEF StreamTyped, Written
<1>2. /\ log' = r.log /\ open' = r.open
      /\ IF ~r.ok THEN /\ stage' = "over" /\ filed' = "incomplete"
                       /\ tail' = FailList(r.open, "run_failed")
         ELSE /\ tail' = tail
              /\ IF S!Closed(r.log) THEN stage' = "over" /\ filed' = "complete"
                 ELSE stage' = to /\ filed' = filed
  BY DEF S!Emit, FailList
<1> HIDE DEF r
<1>3. r.open \in SUBSET Call
  BY <1>1 DEF OpenOf
<1>4. CASE r.ok
  <2>1. log' = log \o es /\ log' \in Seq(S!Event)
    BY <1>1, <1>2, <1>4
  <2>2. S!Closed(log') <=> to = "over"
    <3>0. log \in Seq(S!Event)
      BY DEF StreamTyped
    <3>1. Len(log) \in Nat /\ Len(log') = Len(log) + Len(es)
      BY <2>1, <3>0, LenProperties, ConcatProperties
    <3>2. log'[Len(log) + Len(es)] = es[Len(es)]
      <4>1. Upto(log, es, Len(es)) = log \o es /\ Len(es) \in 0..Len(es) /\ Len(es) \in 1..Len(es)
        BY <1>0, <3>0, UptoAll
      <4>2. Upto(log, es, Len(es))[Len(log) + Len(es)] = es[Len(es)]
        BY <3>0, <4>1, UptoIs
      <4> QED BY <2>1, <4>1, <4>2
    <3>3. Len(log') > 0 /\ log' # <<>>
      BY <1>0, <2>1, <3>1
    <3> QED BY <3>1, <3>2, <3>3 DEF S!Closed, S!Last, Ends
  <2>3. tail' = <<>> /\ S!Shown' = log'
    <3>1. tail' = <<>>
      BY <1>0, <1>2, <1>4
    <3>2. log' \o <<>> = log'
      BY <2>1
    <3> QED BY <3>1, <3>2 DEF S!Shown
  <2> QED BY <1>0, <1>1, <1>2, <1>4, <2>1, <2>2, <2>3 DEF Written
<1>5. CASE ~r.ok
  <2> DEFINE g == r.log
             o == r.open
             fs == FailList(o, "run_failed")
  <2>0. g \in Seq(S!Event) /\ o \in SUBSET Call /\ o \in SUBSET o /\ IsFiniteSet(o) /\ ~S!Closed(g) /\ o = OpenOf(g) /\ S!Sound(g)
    BY <1>1, <1>3, <1>5, FiniteCalls
  <2>a. log' = g /\ open' = o /\ tail' = fs /\ stage' = "over" /\ filed' = "incomplete"
    BY <1>2, <1>5
  <2>b. StartedIn(g) \subseteq StartedIn(log) \cup StartedIn(es)
    BY <1>1
  <2> HIDE DEF g, o
  <2>1. fs \in Seq(S!Event) /\ S!Sound(g \o fs) /\ S!Closed(g \o fs)
    BY <2>0, FailuresComplete
  <2> HIDE DEF fs
  <2>6. S!Shown' = g \o fs
    BY <2>a DEF S!Shown
  <2>7. \E i \in 1..Len(es) : ~Fits(open, log, es, i)
    BY <1>1, <1>5
  <2> QED BY <2>0, <2>1, <2>6, <2>7, <2>a, <2>b DEF Written
<1> QED BY <1>4, <1>5

-----------------------------------------------------------------------------
(* The steps of a run.                                                      *)

\* Nothing was shown or dropped yet.
LEMMA StreamInit == S!Init => StreamIInv
<1> SUFFICES ASSUME S!Init PROVE StreamIInv
  OBVIOUS
<1>1. /\ stage = "asking" /\ unseen = {} /\ idle = {} /\ running = {} /\ used = {} /\ pending = {}
      /\ buffered = [c \in Call |-> 0] /\ open = {} /\ log = <<>> /\ tail = <<>> /\ filed = "open" /\ dropped = {}
  BY DEF S!Init
<1>2. StreamTyped
  BY <1>1 DEF StreamTyped
<1>3. StartedIn(<<>>) = {} /\ OpenOf(<<>>) = {} /\ ~S!Closed(<<>>)
  BY DEF StartedIn, OpenOf, S!Closed
<1>4. S!Sound(<<>>)
  BY DEF S!Sound
<1>5. Written
  <2>1. S!Shown = <<>>
    BY <1>1 DEF S!Shown
  <2> QED BY <1>1, <1>3, <1>4, <2>1 DEF Written
<1>6. Announced
  BY <1>1, <1>3 DEF Announced
<1>7. TablesAgree /\ ToolsPending /\ EndKnown
  BY <1>1 DEF TablesAgree, ToolsPending, EndKnown
<1> QED BY <1>2, <1>5, <1>6, <1>7 DEF StreamIInv

\* What keeps the log keeps what is known of it.
LEMMA WrittenSame ==
  ASSUME Written, stage # "over", UNCHANGED <<open, log, tail, filed>>
  PROVE  Written'
BY DEF Written, S!Shown

\* The steps that write nothing.
LEMMA QuietStep ==
  ASSUME StreamIInv,
         \/ \E calls \in SUBSET Call : S!AnswerCalls(calls)
         \/ S!Recover \/ S!Compact \/ S!EndTools
         \/ \E c \in Call : S!BeginTool(c) \/ S!SendUpdate(c)
  PROVE  StreamIInv'
<1>1. stage \in {"asking", "tools"} /\ stage' \in {"asking", "tools"} /\ UNCHANGED <<open, log, tail, filed, buffered>>
  <2>1. CASE \E c \in Call : S!BeginTool(c) \/ S!SendUpdate(c)
    BY <2>1 DEF S!BeginTool, S!SendUpdate, S!tables, S!stream, StreamIInv, StreamTyped, ToolsPending
  <2>2. CASE ~\E c \in Call : S!BeginTool(c) \/ S!SendUpdate(c)
    BY <2>2 DEF S!AnswerCalls, S!Recover, S!Compact, S!EndTools, S!StopTools, S!Restart, S!tables, S!stream,
        StreamIInv, StreamTyped
  <2> QED BY <2>1, <2>2
<1>2. Written'
  BY <1>1, WrittenSame DEF StreamIInv
<1>3. EndKnown'
  BY <1>1 DEF StreamIInv, EndKnown, Written
<1>4. StreamTyped' /\ Announced' /\ TablesAgree' /\ ToolsPending'
  <2>0. StartedIn(log)' = StartedIn(log)
    BY <1>1
  <2>1. ASSUME NEW calls \in SUBSET Call, S!AnswerCalls(calls)
        PROVE  StreamTyped' /\ Announced' /\ TablesAgree' /\ ToolsPending'
    <3>1. /\ stage = "asking" /\ stage' = "tools" /\ calls \cap used = {} /\ used' = used \cup calls
          /\ unseen' = calls /\ idle' = calls /\ UNCHANGED <<running, pending, dropped>>
      BY <2>1 DEF S!AnswerCalls, S!tables
    <3> QED BY <1>1, <2>0, <3>1 DEF StreamIInv, StreamTyped, Announced, TablesAgree, ToolsPending
  <2>2. CASE S!Recover
    <3>1. stage = "asking" /\ UNCHANGED <<stage, unseen, idle, running, used, pending, dropped>>
      BY <2>2 DEF S!Recover, S!framework, S!tables
    <3> QED BY <1>1, <2>0, <3>1 DEF StreamIInv, StreamTyped, Announced, TablesAgree, ToolsPending
  <2>3. CASE S!Compact
    <3>1. /\ stage = "asking" /\ unseen' = {} /\ idle' = {} /\ running' = {} /\ UNCHANGED <<stage, used>>
          /\ \/ pending' = {} /\ dropped' = dropped \cup pending
             \/ UNCHANGED <<pending, dropped>>
      BY <2>3 DEF S!Compact, S!Restart, S!StopTools, S!tables
    <3> QED BY <1>1, <2>0, <3>1 DEF StreamIInv, StreamTyped, Announced, TablesAgree, ToolsPending
  <2>4. CASE S!EndTools
    <3>1. /\ stage = "tools" /\ stage' = "asking" /\ unseen = {} /\ running = {} /\ idle' = {}
          /\ UNCHANGED <<unseen, running, used, pending, dropped>>
      BY <2>4 DEF S!EndTools, S!tables
    <3> QED BY <1>1, <2>0, <3>1 DEF StreamIInv, StreamTyped, Announced, TablesAgree, ToolsPending
  <2>5. ASSUME NEW c \in Call, S!BeginTool(c)
        PROVE  StreamTyped' /\ Announced' /\ TablesAgree' /\ ToolsPending'
    <3>1. /\ c \in idle /\ idle' = idle \ {c} /\ running' = running \cup {c}
          /\ UNCHANGED <<stage, unseen, used, pending, dropped>>
      BY <2>5 DEF S!BeginTool, S!tables
    <3> QED BY <1>1, <2>0, <3>1 DEF StreamIInv, StreamTyped, Announced, TablesAgree, ToolsPending
  <2>6. ASSUME NEW c \in Call, S!SendUpdate(c)
        PROVE  StreamTyped' /\ Announced' /\ TablesAgree' /\ ToolsPending'
    <3>1. UNCHANGED <<stage, unseen, idle, running, used, pending, dropped>>
      BY <2>6 DEF S!SendUpdate, S!tables
    <3> QED BY <1>1, <2>0, <3>1 DEF StreamIInv, StreamTyped, Announced, TablesAgree, ToolsPending
  <2> QED BY <2>1, <2>2, <2>3, <2>4, <2>5, <2>6
<1> QED BY <1>2, <1>3, <1>4 DEF StreamIInv

\* Some of the open calls fail, then the run.
LEMMA FailuresStep ==
  ASSUME StreamIInv, stage # "over", NEW P \in SUBSET open, open \subseteq P \cup dropped,
         NEW how \in S!Terminal, S!Emit(FailList(P, how), "over"), S!StopTools,
         pending' \subseteq Call, UNCHANGED <<buffered, dropped>>
  PROVE  StreamIInv' /\ (P = open => filed' = "complete")
<1> DEFINE es == FailList(P, how)
<1>0. open \in SUBSET Call /\ log \in Seq(S!Event) /\ ~S!Closed(log) /\ P \in SUBSET Call
  BY DEF StreamIInv, StreamTyped, Written, OpenOf
<1>1. /\ es \in Seq(S!Event) /\ Len(es) \in Nat \ {0} /\ Ends(es[Len(es)])
      /\ Fresh(log, es) /\ LastEnds(es) /\ StartedIn(es) = {}
      /\ \A i \in 1..Len(es) : i # Len(es) => Fits(open, log, es, i)
      /\ Fits(open, log, es, Len(es)) <=> open = P
  BY <1>0, FiniteCalls, FailListFits
<1> HIDE DEF es
<1>2. S!Emit(es, "over")
  BY DEF es
<1>3. /\ log' \in Seq(S!Event) /\ tail' \in Seq(S!Event) /\ Written'
      /\ StartedIn(log') \subseteq StartedIn(log) \cup StartedIn(es)
      /\ filed' = "incomplete" <=> \E i \in 1..Len(es) : ~Fits(open, log, es, i)
      /\ filed' \in {"open", "complete", "incomplete"}
      /\ stage' = IF filed' = "incomplete" THEN "over" ELSE "over"
      /\ stage' = "over" => S!Closed(S!Shown') /\ filed' # "open"
      /\ filed' = "complete" => S!Closed(log')
  <2>1. "over" \in {"asking", "tools", "over"} /\ Len(es) > 0
    BY <1>1
  <2> QED BY <1>1, <1>2, <2>1, EmitEffect DEF StreamIInv
<1>4. filed' = "incomplete" <=> open # P
  <2>1. Len(es) \in 1..Len(es)
    BY <1>1
  <2> QED BY <1>1, <1>3, <2>1
<1>5. /\ unseen' = {} /\ idle' = {} /\ running' = {} /\ used' = used /\ stage' = "over"
  BY <1>3 DEF S!StopTools
<1>6. EndKnown'
  BY <1>3, <1>4, <1>5 DEF EndKnown, StreamIInv
<1>7. StreamTyped' /\ Announced' /\ TablesAgree' /\ ToolsPending'
  BY <1>1, <1>3, <1>5 DEF StreamIInv, StreamTyped, Announced, TablesAgree, ToolsPending
<1> QED BY <1>3, <1>4, <1>5, <1>6, <1>7 DEF StreamIInv

\* One event of an open call: an update, or its resolution.
LEMMA OneEffect ==
  ASSUME StreamTyped, Written, stage # "over", NEW c \in open, NEW e \in S!Event,
         Updates(e, c) \/ S!Resolves(e, c), NEW to \in {"asking", "tools"}, S!Emit(<<e>>, to)
  PROVE  /\ log' \in Seq(S!Event) /\ tail' \in Seq(S!Event) /\ Written'
         /\ StartedIn(log') \subseteq StartedIn(log)
         /\ stage' = to /\ filed' = "open"
         /\ open' = IF S!Resolves(e, c) THEN open \ {c} ELSE open
<1>0. open \in SUBSET Call /\ log \in Seq(S!Event) /\ ~S!Closed(log) /\ filed = "open" /\ c \in Call
  BY DEF StreamTyped, Written, OpenOf
<1> DEFINE es == <<e>>
<1>1. /\ es \in Seq(S!Event) /\ Len(es) = 1 /\ es[1] = e
      /\ Fresh(log, es) /\ LastEnds(es) /\ StartedIn(es) = {}
      /\ \A i \in 1..Len(es) : ~Ends(es[i]) /\ Fits(open, log, es, i)
      /\ S!Resolves(e, c) => S!OpenAfter(open, es, 1) = (open \cap Call) \ {c}
      /\ Updates(e, c) => S!OpenAfter(open, es, 1) = open \cap Call
  BY <1>0, OneFits
<1>2. S!Emit(es, to)
  OBVIOUS
<1> HIDE DEF es
<1>3. to = "over" <=> Ends(es[Len(es)])
  BY <1>1
<1>4. /\ log' \in Seq(S!Event) /\ tail' \in Seq(S!Event) /\ Written'
      /\ StartedIn(log') \subseteq StartedIn(log) \cup StartedIn(es)
      /\ filed' = "incomplete" <=> \E i \in 1..Len(es) : ~Fits(open, log, es, i)
      /\ stage' = IF filed' = "incomplete" THEN "over" ELSE to
      /\ filed' # "incomplete" => open' = S!OpenAfter(open, es, Len(es))
  BY <1>1, <1>2, <1>3, EmitEffect
<1>5. filed' # "incomplete" /\ stage' = to
  BY <1>1, <1>4
<1>6. filed' = "open"
  BY <1>4, <1>5 DEF Written
<1>7. S!Resolves(e, c) => ~Updates(e, c)
  BY <1>0, EventCases
<1> QED BY <1>0, <1>1, <1>4, <1>5, <1>6, <1>7

\* The events of a call are events.
LEMMA OnIs ==
  ASSUME NEW c \in Call
  PROVE  /\ S!On("updated", c) \in S!Event /\ Updates(S!On("updated", c), c)
         /\ \A r \in {"succeeded", "failed"} : S!On(r, c) \in S!Event /\ S!Resolves(S!On(r, c), c)
         /\ ~S!Resolves(S!On("updated", c), c)
  BY DEF S!On, S!Event, Updates, S!Resolves, S!Resolution

\* Updates that are passed on, kept, or dropped.
LEMMA TakeUpdateStep == StreamIInv /\ S!TakeUpdate => StreamIInv'
<1> SUFFICES ASSUME StreamIInv, S!TakeUpdate PROVE StreamIInv'
  OBVIOUS
<1> DEFINE c == Head(queue)
<1>1. /\ stage = "tools" /\ UNCHANGED <<unseen, idle, running, used, pending, dropped>>
      /\ \/ c \in pending /\ S!Emit(<<S!On("updated", c)>>, "tools") /\ UNCHANGED buffered
         \/ UNCHANGED <<stage, open, log, tail, filed>> /\ (UNCHANGED buffered \/ buffered' = [buffered EXCEPT ![c] = @ + 1])
  BY DEF S!TakeUpdate, S!stream
<1> HIDE DEF c
<1>2. CASE c \in pending /\ S!Emit(<<S!On("updated", c)>>, "tools") /\ UNCHANGED buffered
  <2>1. c \in open /\ c \in Call
    BY <1>1, <1>2 DEF StreamIInv, StreamTyped, TablesAgree
  <2>2. /\ log' \in Seq(S!Event) /\ tail' \in Seq(S!Event) /\ Written'
        /\ StartedIn(log') \subseteq StartedIn(log)
        /\ stage' = "tools" /\ filed' = "open" /\ open' = open
    BY <1>1, <1>2, <2>1, OnIs, OneEffect DEF StreamIInv
  <2> QED BY <1>1, <1>2, <2>2 DEF StreamIInv, StreamTyped, Announced, TablesAgree, ToolsPending, EndKnown
<1>3. CASE /\ UNCHANGED <<stage, open, log, tail, filed>>
           /\ UNCHANGED buffered \/ buffered' = [buffered EXCEPT ![c] = @ + 1]
  <2>1. Written' /\ filed = "open"
    BY <1>1, <1>3, WrittenSame DEF StreamIInv, Written
  <2>2. buffered' \in [Call -> Nat]
    BY <1>3 DEF StreamIInv, StreamTyped
  <2> QED BY <1>1, <1>3, <2>1, <2>2 DEF StreamIInv, StreamTyped, Announced, TablesAgree, ToolsPending, EndKnown
<1> QED BY <1>1, <1>2, <1>3

\* A tool that runs belongs to a pending call, once all calls were announced.
LEMMA RunsPending ==
  ASSUME StreamIInv, stage = "tools", unseen = {}, NEW c \in running
  PROVE  c \in pending /\ c \in open /\ c \in Call
BY DEF StreamIInv, StreamTyped, ToolsPending, TablesAgree

\* A tool returns: its pending call is resolved.
LEMMA ResultStep == ASSUME StreamIInv, NEW c \in Call, S!Result(c) PROVE StreamIInv'
<1>1. /\ stage = "tools" /\ unseen = {} /\ c \in running /\ running' = running \ {c} /\ pending' = pending \ {c}
      /\ S!Emit(<<S!On("succeeded", c)>>, "tools") /\ UNCHANGED <<unseen, idle, used, buffered, dropped>>
  BY DEF S!Result
<1>2. c \in pending /\ c \in open
  BY <1>1, RunsPending
<1>3. /\ log' \in Seq(S!Event) /\ tail' \in Seq(S!Event) /\ Written'
      /\ StartedIn(log') \subseteq StartedIn(log)
      /\ stage' = "tools" /\ filed' = "open" /\ open' = open \ {c}
  BY <1>1, <1>2, OnIs, OneEffect DEF StreamIInv
<1> QED BY <1>1, <1>2, <1>3 DEF StreamIInv, StreamTyped, Announced, TablesAgree, ToolsPending, EndKnown

\* The attempt restarts after one call was resolved; the others are dropped.
LEMMA RestartStep ==
  ASSUME StreamIInv, stage = "tools", NEW c \in pending, S!Emit(<<S!On("succeeded", c)>>, "asking"), S!Restart,
         dropped' = dropped \cup (pending \ {c})
  PROVE  StreamIInv'
<1>1. /\ unseen' = {} /\ idle' = {} /\ running' = {} /\ UNCHANGED <<used, buffered>> /\ pending' = {}
  BY DEF S!Restart, S!StopTools
<1>2. c \in open /\ c \in Call
  BY DEF StreamIInv, StreamTyped, TablesAgree
<1>3. /\ log' \in Seq(S!Event) /\ tail' \in Seq(S!Event) /\ Written'
      /\ StartedIn(log') \subseteq StartedIn(log)
      /\ stage' = "asking" /\ filed' = "open" /\ open' = open \ {c}
  BY <1>2, OnIs, OneEffect DEF StreamIInv
<1> QED BY <1>1, <1>2, <1>3 DEF StreamIInv, StreamTyped, Announced, TablesAgree, ToolsPending, EndKnown

\* A tool asks for a retry: its call is resolved, the others are dropped.
LEMMA RetryResultStep == ASSUME StreamIInv, NEW c \in Call, S!RetryResult(c) PROVE StreamIInv'
<1>1. /\ stage = "tools" /\ unseen = {} /\ c \in running /\ S!Emit(<<S!On("succeeded", c)>>, "asking")
      /\ dropped' = dropped \cup (pending \ {c}) /\ S!Restart
  BY DEF S!RetryResult
<1>2. c \in pending
  BY <1>1, RunsPending
<1> QED BY <1>1, <1>2, RestartStep

\* The error is the result of the only pending call.
LEMMA RecoverableErrorStep == ASSUME StreamIInv, NEW c \in Call, S!RecoverableError(c) PROVE StreamIInv'
<1>1. PICK p \in pending : S!Emit(<<S!On("succeeded", p)>>, "asking")
  BY DEF S!RecoverableError
<1>2. stage = "tools" /\ S!Cardinality(pending) = 1 /\ S!Restart /\ dropped' = dropped
  BY DEF S!RecoverableError
<1>3. pending \ {p} = {}
  <2>1. IsFiniteSet(pending) /\ Cardinality(pending) = 1
    BY <1>2, FiniteCalls DEF StreamIInv, StreamTyped, S!Cardinality, Cardinality
  <2>2. PICK x : pending = {x}
    BY <2>1, FS_Singleton
  <2> QED BY <1>1, <2>2
<1> QED BY <1>1, <1>2, <1>3, RestartStep

\* Events of a call to come, from its start.
LEMMA BegunEffect ==
  ASSUME StreamIInv, stage = "tools", NEW c \in unseen, NEW es \in Seq(S!Event), NEW n, Begins(es, c, n),
         NEW to \in {"asking", "tools", "over"}, to = "over" <=> Len(es) = n + 2, S!Emit(es, to)
  PROVE  /\ log' \in Seq(S!Event) /\ tail' \in Seq(S!Event) /\ Written'
         /\ StartedIn(log') \subseteq StartedIn(log) \cup {c}
         /\ stage' = to
         /\ filed' = "incomplete" <=> Len(es) = n + 2 /\ open # {}
         /\ filed' \in {"open", "complete", "incomplete"}
         /\ stage' = "over" => S!Closed(S!Shown') /\ filed' # "open"
         /\ filed' = "complete" => S!Closed(log')
         /\ filed' # "incomplete" => open' = IF Len(es) = n THEN open \cup {c} ELSE open
<1>0. /\ open \in SUBSET Call /\ log \in Seq(S!Event) /\ ~S!Closed(log)
      /\ c \in Call /\ c \notin StartedIn(log) /\ c \notin open
  BY DEF StreamIInv, StreamTyped, Written, Announced, OpenOf, StartedIn
<1>1. /\ Fresh(log, es) /\ LastEnds(es) /\ StartedIn(es) = {c}
      /\ \A i \in 1..Len(es) : ~Ends(es[i]) => Fits(open, log, es, i)
      /\ Ends(es[Len(es)]) => (Fits(open, log, es, Len(es)) <=> open = {})
      /\ Ends(es[Len(es)]) <=> Len(es) = n + 2
      /\ S!OpenAfter(open, es, Len(es)) = OpenThen(open, es, c, n)
  <2>1. c \in Call \ open
    BY <1>0
  <2>2. /\ Fresh(log, es) /\ LastEnds(es) /\ StartedIn(es) = {c}
        /\ \A i \in 1..Len(es) : ~Ends(es[i]) => Fits(open, log, es, i)
        /\ Ends(es[Len(es)]) => (Fits(open, log, es, Len(es)) <=> open = {})
        /\ Ends(es[Len(es)]) <=> Len(es) = n + 2
    BY <1>0, <2>1, StartFits
  <2>3. S!OpenAfter(open, es, Len(es)) = OpenThen(open, es, c, n)
    BY <1>0, StartOpensAll
  <2> QED BY <2>2, <2>3
<1>2. n \in Nat \ {0} /\ Len(es) \in Nat /\ n <= Len(es)
  BY LenProperties DEF Begins
<1>3. Len(es) > 0 /\ Len(es) \in 1..Len(es)
  BY <1>2
<1>4. to = "over" <=> Ends(es[Len(es)])
  BY <1>1, <1>3
<1>5. /\ log' \in Seq(S!Event) /\ tail' \in Seq(S!Event) /\ Written'
      /\ StartedIn(log') \subseteq StartedIn(log) \cup StartedIn(es)
      /\ filed' = "incomplete" <=> \E i \in 1..Len(es) : ~Fits(open, log, es, i)
      /\ filed' \in {"open", "complete", "incomplete"}
      /\ stage' = IF filed' = "incomplete" THEN "over" ELSE to
      /\ stage' = "over" => S!Closed(S!Shown') /\ filed' # "open"
      /\ filed' = "complete" => S!Closed(log')
      /\ filed' # "incomplete" => open' = S!OpenAfter(open, es, Len(es))
  BY <1>1, <1>3, <1>4, EmitEffect DEF StreamIInv
<1>6. filed' = "incomplete" <=> Len(es) = n + 2 /\ open # {}
  <2>1. \A i \in 1..Len(es) : Ends(es[i]) => i = Len(es)
    BY <1>1 DEF LastEnds
  <2>2. (\E i \in 1..Len(es) : ~Fits(open, log, es, i)) <=> Ends(es[Len(es)]) /\ open # {}
    BY <1>1, <1>3, <2>1
  <2> QED BY <1>1, <1>5, <2>2
<1> QED BY <1>1, <1>5, <1>6 DEF OpenThen

\* A call is announced, with the updates that came before it.
LEMMA StartCallStep == ASSUME StreamIInv, NEW c \in Call, S!StartCall(c) PROVE StreamIInv'
<1> DEFINE m == buffered[c]
           es == <<S!On("started", c)>> \o [i \in 1..m |-> S!On("updated", c)]
<1>1. /\ stage = "tools" /\ c \in unseen /\ unseen' = unseen \ {c} /\ pending' = pending \cup {c}
      /\ buffered' = [buffered EXCEPT ![c] = 0] /\ S!Emit(es, "tools")
      /\ UNCHANGED <<idle, running, used, dropped>>
  BY DEF S!StartCall, S!Drained
<1>2. m \in Nat
  BY DEF StreamIInv, StreamTyped
<1>3. /\ es \in Seq(S!Event) /\ Len(es) = m + 1
      /\ S!Starts(es[1], c) /\ \A i \in 2..(m + 1) : Updates(es[i], c)
  BY <1>2, BegunIs
<1> HIDE DEF es, m
<1>4. Begins(es, c, m + 1)
  BY <1>2, <1>3 DEF Begins
<1>5. /\ log' \in Seq(S!Event) /\ tail' \in Seq(S!Event) /\ Written'
      /\ StartedIn(log') \subseteq StartedIn(log) \cup {c}
      /\ stage' = "tools" /\ filed' # "incomplete" /\ filed' \in {"open", "complete", "incomplete"}
      /\ open' = open \cup {c}
  <2>1. "tools" = "over" <=> Len(es) = (m + 1) + 2
    BY <1>2, <1>3
  <2> QED BY <1>1, <1>2, <1>3, <1>4, <2>1, BegunEffect
<1>6. filed' = "open"
  BY <1>5 DEF Written
<1>7. buffered' \in [Call -> Nat]
  BY <1>1 DEF StreamIInv, StreamTyped
<1> QED BY <1>1, <1>5, <1>6, <1>7 DEF StreamIInv, StreamTyped, Announced, TablesAgree, ToolsPending, EndKnown

\* The same for a malformed call, with its resolution and perhaps the end of the run.
LEMMA MalformedCallStep == ASSUME StreamIInv, NEW c \in Call, S!MalformedCall(c) PROVE StreamIInv'
<1> DEFINE m == buffered[c]
           begun == <<S!On("started", c)>> \o [i \in 1..m |-> S!On("updated", c)]
           es1 == Append(begun, S!On("succeeded", c))
           es2 == begun \o <<S!On("failed", c), S!Over("run_failed")>>
<1>1. /\ stage = "tools" /\ c \in unseen /\ buffered' = [buffered EXCEPT ![c] = 0]
      /\ unseen' = {} /\ idle' = {} /\ running' = {} /\ used' = used /\ dropped' = dropped \cup pending
      /\ \/ S!Emit(es1, "asking") /\ pending' = {}
         \/ S!Emit(es2, "over") /\ UNCHANGED pending
  BY DEF S!MalformedCall, S!Drained, S!StopTools
<1>2. m \in Nat
  BY DEF StreamIInv, StreamTyped
<1>3. /\ begun \in Seq(S!Event) /\ Len(begun) = m + 1
      /\ S!Starts(begun[1], c) /\ \A i \in 2..(m + 1) : Updates(begun[i], c)
  BY <1>2, BegunIs
<1> HIDE DEF begun, m
<1>4. buffered' \in [Call -> Nat]
  BY <1>1 DEF StreamIInv, StreamTyped
<1>5. CASE S!Emit(es1, "asking") /\ pending' = {}
  <2>1. /\ es1 \in Seq(S!Event) /\ Len(es1) = m + 2
        /\ (\A i \in 1..(m + 1) : es1[i] = begun[i]) /\ es1[m + 2] = S!On("succeeded", c)
    <3>1. S!On("succeeded", c) \in S!Event
      BY OnIs
    <3> QED BY <1>2, <1>3, <3>1, AppendProperties
  <2> HIDE DEF es1
  <2>2. Begins(es1, c, m + 1)
    <3>1. /\ m + 1 \in Nat \ {0} /\ m + 1 <= Len(es1) /\ Len(es1) <= (m + 1) + 2 /\ ~(Len(es1) > (m + 1) + 1)
          /\ (m + 1) + 1 = m + 2 /\ 1 \in 1..(m + 1) /\ \A i \in 2..(m + 1) : i \in 1..(m + 1)
      BY <1>2, <2>1
    <3>2. S!Resolves(es1[m + 2], c)
      BY <2>1, OnIs
    <3> QED BY <1>3, <2>1, <3>1, <3>2 DEF Begins
  <2>3. /\ log' \in Seq(S!Event) /\ tail' \in Seq(S!Event) /\ Written'
        /\ StartedIn(log') \subseteq StartedIn(log) \cup {c}
        /\ stage' = "asking" /\ filed' # "incomplete" /\ filed' \in {"open", "complete", "incomplete"}
        /\ open' = open
    <3>1. "asking" = "over" <=> Len(es1) = (m + 1) + 2
      BY <1>2, <2>1
    <3>2. Len(es1) # m + 1
      BY <1>2, <2>1
    <3> QED BY <1>1, <1>2, <1>5, <2>1, <2>2, <3>1, <3>2, BegunEffect
  <2>4. filed' = "open"
    BY <2>3 DEF Written
  <2> QED BY <1>1, <1>4, <1>5, <2>3, <2>4 DEF StreamIInv, StreamTyped, Announced, TablesAgree, ToolsPending, EndKnown
<1>6. CASE S!Emit(es2, "over") /\ UNCHANGED pending
  <2> DEFINE z == <<S!On("failed", c), S!Over("run_failed")>>
  <2>0. z \in Seq(S!Event) /\ Len(z) = 2 /\ z[1] = S!On("failed", c) /\ z[2] = S!Over("run_failed")
    <3>1. S!On("failed", c) \in S!Event /\ S!Over("run_failed") \in S!Event
      BY OnIs DEF S!Over, S!Event, S!Terminal
    <3> QED BY <3>1
  <2> HIDE DEF z
  <2>1. /\ begun \o z \in Seq(S!Event) /\ Len(begun \o z) = Len(begun) + Len(z)
        /\ \A i \in 1..(Len(begun) + Len(z)) : (begun \o z)[i] = IF i <= Len(begun) THEN begun[i] ELSE z[i - Len(begun)]
    BY <1>3, <2>0, ConcatProperties
  <2>2. es2 = begun \o z
    BY DEF z
  <2> HIDE DEF es2
  <2>3. /\ es2 \in Seq(S!Event) /\ Len(es2) = (m + 1) + 2
        /\ \A i \in 1..((m + 1) + 2) : es2[i] = IF i <= m + 1 THEN begun[i] ELSE z[i - (m + 1)]
    BY <1>2, <1>3, <2>0, <2>1, <2>2
  <2>4. (\A i \in 1..(m + 1) : es2[i] = begun[i]) /\ es2[(m + 1) + 1] = z[1] /\ es2[(m + 1) + 2] = z[2]
    BY <1>2, <2>3
  <2>5. Begins(es2, c, m + 1)
    <3>1. /\ m + 1 \in Nat \ {0} /\ m + 1 <= Len(es2) /\ Len(es2) <= (m + 1) + 2
          /\ 1 \in 1..(m + 1) /\ \A i \in 2..(m + 1) : i \in 1..(m + 1)
      BY <1>2, <2>3
    <3>2. S!Resolves(es2[(m + 1) + 1], c) /\ Ends(es2[(m + 1) + 2])
      BY <2>0, <2>4, OnIs DEF S!Over, Ends, S!Terminal
    <3> QED BY <1>3, <2>4, <3>1, <3>2 DEF Begins
  <2>6. /\ log' \in Seq(S!Event) /\ tail' \in Seq(S!Event) /\ Written'
        /\ StartedIn(log') \subseteq StartedIn(log) \cup {c}
        /\ stage' = "over"
        /\ filed' = "incomplete" => open # {}
        /\ filed' \in {"open", "complete", "incomplete"}
        /\ S!Closed(S!Shown') /\ filed' # "open"
        /\ filed' = "complete" => S!Closed(log')
    BY <1>1, <1>2, <1>6, <2>3, <2>5, BegunEffect
  <2>7. filed' = "incomplete" => dropped' # {}
    BY <1>1, <2>6 DEF StreamIInv, TablesAgree
  <2> QED BY <1>1, <1>4, <1>6, <2>6, <2>7 DEF StreamIInv, StreamTyped, Announced, TablesAgree, ToolsPending, EndKnown
<1> QED BY <1>1, <1>5, <1>6

\* An error ends the run: what run.py has pending fails.
LEMMA FailStep == StreamIInv /\ stage # "over" /\ S!Fail => StreamIInv'
<1> SUFFICES ASSUME StreamIInv, stage # "over", S!Fail PROVE StreamIInv'
  OBVIOUS
<1>1. /\ S!StopTools /\ S!Emit(FailList(pending, "run_failed"), "over") /\ UNCHANGED <<pending, buffered, dropped>>
  BY DEF S!Fail, S!tables, FailList
<1>2. pending \in SUBSET open /\ open \subseteq pending \cup dropped /\ pending' \subseteq Call /\ "run_failed" \in S!Terminal
  BY <1>1 DEF StreamIInv, TablesAgree, StreamTyped, S!Terminal
<1> QED BY <1>1, <1>2, FailuresStep

\* The user's cancellation fails what the appender has open: nothing is left.
LEMMA CancelStep == StreamIInv /\ S!Cancel => StreamIInv' /\ filed' = "complete"
<1> SUFFICES ASSUME StreamIInv, S!Cancel PROVE StreamIInv' /\ filed' = "complete"
  OBVIOUS
<1>1. /\ stage # "over" /\ S!StopTools /\ S!Emit(FailList(open, "run_failed"), "over")
      /\ UNCHANGED <<pending, buffered, dropped>>
  BY DEF S!Cancel, S!tables, FailList
<1>2. pending' \subseteq Call /\ "run_failed" \in S!Terminal
  BY <1>1 DEF StreamIInv, StreamTyped, S!Terminal
<1>3. PICK P \in SUBSET open : P = open
  OBVIOUS
<1>4. S!Emit(FailList(P, "run_failed"), "over") /\ open \subseteq P \cup dropped
  BY <1>1, <1>3
<1> QED BY <1>1, <1>2, <1>3, <1>4, FailuresStep

\* The model answers in words: pending calls fail the run, buffered updates leave
\* it incomplete, and otherwise it succeeds.
LEMMA AnswerTextStep == StreamIInv /\ S!AnswerText => StreamIInv'
<1> SUFFICES ASSUME StreamIInv, S!AnswerText PROVE StreamIInv'
  OBVIOUS
<1>1. /\ stage = "asking" /\ stage # "over" /\ S!StopTools /\ UNCHANGED <<buffered, dropped>>
      /\ \/ S!Emit(FailList(pending, "run_failed"), "over") /\ pending' = {}
         \/ /\ pending = {} /\ pending' = {} /\ \E c \in Call : buffered[c] > 0
            /\ stage' = "over" /\ filed' = "incomplete" /\ tail' = FailList(open, "run_failed")
            /\ UNCHANGED <<open, log>>
         \/ pending = {} /\ pending' = {} /\ S!Emit(<<S!Over("run_succeeded")>>, "over")
  BY DEF S!AnswerText, S!tables, FailList
<1>2. /\ pending \in SUBSET open /\ open \subseteq pending \cup dropped /\ open \in SUBSET Call
      /\ "run_failed" \in S!Terminal /\ "run_succeeded" \in S!Terminal
  BY <1>1 DEF StreamIInv, TablesAgree, StreamTyped, Written, OpenOf, S!Terminal
<1>3. CASE S!Emit(FailList(pending, "run_failed"), "over") /\ pending' = {}
  <2>1. pending' \subseteq Call
    BY <1>3
  <2> QED BY <1>1, <1>2, <1>3, <2>1, FailuresStep
<1>4. CASE /\ pending = {} /\ pending' = {} /\ \E c \in Call : buffered[c] > 0
           /\ stage' = "over" /\ filed' = "incomplete" /\ tail' = FailList(open, "run_failed")
           /\ UNCHANGED <<open, log>>
  <2>1. tail' \in Seq(S!Event) /\ S!Sound(log \o tail') /\ S!Closed(log \o tail')
    <3>1. log \in Seq(S!Event) /\ S!Sound(log) /\ ~S!Closed(log) /\ open = OpenOf(log)
      BY <1>1 DEF StreamIInv, StreamTyped, Written
    <3> QED BY <1>2, <1>4, <3>1, FailuresComplete
  <2>2. S!Shown' = log \o tail' /\ StartedIn(log)' = StartedIn(log)
    BY <1>4 DEF S!Shown
  <2>3. unseen' = {} /\ idle' = {} /\ running' = {} /\ used' = used
    BY <1>1 DEF S!StopTools
  <2>4. Written'
    BY <1>4, <2>1, <2>2 DEF StreamIInv, Written
  <2> QED BY <1>1, <1>4, <2>1, <2>2, <2>3, <2>4
          DEF StreamIInv, StreamTyped, Announced, TablesAgree, ToolsPending, EndKnown
<1>5. CASE pending = {} /\ pending' = {} /\ S!Emit(<<S!Over("run_succeeded")>>, "over")
  <2>1. FailList({}, "run_succeeded") = <<S!Over("run_succeeded")>>
    <3> DEFINE es == FailList({}, "run_succeeded")
    <3>1. {} \in SUBSET Call /\ IsFiniteSet({})
      BY FS_EmptySet
    <3>2. PICK n \in Nat : \E f \in [1..n -> {}] :
             es \in Seq(S!Event) /\ Len(es) = n + 1 /\ es[n + 1] = S!Over("run_succeeded")
      BY <1>2, <3>1, FailListIs
    <3> HIDE DEF es
    <3>3. n = 0
      <4>1. 1 \in 1..n => FALSE
        BY <3>2
      <4> QED BY <4>1
    <3>4. es \in Seq(S!Event) /\ Len(es) = 1 /\ es[1] = S!Over("run_succeeded")
      BY <3>2, <3>3
    <3> QED BY <3>4 DEF es
  <2>2. pending' \subseteq Call /\ {} \in SUBSET open /\ open \subseteq {} \cup dropped
    BY <1>2, <1>5
  <2> QED BY <1>1, <1>2, <1>5, <2>1, <2>2, FailuresStep
<1> QED BY <1>1, <1>3, <1>4, <1>5

\* Every step of a run keeps the invariant, and cancellation completes the file.
LEMMA StreamStep ==
  StreamIInv /\ [S!Next]_S!vars => StreamIInv' /\ (S!Cancel => filed' = "complete")
<1> SUFFICES ASSUME StreamIInv, [S!Next]_S!vars PROVE StreamIInv'
  BY CancelStep
<1>1. CASE UNCHANGED S!vars
  <2>1. UNCHANGED <<stage, unseen, idle, running, used, pending, buffered, open, log, tail, filed, dropped>>
    BY <1>1 DEF S!vars, S!framework, S!tables, S!stream
  <2>2. S!Shown' = S!Shown /\ StartedIn(log)' = StartedIn(log)
    BY <2>1 DEF S!Shown
  <2>3. Written'
    BY <2>1, <2>2 DEF StreamIInv, Written
  <2> QED BY <2>1, <2>2, <2>3 DEF StreamIInv, StreamTyped, Announced, TablesAgree, ToolsPending, EndKnown
<1>2. CASE S!AnswerText
  BY <1>2, AnswerTextStep
<1>3. CASE S!AskError \/ S!ToolError
  <2>1. S!Fail /\ stage # "over"
    BY <1>3 DEF S!AskError, S!ToolError
  <2> QED BY <2>1, FailStep
<1>4. ASSUME NEW c \in Call, \/ S!StartCall(c) \/ S!MalformedCall(c) \/ S!Result(c)
                             \/ S!RetryResult(c) \/ S!RecoverableError(c)
      PROVE  StreamIInv'
  BY <1>4, StartCallStep, MalformedCallStep, ResultStep, RetryResultStep, RecoverableErrorStep
<1>5. CASE S!TakeUpdate
  BY <1>5, TakeUpdateStep
<1>6. CASE S!Cancel
  BY <1>6, CancelStep
<1>7. CASE \/ \E calls \in SUBSET Call : S!AnswerCalls(calls)
           \/ S!Recover \/ S!Compact \/ S!EndTools
           \/ \E c \in Call : S!BeginTool(c) \/ S!SendUpdate(c)
  BY <1>7, QuietStep
<1> QED BY <1>1, <1>2, <1>3, <1>4, <1>5, <1>6, <1>7 DEF S!Next

\* Every step of the pack is one of the run, or leaves the run as it is.
LEMMA StreamPart == [Next]_vars => [S!Next]_S!vars
BY DEF Next, vars, events, S!vars, S!attempt, S!framework, S!tables, S!stream

\* The invariant holds of every reachable state.
LEMMA StreamInvariance == Spec => []StreamIInv
<1>1. Init => StreamIInv
  BY StreamInit DEF Init
<1>2. StreamIInv /\ [Next]_vars => StreamIInv'
  BY StreamStep, StreamPart
<1> QED BY <1>1, <1>2, PTL DEF Spec

\* What the client sees of a run is well formed, however it ends: each call is
\* started once and resolved at most once, and the run ends once, with every call
\* resolved (run.py stream_run_events, session.py _complete_incomplete_run).
THEOREM ShownIsSound == Spec => []ShownSound
<1>1. StreamIInv => ShownSound
  BY DEF StreamIInv, Written, EndKnown, ShownSound, S!ShownSound
<1> QED BY <1>1, StreamInvariance, PTL

\* A complete run on disk obeys the contract, and a run is left incomplete only
\* when an attempt dropped calls or updates came for a call that never started
\* (session/jsonl.py _validate_event, session.py stream_session_run_events).
THEOREM FileIsSound == Spec => []FileSound
<1>1. StreamIInv => FileSound
  BY DEF StreamIInv, Written, EndKnown, FileSound, S!FileSound
<1> QED BY <1>1, StreamInvariance, PTL

\* Cancellation leaves a complete run, since it fails the calls the appender has
\* open, not those of run.py (session.py, the CancelledError branch).
THEOREM CancelsKeepFile == Spec => CancelKeepsFile
<1>1. StreamIInv /\ [Next]_vars => [S!Cancel => filed' = "complete"]_S!vars
  BY StreamStep, StreamPart
<1>2. Spec => [][S!Cancel => filed' = "complete"]_S!vars
  BY <1>1, StreamInvariance, PTL DEF Spec
<1> QED BY <1>2 DEF CancelKeepsFile, S!CancelKeepsFile

-----------------------------------------------------------------------------
(* The stores, of which StoreProofs has the proofs.                         *)

\* A behaviour that begins as the store of several runs is one of it.
LEMMA OneStore == Spec => (part = "one" /\ One!Spec) \/ [](~(part = "one"))
<1>1. Init /\ part = "one" => One!Init
  BY DEF Init
<1>2. /\ part = "one" /\ [Next]_vars => (part = "one")'
      /\ ~(part = "one") /\ [Next]_vars => (~(part = "one"))'
      /\ part = "one" /\ [Next]_vars => [One!Next]_One!vars
  BY DEF Next, vars, store, One!vars, One!disk, One!memory
<1>3. Spec => [](part = "one") \/ [](~(part = "one"))
  BY <1>2, PTL DEF Spec
<1> QED BY <1>1, <1>2, <1>3, PTL DEF Spec, One!Spec

\* And one that begins as the store with a fork is one of that.
LEMMA TwoStore == Spec => (part = "two" /\ Two!Spec) \/ [](~(part = "two"))
<1>1. Init /\ part = "two" => Two!Init
  BY DEF Init
<1>2. /\ part = "two" /\ [Next]_vars => (part = "two")'
      /\ ~(part = "two") /\ [Next]_vars => (~(part = "two"))'
      /\ part = "two" /\ [Next]_vars => [Two!Next]_Two!vars
  BY DEF Next, vars, store, Two!vars, Two!disk, Two!memory
<1>3. Spec => [](part = "two") \/ [](~(part = "two"))
  BY <1>2, PTL DEF Spec
<1> QED BY <1>1, <1>2, <1>3, PTL DEF Spec, Two!Spec

\* A run that finalize returned from stays in the file, from its first line to
\* its messages, whatever is appended later, whoever dies and whenever the power
\* goes (session/jsonl.py finalize, which syncs before it returns).
THEOREM FinalizedRunsStay == Spec => []Durable
<1>1. One!Spec => []One!Durable
  BY One!AlwaysDurable, BoundsHold DEF BoundsHold
<1>2. (One!Durable => Durable) /\ (~(part = "one") => Durable)
  BY DEF Durable
<1> QED BY <1>1, <1>2, OneStore, PTL

\* A compaction covers each run that stands before it (session/jsonl.py
\* append_compaction_to_session, compaction/trigger.py).
THEOREM CompactionsCover == Spec => []CompactionCovers
<1>1. One!Spec => []One!CompactionCovers
  BY One!AlwaysCovers, BoundsHold DEF BoundsHold
<1>2. (One!CompactionCovers => CompactionCovers) /\ (~(part = "one") => CompactionCovers)
  BY DEF CompactionCovers
<1> QED BY <1>1, <1>2, OneStore, PTL

\* A fork of a session that loads has the runs, the compaction and the grants of
\* its source, and neither its name nor its turn context (fork_session).
THEOREM ForksAreFaithful == Spec => []ForkFaithful
<1>1. One!Spec => []One!ForkFaithful
  BY One!ForksAlwaysFaithful, BoundsHold DEF BoundsHold
<1>2. (One!ForkFaithful => ForkFaithful) /\ (~(part = "one") => ForkFaithful)
  BY DEF ForkFaithful
<1> QED BY <1>1, <1>2, OneStore, PTL

\* The backend and the launcher, side by side, leave a store that can be used:
\* a session stops loading only when a run of it was abandoned, a fork copied a
\* broken source or a fault hit it, and two sessions share a name only when the
\* launcher gave it (session/jsonl.py load_session, rpc/session_store.py).
THEOREM StoreStaysUsable == Spec => []StoreUsable
<1>1. Two!Spec => []Two!StoreUsable
  BY Two!AlwaysUsable, BoundsHold DEF BoundsHold
<1>2. (Two!StoreUsable => StoreUsable) /\ (~(part = "two") => StoreUsable)
  BY DEF StoreUsable
<1> QED BY <1>1, <1>2, TwoStore, PTL

=============================================================================
