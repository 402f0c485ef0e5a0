----------------------------- MODULE TextTools ------------------------------
(***************************************************************************)
(* Pure algorithms of the tools, checked against what they promise: edit   *)
(* replaces one match of a text in a file, exact or else modulo line       *)
(* endings, trailing blanks and Unicode variants; ls and find cut their    *)
(* list and hint at a larger limit; shell keeps the tail of its output.    *)
(*                                                                         *)
(* Text is a sequence of characters: letters, a blank, the line feed, the  *)
(* carriage return, and one that normalization expands into two letters.   *)
(***************************************************************************)
EXTENDS Naturals, Sequences, FiniteSets, SequencesExt

CONSTANTS
  Char,      \* characters of a file; some of "f", "i", Blank, Lf, Cr, Wide
  MaxFile,   \* characters of the file
  MaxOld,    \* characters of old_text
  MaxNew,    \* characters of new_text
  MaxItems,  \* items of a listing
  Sizes,     \* bytes an item may have
  ByteCap,   \* bytes of a listing or tail
  LineCap    \* lines of a tail

VARIABLES
  file,     \* the file before the edit
  old, new, \* old_text and new_text
  result,   \* [kind, text]: what the edit did, "none" before it
  items,    \* sizes of the items to list
  limit,    \* limit of the next listing, 0 when no hint was given
  listed,   \* [shown, more, full]: items of the last listing, limit_hit, byte_limit_hit
  tail      \* [kept, part]: whole lines kept, and bytes of a line cut in two
editing == <<file, old, new, result>>
listing == <<items, limit, listed>>
vars == <<editing, listing, tail>>

Blank == "_"
Lf == "n"
Cr == "r"
Wide == "w"   \* a ligature: normalizes to "f", "i"

-----------------------------------------------------------------------------
\* Line endings

\* The carriage returns go: the pair and the single one become a line feed.
ToLf(s) ==
  LET kept == SelectSeq([i \in 1..Len(s) |-> i],
                        LAMBDA i : ~(s[i] = Lf /\ i > 1 /\ s[i - 1] = Cr))
  IN [k \in 1..Len(kept) |-> IF s[kept[k]] = Cr THEN Lf ELSE s[kept[k]]]

\* The file has the ending of its first line.
HasCrLf(s) ==
  \E i \in 2..Len(s) : s[i] = Lf /\ s[i - 1] = Cr /\ \A j \in 1..(i - 1) : s[j] # Lf

FromLf(s, crlf) ==
  IF crlf THEN FoldLeft(LAMBDA text, c : text \o (IF c = Lf THEN <<Cr, Lf>> ELSE <<c>>), <<>>, s)
  ELSE s

\* The normalized view of a text: its characters with the place of each.
View(s) ==
  LET Stripped(i) == s[i] = Blank /\ \E j \in i..Len(s) :
                       /\ \A k \in i..j : s[k] = Blank
                       /\ j = Len(s) \/ s[j + 1] = Lf
      Of(i) == IF Stripped(i) THEN <<>>
               ELSE IF s[i] = Wide THEN <<[c |-> "f", at |-> i], [c |-> "i", at |-> i]>>
               ELSE <<[c |-> s[i], at |-> i]>>
  IN FoldLeft(LAMBDA view, i : view \o Of(i), <<>>, [i \in 1..Len(s) |-> i])

Text(view) == [i \in 1..Len(view) |-> view[i].c]

\* Where sub begins in s, and how often str.count finds it, without overlaps.
Places(s, sub) == {i \in 1..(Len(s) + 1 - Len(sub)) : SubSeq(s, i, i + Len(sub) - 1) = sub}
Count(s, sub) ==
  IF sub = <<>> THEN Len(s) + 1
  ELSE FoldLeft(LAMBDA acc, i : IF i >= acc.next /\ i \in Places(s, sub)
                                THEN [n |-> acc.n + 1, next |-> i + Len(sub)] ELSE acc,
                [n |-> 0, next |-> 1], [i \in 1..Len(s) |-> i]).n

First(s, sub) == CHOOSE i \in Places(s, sub) : \A j \in Places(s, sub) : i <= j
ReplaceFirst(s, sub, by) ==
  LET i == First(s, sub) IN SubSeq(s, 1, i - 1) \o by \o SubSeq(s, i + Len(sub), Len(s))

-----------------------------------------------------------------------------
\* The text of the normalized content that the edit replaces.
Refused == [kind |-> "refused", text |-> <<>>]
Crashed == [kind |-> "crashed", text |-> <<>>]
Found(text) == [kind |-> "found", text |-> text]

\* Slip: the match ends where its last character begins.
MatchShort(content, sought) ==
  LET exact == Count(content, sought)
      view == View(content)
      loose == Text(View(sought))
      fuzzy == Count(Text(view), loose)
      from == First(Text(view), loose)
  IN IF exact = 1 THEN Found(sought)
     ELSE IF exact > 1 \/ fuzzy # 1 THEN Refused
     ELSE IF loose = <<>> THEN Crashed
     ELSE Found(SubSeq(content, view[from].at, view[from + Len(loose) - 1].at - 1))

\* One exact match, or else one of the normalized texts.  A sought text that
\* normalizes to nothing has one match in an empty view, whose place does not
\* exist.
Match(content, sought) ==
  LET exact == Count(content, sought)
      view == View(content)
      loose == Text(View(sought))
      fuzzy == Count(Text(view), loose)
      from == First(Text(view), loose)
  IN IF exact = 1 THEN Found(sought)
     ELSE IF exact > 1 \/ fuzzy # 1 THEN Refused
     ELSE IF loose = <<>> THEN Crashed
     ELSE Found(SubSeq(content, view[from].at, view[from + Len(loose) - 1].at))

\* execute_edit
Edit ==
  LET content == ToLf(file)
      match == Match(content, ToLf(old))
      updated == ReplaceFirst(content, match.text, ToLf(new))
  IN
  /\ result.kind = "none" /\ old # <<>>
  /\ result' =
       IF match.kind # "found" THEN match
       ELSE IF updated = content THEN Refused
       ELSE [kind |-> "edited", text |-> FromLf(updated, HasCrLf(file))]
  /\ UNCHANGED <<file, old, new, listing, tail>>

-----------------------------------------------------------------------------
Sum(s) == FoldLeft(LAMBDA sum, n : sum + n, 0, s)
Prefix(s, n) == SubSeq(s, 1, n)

\* The items that fit, and which limit cut the rest.  An item's bytes are those
\* the worker counts, its name and a newline: the slash that ls then puts behind
\* each directory is in no count.
Cut(s, count) ==
  LET Fits(n) == n <= count /\ Sum(Prefix(s, n)) <= ByteCap
      n == CHOOSE k \in 0..Len(s) : Fits(k) /\ (k = Len(s) \/ ~Fits(k + 1))
  IN [shown |-> n, more |-> n < Len(s) /\ n >= count, full |-> n < Len(s) /\ n < count]

\* One listing; the hint doubles what was shown.
List ==
  /\ limit # 0
  /\ listed' = Cut(items, limit)
  /\ limit' = IF listed'.more THEN listed'.shown * 2 ELSE 0
  /\ UNCHANGED <<items, editing, tail>>

\* The lines from the end that both caps allow.
TailLines(s) ==
  CHOOSE n \in 0..Len(s) :
    /\ n <= LineCap /\ Sum(SubSeq(s, Len(s) - n + 1, Len(s))) <= ByteCap
    /\ n = Len(s) \/ n = LineCap \/ Sum(SubSeq(s, Len(s) - n, Len(s))) > ByteCap

\* truncate_tail_text: when not even the last line fits, its last bytes are kept.
KeepTail ==
  /\ tail.kept = MaxItems + 1
  /\ tail' = [kept |-> TailLines(items),
              part |-> IF TailLines(items) = 0 /\ items # <<>> THEN ByteCap ELSE 0]
  /\ UNCHANGED <<editing, listing>>

-----------------------------------------------------------------------------
Texts(n) == UNION {[1..k -> Char] : k \in 0..n}
NoResult == [kind |-> "none", text |-> <<>>]
Init ==
  /\ tail = [kept |-> MaxItems + 1, part |-> 0]
  /\ listed = [shown |-> 0, more |-> TRUE, full |-> FALSE]
  /\ result = NoResult
  /\ \/ /\ file \in Texts(MaxFile) /\ old \in Texts(MaxOld) \ {<<>>} /\ new \in Texts(MaxNew)
        /\ items = <<>> /\ limit = 0
     \/ /\ items \in UNION {[1..n -> Sizes] : n \in 0..MaxItems} /\ limit \in 1..MaxItems
        /\ file = <<>> /\ old = <<>> /\ new = <<>>

Next == Edit \/ List \/ KeepTail
Spec == Init /\ [][Next]_vars

-----------------------------------------------------------------------------
Uniform(s) == ToLf(s) = s \/ FromLf(ToLf(s), TRUE) = s
Loose(s) == Text(View(ToLf(s)))
Narrow(s) == \A i \in DOMAIN s : s[i] # Wide

(* An edit replaces one place of the file that reads like old_text and     *)
(* keeps the bytes before and after it, in a file with one kind of line    *)
(* ending and without characters that normalize to several.                *)
EditKeepsRest ==
  result.kind = "edited" /\ Uniform(file) /\ Narrow(file) =>
    LET crlf == HasCrLf(file) IN
    \E from \in 1..(Len(file) + 1) : \E to \in (from - 1)..Len(file) :
      /\ Loose(SubSeq(file, from, to)) = Loose(old)
      /\ result.text = SubSeq(file, 1, from - 1) \o FromLf(ToLf(new), crlf)
                       \o SubSeq(file, to + 1, Len(file))

(* tools/edit.py, the description of the tool: "while preserving           *)
(* surrounding file content outside the replaced region".  Refuted: mixed  *)
(* line endings are all rewritten, and half of a ligature takes the other  *)
(* half with it.                                                           *)
EditPreservesOutside ==
  result.kind = "edited" =>
    LET crlf == HasCrLf(file) IN
    \E from \in 1..(Len(file) + 1) : \E to \in (from - 1)..Len(file) :
      /\ Loose(SubSeq(file, from, to)) = Loose(old)
      /\ result.text = SubSeq(file, 1, from - 1) \o FromLf(ToLf(new), crlf)
                       \o SubSeq(file, to + 1, Len(file))

(* A listing never exceeds its bytes, as the worker counts them (the slash *)
(* behind a directory is not among them), and who follows the hints gets   *)
(* every item or the notice that the bytes are used up; the tail of an     *)
(* output is within both caps and as long as they allow.                   *)
CutsAreTold ==
  /\ Sum(Prefix(items, listed.shown)) <= ByteCap
  /\ limit = 0 /\ items # <<>> => listed.shown = Len(items) \/ listed.full
  /\ tail.kept <= MaxItems =>
       /\ tail.kept <= LineCap /\ tail.kept <= Len(items)
       /\ Sum(SubSeq(items, Len(items) - tail.kept + 1, Len(items))) <= ByteCap
       /\ tail.kept = 0 /\ items # <<>> => items[Len(items)] > ByteCap /\ tail.part = ByteCap

\* No text is lost without a word: an edit keeps the rest, a cut is announced.
TextsKept == EditKeepsRest /\ CutsAreTold
=============================================================================
