------------------------------ MODULE GlobMatch ------------------------------
(***************************************************************************)
(* globMatch (internal/dns/template.go): does a pattern with '*' match a   *)
(* value, whatever the case of either.                                     *)
(*                                                                         *)
(* A value is a sequence of letters.  A pattern is given by what           *)
(* strings.Split(pattern, "*") returns: its segments, one more than it has *)
(* stars.  The function cuts the value from the left, segment by segment,  *)
(* and never goes back on a cut.                                           *)
(***************************************************************************)
EXTENDS Integers, Sequences, SequencesExt

\* strings.ToLower on the letters the models use.
LowerLetter(letter) ==
  CASE letter = "A" -> "a"
    [] letter = "B" -> "b"
    [] OTHER -> letter

Lower(word) == [k \in DOMAIN word |-> LowerLetter(word[k])]

LowerPattern(pattern) == [k \in DOMAIN pattern |-> Lower(pattern[k])]

HasStar(pattern) == Len(pattern) > 1

-----------------------------------------------------------------------------
(* The cuts.  A cut says whether the segments so far have been found, and  *)
(* what is left of the value behind them.                                  *)

After(word, n) == SubSeq(word, n + 1, Len(word))

\* The value must start with the first segment.
CutFirst(segment, str) ==
  [found |-> IsPrefix(segment, str), left |-> After(str, Len(segment))]

\* Where a segment occurs: what comes before it.
Occurrences(segment, str) ==
  {n \in 0 .. Len(str) - Len(segment) :
     SubSeq(str, n + 1, n + Len(segment)) = segment}

LastIndex(segment, str) ==
  CHOOSE n \in Occurrences(segment, str) :
    \A m \in Occurrences(segment, str) : n >= m

\* strings.Index: the leftmost occurrence.
Index(segment, str) ==
  CHOOSE n \in Occurrences(segment, str) :
    \A m \in Occurrences(segment, str) : n <= m

\* An intermediate segment: cut behind where it is found.
CutSegment(cut, segment) ==
  IF cut.found /\ Occurrences(segment, cut.left) # {}
    THEN [cut EXCEPT !.left = After(@, Index(segment, @) + Len(segment))]
    ELSE [cut EXCEPT !.found = FALSE]

\* After the first k segments.
CutTo(pattern, str, k) ==
  LET cut[j \in DOMAIN pattern] ==
        IF j = 1 THEN CutFirst(pattern[1], str) ELSE CutSegment(cut[j - 1], pattern[j])
  IN  cut[k]

\* What is left must end with the last segment.
Globs(pattern, value) ==
  LET parts == LowerPattern(pattern)
      str   == Lower(value)
      cut   == CutTo(parts, str, Len(parts) - 1)
  IN  IF HasStar(pattern)
        THEN cut.found /\ IsSuffix(Last(parts), cut.left)
        ELSE str = parts[1]

-----------------------------------------------------------------------------
(* The reference.                                                          *)

\* What a lower-cased pattern means: its segments occur in the value one after
\* the other without overlap, the first at the start and the last at the end.
Means(segments, str) ==
  LET n == Len(segments)
      EndOf(at, k) == at[k] + Len(segments[k])
  IN  \E at \in [1 .. n -> 0 .. Len(str)] :
        /\ at[1] = 0
        /\ EndOf(at, n) = Len(str)
        /\ \A k \in 1 .. n - 1 : EndOf(at, k) <= at[k + 1]
        /\ \A k \in 1 .. n : SubSeq(str, at[k] + 1, EndOf(at, k)) = segments[k]
=============================================================================
