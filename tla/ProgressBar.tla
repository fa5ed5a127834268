----------------------------- MODULE ProgressBar -----------------------------
(***************************************************************************)
(* renderBrailleBar (internal/report/status.go): valid servers from the    *)
(* left, invalid ones from the right, in runes of 8 points.  Both lengths  *)
(* are rounded on their own, so that together they may be one rune too     *)
(* long, which is then corrected: the gap between them is made by          *)
(* strings.Repeat, which panics if its count is negative.                  *)
(***************************************************************************)
EXTENDS Integers

CONSTANT TotalChrs    \* width of the bar in runes

ASSUME WidthAssumption == TotalChrs \in Nat /\ TotalChrs > 1

PtsPerChr == 8

TotalPts == TotalChrs * PtsPerChr

\* math.Round(scaleValue(n, total, TotalPts)).  Of a number that is computed in
\* floating point, either neighbour may be the nearest if it lies halfway.
Points(n, total) ==
  IF total = 0 THEN {0}
  ELSE {p \in 0 .. TotalPts :
          /\ 2 * total * p <= 2 * TotalPts * n + total
          /\ 2 * TotalPts * n <= 2 * total * p + total}

\* The runes of pts points, the last of them filled in part.
Runes(pts) == (pts + PtsPerChr - 1) \div PtsPerChr

Extra(pts) == pts % PtsPerChr

TrimValid(valid, invalid) ==
  [valid |-> Runes(valid) - 1, invalid |-> Runes(invalid)]

\* The side whose last rune is emptier.
TrimEmptier(valid, invalid) ==
  IF Extra(valid) >= Extra(invalid)
    THEN [valid |-> Runes(valid), invalid |-> Runes(invalid) - 1]
    ELSE [valid |-> Runes(valid) - 1, invalid |-> Runes(invalid)]

\* Which side loses a rune, given the points of both.
Trim(valid, invalid) ==
  IF Runes(valid) = 1
    THEN [valid |-> Runes(valid), invalid |-> Runes(invalid) - 1]
  ELSE IF Runes(invalid) = 1
    THEN [valid |-> Runes(valid) - 1, invalid |-> Runes(invalid)]
  ELSE IF Runes(valid) >= 2 /\ Runes(invalid) >= 2
    THEN TrimEmptier(valid, invalid)
  ELSE [valid |-> Runes(valid), invalid |-> Runes(invalid)]

\* The lengths of the two sides.
Bar(valid, invalid) ==
  IF Runes(valid) + Runes(invalid) > TotalChrs
    THEN Trim(valid, invalid)
    ELSE [valid |-> Runes(valid), invalid |-> Runes(invalid)]

-----------------------------------------------------------------------------
(* Properties of a bar, given the numbers of servers.                      *)

\* The sides leave a gap that is not negative, none once every server is done;
\* and a side with a point is not trimmed away.
Fits(valid, invalid, total) ==
  \A v \in Points(valid, total), i \in Points(invalid, total) :
    LET bar == Bar(v, i)
    IN  /\ bar.valid \in Nat /\ bar.invalid \in Nat
        /\ bar.valid + bar.invalid <= TotalChrs
        /\ valid + invalid = total /\ total > 0 => bar.valid + bar.invalid = TotalChrs
        /\ (v > 0 => bar.valid > 0) /\ (i > 0 => bar.invalid > 0)
=============================================================================
