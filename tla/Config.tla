------------------------------- MODULE Config -------------------------------
(***************************************************************************)
(* The inputs of DNSanity and the values it computes from them             *)
(* (internal/config/ and the loader in internal/dns/template.go).          *)
(*                                                                         *)
(* A file is given by what its lines hold, one after the other: servers or *)
(* entries of a template.  Comments, blanks and empty elements hold        *)
(* nothing.  A word "bad" is not what the reader expects, and a line that  *)
(* is "overlong" exceeds the buffer of bufio.Scanner: Scan gives up.       *)
(***************************************************************************)
EXTENDS Integers, Sequences, SequencesExt, FiniteSets

CONSTANTS
  MaxInt,          \* the largest int
  DefaultTemplate  \* what DEFAULT_TEMPLATE holds

ASSUME ConfigAssumption == MaxInt \in Nat /\ DefaultTemplate \in Seq(STRING)

\* Integers wrap around.
Wrap(n) == ((n + MaxInt + 1) % (2 * (MaxInt + 1))) - (MaxInt + 1)

-----------------------------------------------------------------------------
(* Reading.                                                                *)

\* The places that Scan reaches.
Reached(lines) == {k \in DOMAIN lines : \A j \in 1 .. k : lines[j] # "overlong"}

Scanned(lines) == SubSeq(lines, 1, Cardinality(Reached(lines)))

\* The servers of a list; none stands for an error, which an empty list is too.
\* That Scan gave up goes unnoticed.
ParseServerList(lines) ==
  LET elements == Scanned(lines)
  IN  IF "bad" \in ToSet(elements) THEN <<>> ELSE elements

\* The entries of a template; none stands for an error.
LoadTemplate(lines) ==
  IF {"bad", "overlong"} \cap ToSet(lines) # {} THEN <<>> ELSE lines

-----------------------------------------------------------------------------
(* Options.                                                                *)

Unset == -57005   \* -0xdead, the default of -threads and -max-poolsize

\* What -global-ratelimit implies for them.
AutoLimit(globRateLimit) == Wrap(20 * globRateLimit)

OrAuto(n, globRateLimit) == IF n = Unset THEN AutoLimit(globRateLimit) ELSE n

AtLeastZero(n) == n >= 0

AtLeastOne(n) == n >= 1

IsLimit(n) == n = Unset \/ AtLeastOne(n)

\* Of a rate, a float, only its class matters.
Rates == {"negative", "zero", "tiny", "usual", "NaN"}

\* time.Second / rate as a duration.  A tiny rate makes it exceed what an
\* integer can hold; it then becomes whatever the processor converts it to.
Intervals(rate) ==
  IF rate \in {"negative", "zero", "NaN"} THEN {0}
  ELSE IF rate = "tiny" THEN {-MaxInt - 1, MaxInt}
  ELSE {1}
=============================================================================
