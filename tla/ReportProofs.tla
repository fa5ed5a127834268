---------------------------- MODULE ReportProofs ----------------------------
(***************************************************************************)
(* Proofs about the status reporter, for every set of servers, height of   *)
(* the bar and choice of output files: no redraw erases a line that was    *)
(* printed, and once Stop has returned every line has arrived.             *)
(***************************************************************************)
EXTENDS Report, TLAPS

-----------------------------------------------------------------------------
(* Sequences of rows.                                                      *)

Rows == Lines \cup {BarRow, Blank, FinalLine}

\* The rows of the bar, blank rows and the final line are no lines of output.
LEMMA RowsDiffer == BarRow \notin Lines /\ Blank \notin Lines /\ FinalLine \notin Lines
<1>1. \A line \in Lines : line[1] \in {"address", "header", "dump"}
  BY DEF Lines, Address, Header, Dump
<1>2. BarRow[1] = "bar" /\ Blank[1] = "blank" /\ FinalLine[1] = "final"
  BY DEF BarRow, Blank, FinalLine
<1> QED BY <1>1, <1>2

\* The entries of a concatenation are those of its parts.
LEMMA EntriesConcat ==
  ASSUME NEW S, NEW a \in Seq(S), NEW b \in Seq(S)
  PROVE  /\ a \o b \in Seq(S)
         /\ Len(a \o b) = Len(a) + Len(b)
         /\ Entries(a \o b) = Entries(a) \cup Entries(b)
<1> DEFINE c == a \o b
<1>1. /\ c \in Seq(S)
      /\ Len(a) \in Nat /\ Len(b) \in Nat
      /\ Len(c) = Len(a) + Len(b)
      /\ DOMAIN a = 1 .. Len(a) /\ DOMAIN b = 1 .. Len(b) /\ DOMAIN c = 1 .. Len(a) + Len(b)
      /\ \A i \in 1 .. Len(a) : c[i] = a[i]
      /\ \A i \in Len(a) + 1 .. Len(a) + Len(b) : c[i] = b[i - Len(a)]
  OBVIOUS
<1> HIDE DEF c
<1>2. ASSUME NEW i \in DOMAIN c PROVE c[i] \in Entries(a) \cup Entries(b)
  <2>1. CASE i <= Len(a)
    BY <1>1, <2>1 DEF Entries
  <2>2. CASE i > Len(a)
    <3>1. i - Len(a) \in DOMAIN b /\ c[i] = b[i - Len(a)]
      BY <1>1, <2>2
    <3> QED BY <3>1 DEF Entries
  <2> QED BY <1>1, <2>1, <2>2
<1>3. ASSUME NEW i \in DOMAIN a PROVE a[i] \in Entries(c)
  BY <1>1 DEF Entries
<1>4. ASSUME NEW i \in DOMAIN b PROVE b[i] \in Entries(c)
  <2> DEFINE j == Len(a) + i
  <2>1. j \in Len(a) + 1 .. Len(a) + Len(b) /\ j - Len(a) = i /\ j \in DOMAIN c
    BY <1>1
  <2> HIDE DEF j
  <2>2. c[j] = b[i]
    BY <1>1, <2>1
  <2> QED BY <2>1, <2>2 DEF Entries
<1>5. Entries(c) = Entries(a) \cup Entries(b)
  BY <1>2, <1>3, <1>4 DEF Entries
<1> QED BY <1>1, <1>5 DEF c

\* The bar is BarHeight rows without an entry.
LEMMA BarIsRows ==
  /\ Bar \in Seq(Rows) /\ Len(Bar) = BarHeight
  /\ \A i \in 1 .. BarHeight : Bar[i] = BarRow
BY BarAssumption DEF Bar, Rows

\* The rows that the next redraw erases hold no line.
Erasable(rows) ==
  /\ Len(rows) >= BarHeight
  /\ \A i \in Len(rows) - BarHeight + 1 .. Len(rows) : rows[i] \notin Lines

\* The lines among rows are among more.
KeepsLines(rows, more) ==
  \A line \in Lines : line \in Entries(rows) => line \in Entries(more)

\* A redraw keeps the lines, adds the new ones and leaves a bar to erase.
LEMMA RedrawEffect ==
  ASSUME NEW rows \in Seq(Rows), Erasable(rows), NEW new \in Seq(Lines)
  PROVE  LET drawn == Redraw(rows, new)
         IN  /\ drawn \in Seq(Rows)
             /\ Erasable(drawn)
             /\ KeepsLines(rows, drawn)
             /\ Entries(new) \subseteq Entries(drawn)
<1> DEFINE kept  == Erase(rows)
           drawn == (kept \o new) \o Bar
           n     == Len(rows) - BarHeight
<1>1. n \in Nat /\ Len(rows) \in Nat /\ n <= Len(rows) /\ n + BarHeight = Len(rows)
  BY BarAssumption DEF Erasable
<1>2. kept \in Seq(Rows) /\ Len(kept) = n /\ \A i \in 1 .. n : kept[i] = rows[i]
  BY <1>1 DEF Erase
<1>3. new \in Seq(Rows)
  BY DEF Rows
<1> HIDE DEF kept
<1>4. /\ kept \o new \in Seq(Rows)
      /\ Entries(kept \o new) = Entries(kept) \cup Entries(new)
  BY <1>2, <1>3, EntriesConcat
<1>5. /\ drawn \in Seq(Rows)
      /\ Entries(drawn) = Entries(kept) \cup Entries(new) \cup Entries(Bar)
  <2> DEFINE front == kept \o new
  <2>1. front \in Seq(Rows) /\ Entries(front) = Entries(kept) \cup Entries(new)
    BY <1>4
  <2> HIDE DEF front
  <2>2. /\ front \o Bar \in Seq(Rows)
        /\ Entries(front \o Bar) = Entries(front) \cup Entries(Bar)
    BY <2>1, BarIsRows, EntriesConcat
  <2> QED BY <2>1, <2>2 DEF front
<1>6. Erasable(drawn)
  <2> DEFINE front == kept \o new
  <2>1. front \in Seq(Rows)
    BY <1>4
  <2> HIDE DEF front
  <2>2. /\ Len(front \o Bar) = Len(front) + BarHeight
        /\ Len(front) \in Nat
        /\ \A i \in Len(front) + 1 .. Len(front) + BarHeight : (front \o Bar)[i] = BarRow
    BY <2>1, BarIsRows, BarAssumption
  <2> QED BY <2>2, RowsDiffer, BarAssumption DEF Erasable, front
<1>7. KeepsLines(rows, drawn)
  <2> SUFFICES ASSUME NEW i \in DOMAIN rows, rows[i] \in Lines
               PROVE  rows[i] \in Entries(kept)
    BY <1>5 DEF KeepsLines, Entries
  <2>1. i \in 1 .. Len(rows)
    OBVIOUS
  <2>2. i <= n
    BY <1>1, <2>1 DEF Erasable
  <2>3. i \in 1 .. n /\ i \in DOMAIN kept
    BY <1>1, <1>2, <2>1, <2>2
  <2> QED BY <1>2, <2>3 DEF Entries
<1> QED BY <1>5, <1>6, <1>7 DEF Redraw, kept

\* Two blank rows below the bar are no lines either.
LEMMA EndedEffect ==
  ASSUME NEW rows \in Seq(Rows), Erasable(rows)
  PROVE  LET ended == Ended(rows)
         IN  /\ ended \in Seq(Rows)
             /\ Erasable(ended)
             /\ Entries(rows) \subseteq Entries(ended)
<1> DEFINE ended == Ended(rows)
<1>1. <<Blank, Blank>> \in Seq(Rows)
  BY DEF Rows
<1>2. ended \in Seq(Rows) /\ Entries(rows) \subseteq Entries(ended)
  <2> DEFINE tail == <<Blank, Blank>>
  <2> HIDE DEF tail
  <2>1. tail \in Seq(Rows)
    BY <1>1 DEF tail
  <2>2. rows \o tail \in Seq(Rows) /\ Entries(rows \o tail) = Entries(rows) \cup Entries(tail)
    BY <2>1, EntriesConcat
  <2> QED BY <2>2 DEF Ended, tail
<1>3. /\ Len(rows) \in Nat
      /\ Len(ended) = Len(rows) + 2
      /\ \A i \in 1 .. Len(rows) : ended[i] = rows[i]
      /\ ended[Len(rows) + 1] = Blank /\ ended[Len(rows) + 2] = Blank
  BY <1>1 DEF Ended
<1> HIDE DEF ended
<1>4. ASSUME NEW i \in Len(ended) - BarHeight + 1 .. Len(ended) PROVE ended[i] \notin Lines
  <2>1. CASE i <= Len(rows)
    <3>1. i \in Len(rows) - BarHeight + 1 .. Len(rows) /\ i \in 1 .. Len(rows)
      BY <1>3, <2>1, BarAssumption DEF Erasable
    <3> QED BY <1>3, <3>1 DEF Erasable
  <2>2. CASE i > Len(rows)
    <3>1. i = Len(rows) + 1 \/ i = Len(rows) + 2
      BY <1>3, <2>2, BarAssumption
    <3> QED BY <1>3, <3>1, RowsDiffer
  <2> QED BY <1>3, <2>1, <2>2, BarAssumption
<1>5. Erasable(ended)
  BY <1>3, <1>4, BarAssumption DEF Erasable
<1> QED BY <1>2, <1>5 DEF ended

\* The final line takes the place of a row that is no line.
LEMMA PrintAtEffect ==
  ASSUME NEW rows \in Seq(Rows), Erasable(rows)
  PROVE  LET printed == PrintAt(rows, FinalLine)
         IN  /\ printed \in Seq(Rows)
             /\ Erasable(printed)
             /\ KeepsLines(rows, printed)
<1> DEFINE over    == [rows EXCEPT ![Len(rows)] = FinalLine]
           printed == over \o <<Blank>>
<1>1. Len(rows) \in Nat /\ Len(rows) > 2 /\ DOMAIN rows = 1 .. Len(rows)
  BY BarAssumption DEF Erasable
<1>2. /\ over \in Seq(Rows) /\ Len(over) = Len(rows)
      /\ over[Len(rows)] = FinalLine
      /\ \A i \in 1 .. Len(rows) - 1 : over[i] = rows[i]
  BY <1>1 DEF Rows
<1>3. <<Blank>> \in Seq(Rows)
  BY DEF Rows
<1> HIDE DEF over
<1>4. printed \in Seq(Rows) /\ Entries(printed) = Entries(over) \cup Entries(<<Blank>>)
  BY <1>2, <1>3, EntriesConcat, ZenonT(40)
<1>5. /\ Len(printed) = Len(rows) + 1
      /\ \A i \in 1 .. Len(rows) : printed[i] = over[i]
      /\ printed[Len(rows) + 1] = Blank
  BY <1>1, <1>2, <1>3
<1> HIDE DEF printed
<1>6. rows[Len(rows)] \notin Lines
  BY <1>1, BarAssumption DEF Erasable
<1>7. ASSUME NEW i \in Len(printed) - BarHeight + 1 .. Len(printed)
      PROVE  printed[i] \notin Lines
  <2>1. CASE i < Len(rows)
    <3>1. i \in Len(rows) - BarHeight + 1 .. Len(rows) /\ i \in 1 .. Len(rows) - 1
      BY <1>1, <1>5, <2>1, BarAssumption DEF Erasable
    <3> QED BY <1>1, <1>2, <1>5, <3>1 DEF Erasable
  <2>2. CASE i = Len(rows)
    <3>1. Len(rows) \in 1 .. Len(rows)
      BY <1>1
    <3>2. printed[i] = FinalLine
      BY <1>2, <1>5, <2>2, <3>1
    <3> QED BY <3>2, RowsDiffer
  <2>3. CASE i = Len(rows) + 1
    BY <1>5, <2>3, RowsDiffer
  <2>4. i \in Int /\ i <= Len(rows) + 1
    BY <1>1, <1>5, BarAssumption
  <2>5. \/ i < Len(rows) \/ i = Len(rows) \/ i = Len(rows) + 1
    <3>1. Len(rows) \in Nat
      BY <1>1
    <3> QED BY <2>4, <3>1
  <2> QED BY <2>1, <2>2, <2>3, <2>5, Zenon
<1>8. Erasable(printed)
  BY <1>1, <1>5, <1>7, BarAssumption DEF Erasable
<1>9. KeepsLines(rows, printed)
  <2> SUFFICES ASSUME NEW i \in DOMAIN rows, rows[i] \in Lines
               PROVE  rows[i] \in Entries(over)
    BY <1>4 DEF KeepsLines, Entries
  <2>1. i \in 1 .. Len(rows) - 1
    BY <1>1, <1>6
  <2>2. i \in DOMAIN over /\ over[i] = rows[i]
    BY <1>1, <1>2, <2>1
  <2> QED BY <2>2 DEF Entries
<1> QED BY <1>4, <1>8, <1>9 DEF PrintAt, printed, over

-----------------------------------------------------------------------------
(* Where the lines are.                                                    *)

Mains == {"run", "stopTicker", "render", "writeFinal", "clear", "stopped", "done"}

ReportTypes ==
  /\ cacheStr \in Seq(Lines)
  /\ tty \in Seq(Rows)
  /\ output \in Seq(Lines)
  /\ verbose \in Seq(Lines)
  /\ outcome \in [Servers -> Outcomes \cup {"none"}]
  /\ written \in [main : Seq(Lines), loop : Seq(Lines)]
  /\ main \in Mains
  /\ mu \in {"free", "loop"}

\* The lines of a reported server are on the terminal, in their file or in
\* the cache.
LinesKept ==
  \A s \in Servers :
    outcome[s] # "none" =>
      /\ ~Dropped(outcome[s]) =>
           Address(s) \in Entries(tty) \cup Entries(output) \cup Entries(cacheStr)
      /\ Dump(s, outcome[s]) \in Entries(tty) \cup Entries(verbose) \cup Entries(cacheStr)

\* Whoever is about to clear the cache has it in its hands or has written it.
\* Stop takes no lock, but nobody adds to the cache any more by then.
CacheWritten ==
  /\ mu = "loop" <=> loop \in {"write", "unlock"}
  /\ loop = "write" => Entries(cacheStr) \subseteq Entries(written.loop)
  /\ loop = "unlock" => Entries(cacheStr) \subseteq Entries(tty)
  /\ main = "writeFinal" => Entries(cacheStr) \subseteq Entries(written.main)
  /\ main = "clear" => Entries(cacheStr) \subseteq Entries(tty)
  /\ main \in {"stopped", "done"} => Entries(cacheStr) = {}
  /\ main # "run" => \A s \in Servers : outcome[s] # "none"

Inv == ReportTypes /\ Erasable(tty) /\ LinesKept /\ CacheWritten

\* An empty cache or file has no line.
LEMMA EmptyEntries == <<>> \in Seq(Lines) /\ Entries(<<>>) = {}
<1>1. <<>> \in Seq(Lines)
  OBVIOUS
<1> QED BY <1>1 DEF Entries

\* The invariant holds at first.
LEMMA InitInv == Init => Inv
<1> SUFFICES ASSUME Init PROVE Inv
  OBVIOUS
<1>1. ReportTypes
  BY EmptyEntries, BarIsRows DEF Init, ReportTypes, Mains
<1>2. Erasable(tty)
  BY BarIsRows, RowsDiffer, BarAssumption DEF Init, Erasable
<1> QED BY <1>1, <1>2 DEF Inv, Init, LinesKept, CacheWritten

\* What one report appends, to the cache and to the files.
LEMMA ReportedLines ==
  ASSUME NEW s \in Servers, NEW o \in Outcomes
  PROVE  /\ OutputLines(s, o) \in Seq(Lines) /\ VerboseLines(s, o) \in Seq(Lines)
         /\ Cached(s, o) \in Seq(Lines)
         /\ ~Dropped(o) => Address(s) \in Entries(OutputLines(s, o))
         /\ Dump(s, o) \in Entries(VerboseLines(s, o))
         /\ OutputOnTTY => Entries(OutputLines(s, o)) \subseteq Entries(Cached(s, o))
         /\ VerboseOnTTY => Entries(VerboseLines(s, o)) \subseteq Entries(Cached(s, o))
<1> DEFINE A == Address(s)
           D == Dump(s, o)
           out == OutputLines(s, o)
           dump == VerboseLines(s, o)
<1>1. A \in Lines /\ D \in Lines /\ Header \in Lines
  BY DEF Lines
<1> HIDE DEF A, D
<1>2. /\ <<A>> \in Seq(Lines) /\ A \in Entries(<<A>>)
      /\ <<D>> \in Seq(Lines) /\ D \in Entries(<<D>>)
  BY <1>1 DEF Entries
<1>3. <<Header, D>> \in Seq(Lines) /\ D \in Entries(<<Header, D>>)
  <2>1. <<Header, D>> \in Seq(Lines) /\ 2 \in DOMAIN <<Header, D>> /\ <<Header, D>>[2] = D
    BY <1>1
  <2> QED BY <2>1 DEF Entries
<1>4. out \in Seq(Lines) /\ (~Dropped(o) => A \in Entries(out))
  BY <1>2, EmptyEntries DEF OutputLines, A
<1>5. dump \in Seq(Lines) /\ D \in Entries(dump)
  BY <1>2, <1>3 DEF VerboseLines, D
<1> DEFINE x == IF OutputOnTTY THEN out ELSE <<>>
           y == IF VerboseOnTTY THEN dump ELSE <<>>
<1>6. x \in Seq(Lines) /\ y \in Seq(Lines)
  BY <1>4, <1>5, EmptyEntries
<1>7. Cached(s, o) = x \o y
  BY DEF Cached
<1>8. (OutputOnTTY => x = out) /\ (VerboseOnTTY => y = dump)
  OBVIOUS
<1> HIDE DEF x, y
<1>9. x \o y \in Seq(Lines) /\ Entries(x \o y) = Entries(x) \cup Entries(y)
  BY <1>6, EntriesConcat
<1> QED BY <1>4, <1>5, <1>7, <1>8, <1>9 DEF A, D

\* What a step does to the terminal: it keeps every line.
LEMMA TerminalKeepsLines ==
  ASSUME ReportTypes, Erasable(tty), [Next]_vars
  PROVE  tty' \in Seq(Rows) /\ Erasable(tty') /\ KeepsLines(tty, tty')
<1>a. tty \in Seq(Rows) /\ written.main \in Seq(Lines) /\ written.loop \in Seq(Lines)
  BY DEF ReportTypes
<1>1. CASE WriteFinal
  <2> DEFINE drawn == Redraw(tty, written.main)
  <2>1. drawn \in Seq(Rows) /\ Erasable(drawn) /\ KeepsLines(tty, drawn)
    BY <1>a, RedrawEffect
  <2>2. tty' = Ended(drawn)
    BY <1>1 DEF WriteFinal
  <2> HIDE DEF drawn
  <2> QED BY <2>1, <2>2, EndedEffect DEF KeepsLines
<1>2. CASE LoopWrite
  <2>1. tty' = Redraw(tty, written.loop)
    BY <1>2 DEF LoopWrite
  <2> QED BY <1>a, <2>1, RedrawEffect
<1>3. CASE PrintReport
  <2>1. tty' = PrintAt(tty, FinalLine)
    BY <1>3 DEF PrintReport
  <2> QED BY <1>a, <2>1, PrintAtEffect
<1>4. CASE tty' = tty
  BY <1>a, <1>4 DEF KeepsLines
<1>5. \/ WriteFinal \/ LoopWrite \/ PrintReport \/ tty' = tty
  BY DEF Next, MainStep, LoopStep, ReportFinishedServer, CloseQuit, StopTicker, RenderFinal,
         ClearCache, Tick, ReceiveTick, LoopLock, LoopUnlock, LoopReturn, Terminated, vars
<1> QED BY <1>1, <1>2, <1>3, <1>4, <1>5

\* Every step keeps the invariant.
LEMMA NextInv == Inv /\ [Next]_vars => Inv'
<1> SUFFICES ASSUME Inv, [Next]_vars PROVE Inv'
  OBVIOUS
<1>a. ReportTypes /\ Erasable(tty) /\ LinesKept /\ CacheWritten
  BY DEF Inv
<1>b. /\ tty' \in Seq(Rows) /\ Erasable(tty')
      /\ \A line \in Lines : line \in Entries(tty) => line \in Entries(tty')
  BY <1>a, TerminalKeepsLines DEF KeepsLines
<1>c. \A s \in Servers : Address(s) \in Lines /\ \A o \in Outcomes : Dump(s, o) \in Lines
  BY DEF Lines
<1>d. Entries(cacheStr) \subseteq Lines
  BY <1>a DEF ReportTypes, Entries
\* A step that neither reports nor clears the cache loses no line.
<1>e. ASSUME UNCHANGED <<outcome, output, verbose>>,
             \/ cacheStr' = cacheStr
             \/ Entries(cacheStr) \subseteq Entries(tty)
      PROVE  LinesKept'
  <2> SUFFICES ASSUME NEW s \in Servers, outcome[s] # "none"
               PROVE  /\ ~Dropped(outcome[s]) =>
                           Address(s) \in Entries(tty') \cup Entries(output)
                                            \cup Entries(cacheStr')
                      /\ Dump(s, outcome[s]) \in Entries(tty') \cup Entries(verbose)
                                                   \cup Entries(cacheStr')
    BY <1>e DEF LinesKept
  <2>1. outcome[s] \in Outcomes
    BY <1>a DEF ReportTypes
  <2> QED BY <1>a, <1>b, <1>c, <1>e, <2>1 DEF LinesKept
<1>1. ASSUME NEW s \in Servers, NEW o \in Outcomes, ReportFinishedServer(s, o)
      PROVE  Inv'
  <2>1. /\ main = "run" /\ mu = "free" /\ outcome[s] = "none"
        /\ outcome' = [outcome EXCEPT ![s] = o]
        /\ cacheStr' = cacheStr \o Cached(s, o)
        /\ output' = IF OutputOnTTY THEN output ELSE output \o OutputLines(s, o)
        /\ verbose' = IF VerboseOnTTY THEN verbose ELSE verbose \o VerboseLines(s, o)
        /\ UNCHANGED <<mu, tty, main, loop, written>>
    BY <1>1 DEF ReportFinishedServer, MainMayLock
  <2>2. /\ OutputLines(s, o) \in Seq(Lines) /\ VerboseLines(s, o) \in Seq(Lines)
        /\ Cached(s, o) \in Seq(Lines)
        /\ ~Dropped(o) => Address(s) \in Entries(OutputLines(s, o))
        /\ Dump(s, o) \in Entries(VerboseLines(s, o))
        /\ OutputOnTTY => Entries(OutputLines(s, o)) \subseteq Entries(Cached(s, o))
        /\ VerboseOnTTY => Entries(VerboseLines(s, o)) \subseteq Entries(Cached(s, o))
    BY ReportedLines
  <2>3. /\ cacheStr' \in Seq(Lines)
        /\ Entries(cacheStr') = Entries(cacheStr) \cup Entries(Cached(s, o))
    BY <2>1, <2>2, <1>a, EntriesConcat DEF ReportTypes
  <2>4. /\ output' \in Seq(Lines)
        /\ Entries(output) \subseteq Entries(output')
        /\ ~OutputOnTTY => Entries(OutputLines(s, o)) \subseteq Entries(output')
    BY <2>1, <2>2, <1>a, EntriesConcat DEF ReportTypes
  <2>5. /\ verbose' \in Seq(Lines)
        /\ Entries(verbose) \subseteq Entries(verbose')
        /\ ~VerboseOnTTY => Entries(VerboseLines(s, o)) \subseteq Entries(verbose')
    BY <2>1, <2>2, <1>a, EntriesConcat DEF ReportTypes
  <2>6. ReportTypes'
    BY <2>1, <2>3, <2>4, <2>5, <1>a DEF ReportTypes
  <2>7. /\ outcome'[s] = o
        /\ \A t \in Servers \ {s} : outcome'[t] = outcome[t]
    BY <2>1, <1>a DEF ReportTypes
  <2>8. LinesKept'
    <3>1. ASSUME NEW t \in Servers, outcome'[t] # "none"
          PROVE  /\ ~Dropped(outcome'[t]) =>
                      Address(t) \in Entries(tty') \cup Entries(output')
                                       \cup Entries(cacheStr')
                 /\ Dump(t, outcome'[t]) \in Entries(tty') \cup Entries(verbose')
                                               \cup Entries(cacheStr')
      <4>1. CASE t = s
        BY <4>1, <2>2, <2>3, <2>4, <2>5, <2>7
      <4>2. CASE t # s
        BY <3>1, <4>2, <2>1, <2>3, <2>4, <2>5, <2>7, <1>a DEF LinesKept
      <4> QED BY <4>1, <4>2
    <3> QED BY <3>1 DEF LinesKept
  <2>9. CacheWritten'
    BY <2>1, <1>a DEF CacheWritten
  <2> QED BY <2>1, <2>6, <2>8, <2>9, <1>a DEF Inv
<1>2. ASSUME CloseQuit \/ StopTicker PROVE Inv'
  <2>1. UNCHANGED <<mu, cacheStr, tty, output, verbose, outcome, loop, written>>
    BY <1>2 DEF CloseQuit, StopTicker, fileVars
  <2>2. /\ main' \in {"stopTicker", "render"}
        /\ \A s \in Servers : outcome[s] # "none"
    BY <1>2, <1>a DEF CloseQuit, StopTicker, CacheWritten
  <2>3. ReportTypes'
    BY <2>1, <2>2, <1>a DEF ReportTypes, Mains
  <2>4. CacheWritten'
    BY <2>1, <2>2, <1>a DEF CacheWritten
  <2> QED BY <2>1, <2>3, <2>4, <1>b, <1>e DEF Inv
<1>3. ASSUME RenderFinal PROVE Inv'
  <2>1. /\ UNCHANGED <<mu, cacheStr, tty, output, verbose, outcome, loop>>
        /\ main = "render" /\ main' = "writeFinal"
        /\ written' = [written EXCEPT !.main = cacheStr]
    BY <1>3 DEF RenderFinal, fileVars
  <2>2. /\ written'.main = cacheStr /\ written'.loop = written.loop
        /\ written' \in [main : Seq(Lines), loop : Seq(Lines)]
    BY <2>1, <1>a DEF ReportTypes
  <2>3. ReportTypes'
    BY <2>1, <2>2, <1>a DEF ReportTypes, Mains
  <2>4. CacheWritten'
    BY <2>1, <2>2, <1>a DEF CacheWritten
  <2> QED BY <2>1, <2>3, <2>4, <1>b, <1>e DEF Inv
<1>4. ASSUME WriteFinal PROVE Inv'
  <2>1. /\ UNCHANGED <<mu, cacheStr, output, verbose, outcome, loop>>
        /\ main = "writeFinal" /\ main' = "clear"
        /\ tty' = Ended(Redraw(tty, written.main))
        /\ written' = [written EXCEPT !.main = <<>>]
    BY <1>4 DEF WriteFinal, fileVars
  <2>2. /\ written'.loop = written.loop
        /\ written' \in [main : Seq(Lines), loop : Seq(Lines)]
    BY <2>1, <1>a, EmptyEntries DEF ReportTypes
  <2>3. Entries(written.main) \subseteq Entries(tty')
    <3> DEFINE drawn == Redraw(tty, written.main)
    <3>1. written.main \in Seq(Lines) /\ tty \in Seq(Rows)
      BY <1>a DEF ReportTypes
    <3>2. /\ drawn \in Seq(Rows) /\ Erasable(drawn)
          /\ Entries(written.main) \subseteq Entries(drawn)
      BY <1>a, <3>1, RedrawEffect
    <3> HIDE DEF drawn
    <3>3. Entries(drawn) \subseteq Entries(Ended(drawn))
      BY <3>2, EndedEffect
    <3> QED BY <2>1, <3>2, <3>3 DEF drawn
  <2>4. ReportTypes'
    BY <2>1, <2>2, <1>a, <1>b DEF ReportTypes, Mains
  <2>5. Entries(cacheStr) \subseteq Entries(tty')
    BY <2>1, <2>3, <1>a DEF CacheWritten
  <2>6. CacheWritten'
    BY <2>1, <2>2, <2>5, <1>a DEF CacheWritten
  <2> QED BY <2>1, <2>4, <2>6, <1>b, <1>e DEF Inv
<1>5. ASSUME ClearCache PROVE Inv'
  <2>1. /\ UNCHANGED <<mu, tty, output, verbose, outcome, loop, written>>
        /\ main = "clear" /\ main' = "stopped"
        /\ cacheStr' = <<>>
    BY <1>5 DEF ClearCache, fileVars
  <2>2. cacheStr' \in Seq(Lines) /\ Entries(cacheStr') = {}
    BY <2>1, EmptyEntries
  <2>3. ReportTypes'
    BY <2>1, <2>2, <1>a DEF ReportTypes, Mains
  <2>4. CacheWritten'
    BY <2>1, <2>2, <1>a DEF CacheWritten
  <2>5. LinesKept'
    BY <2>1, <1>a, <1>e DEF CacheWritten
  <2> QED BY <2>3, <2>4, <2>5, <1>b DEF Inv
<1>6. ASSUME PrintReport PROVE Inv'
  <2>1. /\ UNCHANGED <<mu, cacheStr, output, verbose, outcome, loop, written>>
        /\ main = "stopped" /\ main' = "done"
    BY <1>6 DEF PrintReport, fileVars
  <2>2. ReportTypes'
    BY <2>1, <1>a, <1>b DEF ReportTypes, Mains
  <2>3. CacheWritten'
    BY <2>1, <1>a DEF CacheWritten
  <2> QED BY <2>1, <2>2, <2>3, <1>b, <1>e DEF Inv
<1>7. ASSUME LoopLock PROVE Inv'
  <2>1. /\ UNCHANGED <<cacheStr, tty, output, verbose, outcome, main>>
        /\ mu = "free" /\ mu' = "loop" /\ loop = "lock" /\ loop' = "write"
        /\ written' = [written EXCEPT !.loop = cacheStr]
    BY <1>7 DEF LoopLock, fileVars
  <2>2. /\ written'.loop = cacheStr /\ written'.main = written.main
        /\ written' \in [main : Seq(Lines), loop : Seq(Lines)]
    BY <2>1, <1>a DEF ReportTypes
  <2>3. ReportTypes'
    BY <2>1, <2>2, <1>a DEF ReportTypes
  <2>4. CacheWritten'
    BY <2>1, <2>2, <1>a DEF CacheWritten
  <2> QED BY <2>1, <2>3, <2>4, <1>b, <1>e DEF Inv
<1>8. ASSUME LoopWrite PROVE Inv'
  <2>1. /\ UNCHANGED <<mu, cacheStr, output, verbose, outcome, main>>
        /\ loop = "write" /\ loop' = "unlock"
        /\ tty' = Redraw(tty, written.loop)
        /\ written' = [written EXCEPT !.loop = <<>>]
    BY <1>8 DEF LoopWrite, fileVars
  <2>2. /\ written'.main = written.main
        /\ written' \in [main : Seq(Lines), loop : Seq(Lines)]
    BY <2>1, <1>a, EmptyEntries DEF ReportTypes
  <2>3. Entries(written.loop) \subseteq Entries(tty')
    <3>1. written.loop \in Seq(Lines) /\ tty \in Seq(Rows)
      BY <1>a DEF ReportTypes
    <3> QED BY <2>1, <3>1, <1>a, RedrawEffect
  <2>4. Entries(cacheStr) \subseteq Entries(tty')
    BY <2>1, <2>3, <1>a DEF CacheWritten
  <2>5. ReportTypes'
    BY <2>1, <2>2, <1>a, <1>b DEF ReportTypes
  <2>6. CacheWritten'
    BY <2>1, <2>2, <2>4, <1>a DEF CacheWritten
  <2> QED BY <2>1, <2>5, <2>6, <1>b, <1>e DEF Inv
<1>9. ASSUME LoopUnlock PROVE Inv'
  <2>1. /\ UNCHANGED <<tty, output, verbose, outcome, main, written>>
        /\ loop = "unlock" /\ loop' = "select" /\ mu' = "free"
        /\ cacheStr' = <<>>
    BY <1>9 DEF LoopUnlock, fileVars
  <2>2. cacheStr' \in Seq(Lines) /\ Entries(cacheStr') = {}
    BY <2>1, EmptyEntries
  <2>3. ReportTypes'
    BY <2>1, <2>2, <1>a DEF ReportTypes
  <2>4. CacheWritten'
    BY <2>1, <2>2, <1>a DEF CacheWritten
  <2>5. LinesKept'
    BY <2>1, <1>a, <1>e DEF CacheWritten
  <2> QED BY <2>3, <2>4, <2>5, <1>b DEF Inv
<1>10. ASSUME Tick \/ ReceiveTick \/ LoopReturn \/ UNCHANGED vars PROVE Inv'
  <2>1. /\ UNCHANGED <<mu, cacheStr, tty, output, verbose, outcome, main, written>>
        /\ loop' = loop \/ (loop' \in {"lock", "returned"} /\ loop = "select")
    BY <1>10 DEF Tick, ReceiveTick, LoopReturn, vars, fileVars
  <2>2. ReportTypes'
    BY <2>1, <1>a DEF ReportTypes
  <2>3. CacheWritten'
    BY <2>1, <1>a DEF CacheWritten
  <2> QED BY <2>1, <2>2, <2>3, <1>b, <1>e DEF Inv
<1> QED
  BY <1>1, <1>2, <1>3, <1>4, <1>5, <1>6, <1>7, <1>8, <1>9, <1>10
  DEF Next, MainStep, LoopStep, Terminated

\* The invariant holds in every state.
LEMMA InvHolds == Spec => []Inv
BY InitInv, NextInv, PTL DEF Spec

-----------------------------------------------------------------------------
(* The theorems.                                                           *)

\* When Stop has returned, the lines of every server are on the terminal or in
\* their file, although Stop writes and clears the cache without the lock that
\* loop() holds while it does the same.
THEOREM NothingIsLost == Spec => []NothingLost
<1>1. Inv => NothingLost
  BY DEF Inv, LinesKept, CacheWritten, NothingLost
<1> QED BY <1>1, InvHolds, PTL

\* No redraw erases a line, whatever was drawn before it.
THEOREM PrintedLinesSurvive == Spec => LinesSurvive
<1>1. Inv /\ [Next]_vars =>
        [\A line \in Lines : line \in Entries(tty) => line \in Entries(tty')]_vars
  BY TerminalKeepsLines DEF Inv, KeepsLines
<1> QED BY <1>1, InvHolds, PTL DEF Spec, LinesSurvive
=============================================================================
