------------------------------- MODULE Report -------------------------------
(***************************************************************************)
(* report.StatusReporter (internal/report/status.go) with a progress bar:  *)
(* the main goroutine reports finished servers and stops the reporter, the *)
(* goroutine loop() redraws the bar at each tick.  Lines for a file that   *)
(* is the terminal are cached and printed above the bar by the next        *)
(* redraw; lines for another file are written at once.                     *)
(*                                                                         *)
(* The terminal is the sequence of its rows, the cursor on the last one.   *)
(* Every call holds mu from start to end, except Stop, which takes no lock *)
(* and is therefore split into the steps that loop() can interleave with.  *)
(***************************************************************************)
EXTENDS Integers, Sequences, SequencesExt

CONSTANTS
  Servers,        \* servers that get a verdict while the reporter runs
  BarHeight,      \* rows of the bar: the lines of pBarTemplate
  OutputOnTTY,    \* OutputFile is the terminal (no -o, not redirected)
  VerboseOnTTY    \* VerboseFile is stderr and stderr is the terminal

\* The templates of the bar, with and without -debug, have several lines.
ASSUME BarAssumption == BarHeight \in Nat /\ BarHeight > 2

VARIABLES
  mu,           \* who holds the mutex: "free" or "loop"
  cacheStr,     \* lines to print above the bar
  hdrPending,   \* verboseFileHdr # ""
  tty,          \* rows of the terminal
  output,       \* lines of an OutputFile that is no terminal
  verbose,      \* lines of a VerboseFile that is no terminal
  outcome,      \* what was reported of each server
  quit,         \* the channel quit is closed
  tick,         \* a tick waits in redrawTicker.C
  ticking,      \* redrawTicker is not stopped
  main, loop,   \* where the two goroutines are
  written       \* what each of them is about to write to the terminal

vars == <<mu, cacheStr, hdrPending, tty, output, verbose, outcome, quit, tick,
          ticking, main, loop, written>>

fileVars == <<output, verbose>>

\* A verdict with its FailedCount: none failed, some failed but the server
\* stayed below the drop threshold, or it was dropped.
Outcomes == {"clean", "tolerated", "dropped"}

Dropped(o) == o = "dropped"

\* The word in the first line of srv.PrettyDump(), which looks at FailedCount.
Label(o) == IF o = "clean" THEN "valid" ELSE "invalid"

Address(s) == <<"address", s>>
Dump(s, o) == <<"dump", s, Label(o)>>
Header     == <<"header">>
BarRow     == <<"bar">>
Blank      == <<"blank">>
FinalLine  == <<"final">>

Bar == [i \in 1 .. BarHeight |-> BarRow]

-----------------------------------------------------------------------------
(* The terminal.                                                           *)

EraseOneMore(rows) == SubSeq(rows, 1, Len(rows) - BarHeight - 1)

\* pBarEraser: erase the row of the cursor and the rows of the bar above.
Erase(rows) == SubSeq(rows, 1, Len(rows) - BarHeight)

\* The final bar ends with two line feeds: a blank row, the cursor below.
Ended(rows) == rows \o <<Blank, Blank>>

\* One WriteString: erase the bar, print the cached lines and a new bar.
Redraw(rows, lines) == Erase(rows) \o lines \o Bar

\* A line printed at the cursor, and the cursor on a fresh row.
PrintAt(rows, line) == [rows EXCEPT ![Len(rows)] = line] \o <<Blank>>

Init ==
  /\ mu = "free"
  /\ cacheStr = <<>>
  /\ hdrPending = TRUE
  /\ tty = Bar
  /\ output = <<>> /\ verbose = <<>>
  /\ outcome = [s \in Servers |-> "none"]
  /\ quit = FALSE
  /\ tick = FALSE
  /\ ticking = TRUE
  /\ main = "run" /\ loop = "select"
  /\ written = [main |-> <<>>, loop |-> <<>>]

-----------------------------------------------------------------------------
(* The main goroutine.                                                     *)

ReportIgnoringLock == TRUE

\* s.mu.Lock() of the scheduler goroutine.
MainMayLock == mu = "free"

OutputLines(s, o) == IF Dropped(o) THEN <<>> ELSE <<Address(s)>>

VerboseLines(s, o) ==
  IF hdrPending THEN <<Header, Dump(s, o)>> ELSE <<Dump(s, o)>>

\* fWrite: to the cache if the file is the terminal, to the file otherwise.
Cached(s, o) ==
  (IF OutputOnTTY THEN OutputLines(s, o) ELSE <<>>)
    \o (IF VerboseOnTTY THEN VerboseLines(s, o) ELSE <<>>)

ReportFinishedServer(s, o) ==
  /\ main = "run"
  /\ MainMayLock
  /\ outcome[s] = "none"
  /\ outcome' = [outcome EXCEPT ![s] = o]
  /\ cacheStr' = cacheStr \o Cached(s, o)
  /\ output' = IF OutputOnTTY THEN output ELSE output \o OutputLines(s, o)
  /\ verbose' = IF VerboseOnTTY THEN verbose ELSE verbose \o VerboseLines(s, o)
  /\ hdrPending' = FALSE
  /\ UNCHANGED <<mu, tty, quit, tick, ticking, main, loop, written>>

\* Stop, called when every server has been reported.
CloseQuit ==
  /\ main = "run"
  /\ \A s \in Servers : outcome[s] # "none"
  /\ main' = "stopTicker"
  /\ quit' = TRUE
  /\ UNCHANGED <<mu, cacheStr, hdrPending, tty, fileVars, outcome, tick, ticking,
                 loop, written>>

\* No tick is received once redrawTicker.Stop() has returned (go.mod asks for
\* a Go whose timers drop the tick that waits).
TickAfterStop == FALSE

StopTicker ==
  /\ main = "stopTicker"
  /\ main' = "render"
  /\ ticking' = FALSE
  /\ tick' = TickAfterStop
  /\ UNCHANGED <<mu, cacheStr, hdrPending, tty, fileVars, outcome, quit, loop, written>>

RenderFinal ==
  /\ main = "render"
  /\ main' = "writeFinal"
  /\ written' = [written EXCEPT !.main = cacheStr]
  /\ UNCHANGED <<mu, cacheStr, hdrPending, tty, fileVars, outcome, quit, tick,
                 ticking, loop>>

WriteFinal ==
  /\ main = "writeFinal"
  /\ main' = "clear"
  /\ tty' = Ended(Redraw(tty, written.main))
  /\ written' = [written EXCEPT !.main = <<>>]
  /\ UNCHANGED <<mu, cacheStr, hdrPending, fileVars, outcome, quit, tick, ticking, loop>>

ClearCache ==
  /\ main = "clear"
  /\ main' = "stopped"
  /\ cacheStr' = <<>>
  /\ UNCHANGED <<mu, hdrPending, tty, fileVars, outcome, quit, tick, ticking, loop,
                 written>>

\* sanitizeServers prints its report line once Stop has returned.
PrintReport ==
  /\ main = "stopped"
  /\ main' = "done"
  /\ tty' = PrintAt(tty, FinalLine)
  /\ UNCHANGED <<mu, cacheStr, hdrPending, fileVars, outcome, quit, tick, ticking, loop,
                 written>>

-----------------------------------------------------------------------------
(* loop() and its ticker.                                                  *)

Tick ==
  /\ ticking
  /\ ~tick
  /\ tick' = TRUE
  /\ UNCHANGED <<mu, cacheStr, hdrPending, tty, fileVars, outcome, quit, ticking, main,
                 loop, written>>

\* With a tick and a closed quit, the select may take either.
ReceiveTick ==
  /\ loop = "select"
  /\ tick
  /\ tick' = FALSE
  /\ loop' = "lock"
  /\ UNCHANGED <<mu, cacheStr, hdrPending, tty, fileVars, outcome, quit, ticking, main,
                 written>>

LoopLock ==
  /\ loop = "lock"
  /\ mu = "free"
  /\ mu' = "loop"
  /\ loop' = "write"
  /\ written' = [written EXCEPT !.loop = cacheStr]
  /\ UNCHANGED <<cacheStr, hdrPending, tty, fileVars, outcome, quit, tick, ticking, main>>

LoopWrite ==
  /\ loop = "write"
  /\ loop' = "unlock"
  /\ tty' = Redraw(tty, written.loop)
  /\ written' = [written EXCEPT !.loop = <<>>]
  /\ UNCHANGED <<mu, cacheStr, hdrPending, fileVars, outcome, quit, tick, ticking, main>>

\* s.cacheStr = "", then s.mu.Unlock().
LoopUnlock ==
  /\ loop = "unlock"
  /\ loop' = "select"
  /\ cacheStr' = <<>>
  /\ mu' = "free"
  /\ UNCHANGED <<hdrPending, tty, fileVars, outcome, quit, tick, ticking, main, written>>

IgnoreQuit == FALSE

QuitReceived == quit

LoopReturn ==
  /\ loop = "select"
  /\ QuitReceived
  /\ loop' = "returned"
  /\ UNCHANGED <<mu, cacheStr, hdrPending, tty, fileVars, outcome, quit, tick, ticking,
                 main, written>>

MainStep ==
  \/ \E s \in Servers, o \in Outcomes : ReportFinishedServer(s, o)
  \/ CloseQuit \/ StopTicker \/ RenderFinal \/ WriteFinal \/ ClearCache
  \/ PrintReport

Terminated ==
  /\ main = "done"
  /\ loop = "returned"
  /\ UNCHANGED vars

LoopStep == LoopLock \/ LoopWrite \/ LoopUnlock

Next ==
  \/ MainStep
  \/ Tick
  \/ ReceiveTick
  \/ LoopStep
  \/ LoopReturn
  \/ Terminated

Spec == Init /\ [][Next]_vars

\* A select with several ready cases chooses among them at random, so one that
\* is ready again and again is taken.  The main goroutine may stay where it is.
Fairness ==
  /\ WF_vars(LoopStep)
  /\ SF_vars(LoopReturn)

FairSpec == Spec /\ Fairness

-----------------------------------------------------------------------------
(* Properties.                                                             *)

Lines == {Address(s) : s \in Servers} \cup {Header}
           \cup {Dump(s, o) : s \in Servers, o \in Outcomes}

Entries(seq) == {seq[i] : i \in DOMAIN seq}

\* The line of a valid server and the dump of every server reach the terminal
\* or their file: no line falls between the redraw that prints the cache and
\* the moment the cache is cleared.
NothingLost ==
  main = "stopped" =>
    \A s \in Servers :
      /\ ~Dropped(outcome[s]) => Address(s) \in Entries(tty) \cup Entries(output)
      /\ Dump(s, outcome[s]) \in Entries(tty) \cup Entries(verbose)

\* A redraw erases the bar and never a line that was printed above it, not
\* even one that comes after the bar was ended by Stop.
LinesSurvive ==
  [][\A line \in Lines : line \in Entries(tty) => line \in Entries(tty')]_vars

\* The goroutine of loop() ends after Stop, although a tick can be taken in
\* preference to the closed quit: it does not outlive the reporter of step 1.
LoopReturns == quit ~> loop = "returned"

\* The comment of Stop: it stops the ticker and renders the final bar.  Once
\* it has returned the terminal changes only by the report line of main.
FinalBarStays ==
  [][main = "stopped" /\ main' = "stopped" => tty' = tty]_vars
=============================================================================
