----------------------------- MODULE RequestRate -----------------------------
(***************************************************************************)
(* The rate of the requests, as it is limited and as it is shown: the      *)
(* scheduler takes tokens, launches requests and logs them as a batch with *)
(* the time its iteration began (scheduleChecks, dnsanitize.go); a ticker  *)
(* refills the tokens, perhaps late (ratelimiter.go); each rendering of    *)
(* the progress bar counts the requests of the last second                 *)
(* (RequestsLogger, internal/report/logging.go).  One server is watched,   *)
(* to see what limits the requests that it receives.                       *)
(*                                                                         *)
(* Time is discrete and starts at 0.  The bar is rendered by loop(), which *)
(* holds the mutex of the reporter, and by Stop, which does not: a count   *)
(* is split into the rounds of its loop over the batches.  A batch is read *)
(* and written whole, which is the least that two goroutines without a     *)
(* lock may do to each other.  Left out: the second count of each bar in   *)
(* -debug, and the bar that the constructor renders before any batch.      *)
(* StopRefiller comes before Stop; a refill that has begun may follow it.  *)
(***************************************************************************)
EXTENDS TokenBucket, Lists

CONSTANTS
  Second,    \* instants in a second
  Interval,  \* srvReqInterval in instants
  MaxTime,   \* bound of the model: time stops here
  BarTime    \* bound of the model: time stops here if there is a bar

ASSUME TimeAssumption ==
  /\ Second \in Nat \ {0} /\ Interval \in Nat \ {0}
  /\ MaxTime \in Nat /\ BarTime \in 0 .. MaxTime

VARIABLES
  now,          \* the clock
  tokens,       \* tokens of the rate limiter
  tickerC,      \* a tick waits in the channel of the ticker, of capacity 1
  pc,           \* what the scheduler does next
  batchTime,    \* the local variable now of its iteration
  nextQueryAt,  \* srv.NextQueryAt of the watched server
  scheduled,    \* numScheduled, the idle and the busy ones together
  batches,      \* the array under RequestsLogger.batches
  used,         \* len(r.batches)
  hasPBar,      \* s.hasPBar(): there is a bar
  reader,       \* where each goroutine is in its rendering of the bar
  scan,         \* the local variables of its LastSecCount
  raced,        \* history: two renderings have overlapped
  sent,         \* history: sent[s][t], requests launched to s before t
  logged        \* history: logged[t], requests logged with timestamp t

Times == 0 .. MaxTime

\* The ends of the intervals of time that the properties are about.
Instants == 0 .. MaxTime + 1

\* The watched server, and all the others.
Targets == {"watched", "other"}

\* The goroutine of loop(), and the main one, in Stop.
Readers == {"loop", "main"}

rateVars    == <<tokens, tickerC>>
iteration   == <<pc, batchTime, nextQueryAt, scheduled>>
loggerVars  == <<batches, used, logged>>
readerVars  == <<hasPBar, reader, scan, raced>>

vars == <<now, rateVars, iteration, loggerVars, readerVars, sent>>

\* at: the variable now; n: the length of the slice that is ranged over; i: the
\* next batch.
NoScan == [at |-> 0, n |-> 0, i |-> 1, keep |-> 0, sum |-> 0]

Init ==
  /\ now = 0
  /\ tokens = RefillAmount
  /\ tickerC = FALSE
  /\ pc = "snapshot"
  /\ batchTime = 0
  /\ nextQueryAt = 0
  /\ scheduled = 0
  /\ batches = <<>> /\ used = 0
  /\ hasPBar \in BOOLEAN
  /\ reader = [g \in Readers |-> "away"]
  /\ scan = [g \in Readers |-> NoScan]
  /\ raced = FALSE
  /\ sent = [s \in Targets |-> [t \in Instants |-> 0]]
  /\ logged = [t \in Times |-> 0]

-----------------------------------------------------------------------------
(* The clock and the refiller.                                             *)

TickTwicePerSecond(t) == (2 * t) % Second = 0

\* refillInterval is one second, for any rate (NewRateLimiter).
TickDue(t) == t % Second = 0

\* A tick that finds the channel full is dropped.
PassTime ==
  /\ now < IF hasPBar THEN BarTime ELSE MaxTime
  /\ now' = now + 1
  /\ tickerC' = (tickerC \/ TickDue(now'))
  /\ UNCHANGED <<tokens, iteration, loggerVars, readerVars, sent>>

Refill ==
  /\ tickerC
  /\ pc # "panicked"
  /\ tickerC' = FALSE
  /\ tokens' = RefillOnce(tokens)
  /\ UNCHANGED <<now, iteration, loggerVars, readerVars, sent>>

-----------------------------------------------------------------------------
(* The scheduler.                                                          *)

Snapshot ==
  /\ pc = "snapshot"
  /\ pc' = "dispatch"
  /\ batchTime' = now
  /\ UNCHANGED <<now, rateVars, nextQueryAt, scheduled, loggerVars, readerVars, sent>>

\* The servers that are due, by the time the iteration began.
Due == IF nextQueryAt <= batchTime THEN Targets ELSE {"other"}

\* A token is taken for a server that is due.  Which one it is shows in Launch:
\* nothing that makes it due changes in between.
TakeToken ==
  /\ pc = "dispatch"
  /\ CanConsume(tokens)
  /\ tokens' = ConsumeOne(tokens)
  /\ pc' = "slot"
  /\ UNCHANGED <<now, tickerC, batchTime, nextQueryAt, scheduled, loggerVars,
                 readerVars, sent>>

IntervalFromPrevious == nextQueryAt + Interval

NextQueryAt == batchTime + Interval

\* The history of a target with one more request, launched now.
OneMore(history) ==
  [t \in Instants |-> IF t > now THEN history[t] + 1 ELSE history[t]]

\* A job slot is free.
Launch ==
  /\ pc = "slot"
  /\ pc' = "dispatch"
  /\ scheduled' = scheduled + 1
  /\ \E target \in Due :
       /\ sent' = [sent EXCEPT ![target] = OneMore(@)]
       /\ nextQueryAt' = IF target = "watched" THEN NextQueryAt ELSE nextQueryAt
  /\ UNCHANGED <<now, rateVars, batchTime, loggerVars, readerVars>>

NoFreeSlot ==
  /\ pc = "slot"
  /\ pc' = "dispatch"
  /\ tokens' = GiveBackOne(tokens)
  /\ UNCHANGED <<now, tickerC, batchTime, nextQueryAt, scheduled, loggerVars,
                 readerVars, sent>>

-----------------------------------------------------------------------------
(* RequestsLogger.                                                         *)

InLastSecond(batch, t) == batch.timestamp > t - Second

\* What is left of the batches after one second, seen at time t.
Pruned(bs, t) == Chosen(bs, {k \in DOMAIN bs : InLastSecond(bs[k], t)})

\* The batch as LogRequests(now, ...) receives it.
Batch(total) == [timestamp |-> batchTime, count |-> total]

LogIgnoringLock == TRUE

\* loop() locks the mutex before it renders and unlocks it afterwards.
MutexFree == reader["loop"] \in {"away", "called"}

\* The end of the dispatch: the requests of the iteration are logged.  What the
\* array holds behind the slice is overwritten or left behind by append.
LogRequests ==
  /\ pc = "dispatch"
  /\ scheduled > 0
  /\ MutexFree
  /\ pc' = "snapshot"
  /\ scheduled' = 0
  /\ batchTime' = 0
  /\ batches' = Pruned(Append(SubSeq(batches, 1, used), Batch(scheduled)), batchTime)
  /\ used' = Len(batches')
  /\ logged' = [logged EXCEPT ![batchTime] = @ + scheduled]
  /\ UNCHANGED <<now, rateVars, nextQueryAt, readerVars, sent>>

\* Nothing was scheduled: nothing is logged.
NothingToLog ==
  /\ pc = "dispatch"
  /\ scheduled = 0
  /\ pc' = "snapshot"
  /\ batchTime' = 0
  /\ UNCHANGED <<now, rateVars, nextQueryAt, scheduled, loggerVars, readerVars,
                 sent>>

-----------------------------------------------------------------------------
(* The renderings of the bar.                                              *)

Rendering(g) == reader[g] \in {"header", "scan"}

\* LastSecCount reads the clock.
StartCount(g) ==
  /\ scan' = [scan EXCEPT ![g].at = now]
  /\ raced' = (raced \/ \E other \in Readers \ {g} : Rendering(other))

\* loop() has received a tick, now or before Stop stopped the ticker, and locks
\* the mutex, which is free because LogRequests takes one step.
StartRedraw ==
  /\ hasPBar
  /\ \/ reader["loop"] = "away" /\ pc # "stopped"
     \/ reader["loop"] = "called"
  /\ reader' = [reader EXCEPT !["loop"] = "header"]
  /\ StartCount("loop")
  /\ UNCHANGED <<now, rateVars, iteration, loggerVars, hasPBar, sent>>

\* The scheduler is done and main calls Stop.
Stop ==
  /\ pc = "snapshot"
  /\ pc' = "stopped"
  /\ UNCHANGED <<now, rateVars, batchTime, nextQueryAt, scheduled, loggerVars,
                 hasPBar, sent>>

\* It renders the final bar without the mutex.  loop() may have received a tick
\* before.
StopWithBar ==
  /\ hasPBar
  /\ Stop
  /\ StartCount("main")
  /\ \E tick \in BOOLEAN :
       reader' = [loop |-> IF tick /\ reader["loop"] = "away" THEN "called"
                                                             ELSE reader["loop"],
                  main |-> "header"]

StopWithoutBar ==
  /\ ~hasPBar
  /\ Stop
  /\ reader' = [reader EXCEPT !["main"] = "done"]
  /\ UNCHANGED <<scan, raced>>

\* range r.batches evaluates the slice once.
ReadHeader(g) ==
  /\ reader[g] = "header"
  /\ reader' = [reader EXCEPT ![g] = "scan"]
  /\ scan' = [scan EXCEPT ![g].n = used]
  /\ UNCHANGED <<now, rateVars, iteration, loggerVars, hasPBar, raced, sent>>

\* The loop has a batch to look at, and the batch.
HasNext(g) == reader[g] = "scan" /\ scan[g].i <= scan[g].n

NextBatch(g) == batches[scan[g].i]

KeepBatch(g) ==
  /\ HasNext(g)
  /\ InLastSecond(NextBatch(g), scan[g].at)
  /\ scan[g].keep < used
  /\ batches' = [batches EXCEPT ![scan[g].keep + 1] = NextBatch(g)]
  /\ scan' = [scan EXCEPT ![g].i = @ + 1, ![g].keep = @ + 1,
                          ![g].sum = @ + NextBatch(g).count]
  /\ UNCHANGED <<now, rateVars, iteration, used, logged, hasPBar, reader, raced,
                 sent>>

DropBatch(g) ==
  /\ HasNext(g)
  /\ ~InLastSecond(NextBatch(g), scan[g].at)
  /\ scan' = [scan EXCEPT ![g].i = @ + 1]
  /\ UNCHANGED <<now, rateVars, iteration, loggerVars, hasPBar, reader, raced, sent>>

\* r.batches[keep] is beyond the slice: the program dies with all goroutines.
IndexOutOfRange(g) ==
  /\ HasNext(g)
  /\ InLastSecond(NextBatch(g), scan[g].at)
  /\ scan[g].keep >= used
  /\ pc' = "panicked"
  /\ reader' = [other \in Readers |-> "gone"]
  /\ UNCHANGED <<now, rateVars, batchTime, nextQueryAt, scheduled, loggerVars,
                 hasPBar, scan, raced, sent>>

\* Where a goroutine goes after its rendering.
Rendered(g) == IF g = "loop" THEN "away" ELSE "done"

EndCount(g) ==
  /\ reader[g] = "scan"
  /\ scan[g].i > scan[g].n
  /\ used' = scan[g].keep
  /\ reader' = [reader EXCEPT ![g] = Rendered(g)]
  /\ scan' = [scan EXCEPT ![g] = NoScan]
  /\ UNCHANGED <<now, rateVars, iteration, batches, logged, hasPBar, raced,
                 sent>>

CountStep(g) ==
  \/ ReadHeader(g)
  \/ KeepBatch(g)
  \/ DropBatch(g)
  \/ IndexOutOfRange(g)
  \/ EndCount(g)

-----------------------------------------------------------------------------

\* The program has died, or Stop has returned and loop() redraws no more.
Terminated ==
  /\ \/ pc = "panicked"
     \/ reader["main"] = "done" /\ reader["loop"] = "away"
  /\ UNCHANGED vars

Next ==
  \/ PassTime
  \/ Refill
  \/ Snapshot
  \/ TakeToken
  \/ Launch
  \/ NoFreeSlot
  \/ LogRequests
  \/ NothingToLog
  \/ StopWithBar
  \/ StopWithoutBar
  \/ StartRedraw
  \/ \E g \in Readers : CountStep(g)
  \/ Terminated

Spec == Init /\ [][Next]_vars

-----------------------------------------------------------------------------
(* Properties.                                                             *)

\* Requests of the time from one instant, included, until another, excluded.
ToServer(from, until) == sent["watched"][until] - sent["watched"][from]

SentIn(from, until) ==
  ToServer(from, until) + sent["other"][until] - sent["other"][from]

\* An interval of time that is no longer than a length.
Within(length, from, until) == from <= until /\ until <= from + length

\* The requests logged with a time of an interval; time t has the index t + 1.
LoggedIn(from, to) ==
  Total([k \in 1 .. MaxTime + 1 |-> IF k - 1 \in from .. to THEN logged[k - 1] ELSE 0],
        MaxTime + 1)

\* The number of the requests that were logged with a time of the second before
\* the count began.
Exact(g) == scan[g].sum = LoggedIn(scan[g].at - Second + 1, scan[g].at)

\* As long as Stop has not rendered the bar beside loop(), every count is exact,
\* though it compacts the batches in place, round by round, while the clock
\* goes on and the scheduler wants to log, and though Log prunes by the time
\* its iteration began.
WindowExact ==
  [][\A g \in Readers : EndCount(g) /\ ~raced => Exact(g)]_vars

\* The comment of LastSecCount: it returns the number of requests in the last
\* second, so that no count is larger, not even that of the final bar.
NoneCountedTwice ==
  \A g \in Readers :
    Rendering(g) => scan[g].sum <= LoggedIn(scan[g].at - Second + 1, scan[g].at)

\* The average rate, which the comment in NewRateLimiter calls exact: after
\* the first burst, one refill per second has been sent at most, however late
\* the refiller and the scheduler were.
AverageRateKept ==
  SentIn(0, now + 1) <= RefillAmount * (1 + now \div Second)

\* The sharpest bound for one second: a full bucket, a late refill, the refill
\* of that second, and a token taken before.
PeakBounded ==
  \A from, until \in Instants :
    Within(Second, from, until) => SentIn(from, until) <= 3 * MaxTokens + 1

\* What -ratelimit promises of one server, in the iterations' time or in real
\* time: one request per interval on average, and never more than two within
\* one, the second of which follows a launch that came late in its iteration.
ServerRateKept ==
  /\ ToServer(0, now + 1) <= 1 + now \div Interval
  /\ \A from, until \in Instants :
       Within(Interval, from, until) => ToServer(from, until) <= 2
=============================================================================
