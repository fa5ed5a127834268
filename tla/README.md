# Verification of DNSanity

DNSanity (`src/`, Go) tests lists of DNS servers: it sends every server the
queries of a *template* and keeps the servers whose answers match. A run has two
steps with the same engine: step 1 validates the template against trusted
servers, step 2 sanitizes the untrusted list. This directory holds TLA+ models of
that engine, the TLC runs that check them, and TLAPS proofs.

## 1. Inventory

Paths are relative to `src/`. "Single" means: touched by one goroutine only.

| Component | State | Operations | Interacts with | Hard behaviour | Correct when |
|---|---|---|---|---|---|
| Scheduler, `internal/dnsanitize/dnsanitize.go` (`scheduleChecks`, `applyResults`, `runDNSWorker`) | map `inFlight`, per-iteration `now`, `freeJobs`, `poolCanGrow`; channels `JobLimiter` and `Results`, wait group | collect results, IDLE/BUSY dispatch, grow pool, leave, wait; a worker resolves, sends, releases its slot | all others | one scheduler, many workers; results arrive in any order, also of servers dropped since; locals are used while slots and tokens change; `Wait` reads no results | no check or server is lost, counters and verdict agree with the answers, verdicts are final, the run ends |
| Server pool, `serverpool.go` | queue index, map of loaded servers (single) | `LoadN`, `Get`, `Unload`, predicates | scheduler | three limits at once | bounded; every listed server passes through once |
| Rate limiter, `ratelimiter.go` | atomic token count, ticker, context | `ConsumeOne`, `GiveBackOne`, `Remaining`, `refillOnce`, `StopRefiller` | scheduler, refill goroutine | compare-and-swap loops; late ticks; tick against cancellation | methods are atomic, the count stays within the capacity, the goroutine ends |
| Server context, `internal/dns/servercontext.go`, `dnsanswer.go` | pending checks, attempts, answers, counters, context (written by the scheduler) | construct, `Finished`, `IsWorthRetrying`, `PrettyDump` | scheduler, reporter | retries against drops | counters summarise the answers |
| Template entries, `internal/dns/template.go` | none | `Matches`, `matchRecords`, `tryAugment`, `globMatch`; parsing, `loadTemplate` | workers, configuration | bipartite matching over a map's random order; greedy cuts | an answer passes exactly if an alternative allows it |
| Status reporter, `internal/report/status.go` | counters, cached lines, terminal, mutex, ticker, `quit` | `ReportFinishedServer`, `AddDoneChecks`, `LogRequests`, `Stop`, redraw loop | scheduler (main goroutine), redraw goroutine | `Stop` takes no lock | no line is lost or erased, the loop ends, the counters are exact |
| Requests logger, `internal/report/logging.go` | totals, batches of the last second, without a lock of its own: `LogRequests` and the redraw loop hold the reporter's mutex, the rendering in `Stop` does not | `Log`, `LastSecCount` | scheduler, redraw goroutine, main goroutine in `Stop` | pruned by two different clock readings; both prune the array in place, at the end perhaps at once | the shown rate is that of the last second |
| Program, `main.go` | none | step 1, step 2, exit code | all | step 1 must not drop servers; set-up can panic | step 2 runs only after a clean step 1; the output is exact |
| Configuration, `internal/config/` | options, settings, lists, the open output | parse, validate, default, read, truncate | program, files | integer and float edges; the output is truncated in the middle of the validation and may be an input | inputs arrive as given; values satisfy what the engine assumes |
| Server list, `internal/config/serverlist.go` | none | `ParseServerList` | configuration | the scanner may give up | every address is returned |
| Resolver, `internal/dns/resolver.go` | none | `ResolveDNS`, `mapResolveError` | workers, network | one chain of errors answers several questions: timeouts, cancellation | a server that sent nothing passes only as a timeout |
| Terminal helpers, `internal/tty/` | none | detection, ANSI stripping | reporter | none | I/O and formatting |

`PROJECT.json` lists the hazards of the code, each at its line, with the
properties that would catch it.

## 2. Modules

```
TokenBucket   ServerContext   ServerPool       Verdicts (abstract)
     \______________|______________/               |
                Scheduler                          |
                    |                              |
          SchedulerProperties --- INSTANCE --------'
                    |
              SchedulerProofs

TokenBucket --- RateLimiter --- INSTANCE --- AtomicBucket (abstract)
     |               '--------- RateLimiterProofs
     '--------- RequestRate --- RequestRateProofs
Report --- ReportProofs

GlobMatch --- Resolver --- Worker --- MCWorker
     |                        '------ WorkerProofs
     '------- GlobMatchProofs -------------'

Lists --- Resolver, RequestRate
     '--- ListProofs --- GlobMatchProofs, RequestRateProofs

Config --- ProgressBar --- Program --- MCProgram
                              '------- ProgramProofs
```

**ServerContext** is the record kept per server and `applyResults` as a function
on it. An answer is one of `match`, `transient` (a mismatch worth a retry),
`permanent` (another mismatch) and `cancelled` (what a resolver returns after the
context was cancelled). Times are relative: `nextQueryIn` stands for
`NextQueryAt - now`.

**ServerPool**: servers are numbered by their place in the list, which is also
the slot the code gives them (`dequeueIdx` and `nextSlot` move together).

**TokenBucket** is the arithmetic of one atomic call to the limiter.

**Scheduler** composes the three. One action per receive (`CollectResult`,
`DiscardResult`, `EndCollect`), for the snapshot of time and free slots
(`Snapshot`), per visit of a server (`SkipServer`, `TakeToken` followed by
`LaunchQuery` or `NoFreeSlot`), `EndPass`, and the end of an iteration
(`LeaveLoop`, `GrowPool`, `Wait`). Taking a token and asking for a slot are two
steps because a refill or a release may fall between them. Workers take two
steps, `WorkerSend` and `WorkerRelease`, the first of which needs room in
`Results`. `Refill` and `Tick` (time) may happen at any point. The order of
`toVisit` is left open as the iteration order of a Go map is. Only the choice
of the channel order is abstracted: workers race to send, so any result may be
the next one. The whole of `LaunchQuery` is one action: all it changes besides
the slot belongs to the scheduler alone, and the worker it starts acts later.
The sleep of 13 ms is time that passes between two iterations.

**SchedulerProperties** states what must hold, **Verdicts** what a run promises
without workers, retries and limits: checks are settled one by one, and the step
that settles the deciding check gives the verdict.

**RateLimiter** splits each method into its load and its swap, with the spin
counter, the ticker's channel of capacity one, and cancellation. **AtomicBucket**
is the interface the scheduler relies on.

**RequestRate** adds discrete time to the token bucket: ticks that are handled
late, iterations that log their requests under the time they began, and renderings
of the bar that count the last second. A rendering is not one step: `LastSecCount`
reads the clock (`StartRedraw` in the redraw goroutine, `StopWithBar` in `Stop`), then
the slice (`ReadHeader`), moves the batches of the last second to the front of the
array one by one (`KeepBatch`, `DropBatch`) and cuts the slice (`EndCount`). The
redraw goroutine holds the mutex meanwhile, so that `LogRequests` waits for it;
`Stop` does not, so that at the end both goroutines may be among the same batches.
`batches` is the array, `used` the length of the slice, and `IndexOutOfRange` the
panic of a goroutine that writes beyond a slice which the other one has cut. The
history `raced` says that two renderings have overlapped. A batch is read and
written whole. Left out are the second count of each bar in `-debug` and the bar
that the constructor renders when there are no batches yet.

One of the servers is watched: its `NextQueryAt` is
the time the iteration began plus the interval, not the time of the launch. For
the other servers a launch is possible at any time. The history counts, for every
instant, the requests launched before it, so that those of an interval are the
difference of two entries.

**Report** models the reporter of a run with a progress bar. The terminal is the
sequence of its rows; a redraw erases the rows of the bar, prints the cached lines
and draws a new bar. All methods but `Stop` hold the mutex and are one step for
the other goroutine; the redraw of `loop()` is split into lock, write and unlock,
and `Stop` into its statements, because it takes no lock. The unsynchronised
accesses to `cacheStr` are modelled as reads and writes of whole strings.

**Worker** is what a goroutine of `runDNSWorker` computes between a job and its
result: `Query` resolves the domain, then come the loop over the alternatives
(`CompareStatus`), and for each kind of records the phases of `matchRecords`
(`CountValues`, `ConsumeExact`, `ListValues`, `AssignNextGlob`) and the calls of
`tryAugment`. The recursion is explicit: `wanted` holds, for each call in progress,
the value it wants from its owner, so that the glob of every call follows
(`GlobOf`). `CallOwner` calls deeper, `CallFails` returns false to the caller or, from
the first call, fails the comparison; `TakeValue` finds a free value and makes the
assignments of all calls as they return true, which nothing can interrupt. Globs keep
their indices in the list of patterns. The order in which the remaining
values are listed is any order of the map's keys. A template entry is given by its
tokens, so that `NewDNSAnswerData` is part of it. **GlobMatch** performs the cuts of
`globMatch` on a pattern given by what `strings.Split` makes of it; `Means` is
the reference. **Resolver** holds `ResolveDNS` and `mapResolveError`: the exchange
is external and ends with a response or a chain of errors, of which only the
answers to the questions of `mapResolveError` are kept. The field `Truncated` is
left out: it matters only for the choice between `transient` and `permanent`, which
`ServerContext` leaves open. **Lists** is what two kinds
of loops over slices compute, the append loops of `ResolveDNS` and of the logger and
its sum; they are recursive functions, so that they can be proved about.

**Config** holds the readers and the conversions of options, **ProgressBar** the
lengths of the two sides of the bar, with the rounding to either neighbour that
floating-point numbers halfway between two allow.

**Program** is a run from the command line to the exit code. `config.Init` is one
action per statement, in its order (`Following`); each either ends the program or
goes on. `OpenOutput` truncates a file between the reading of the list and the
last checks. `StartEngine` makes the settings of the step and dies where
`make(chan)` panics; `ReportServer` reports any server that is left with any
number of failed checks the threshold allows, and appends a valid one to the
output; `FinishStep` decides. The engine is thus an abstraction of what
`Scheduler` does: there, `NoServerLost`, `ReportedOnce` and `VerdictSound` show
that each server is reported once, with a verdict of this kind. Conversely
`EngineReady` shows that `Program` starts the engine only with values that satisfy
the assumptions of `Scheduler`. Files are sequences of words; a word may be `bad`
(no address, no entry) or `overlong` (a line beyond the buffer of `bufio.Scanner`).

## 3. What TLC checks

| Run | Instance | Question |
|---|---|---|
| `scheduler_drops` | 2 servers, 3 checks, drop at the first failure, 2 workers, 1 token, pool 2 | do late results of dropped servers change or block anything |
| `scheduler_retries` | 1 server, 3 checks, 2 attempts, drop at the second failure, rate limit 1 tick | are checks conserved and counted; does the scheduler implement `Verdicts` |
| `scheduler_live` | 2 servers, 2 checks, 2 attempts, pool 1, 1 token | does every run end, with a verdict for each server |
| `rate_limiter` | 2 callers and the refiller, capacity 2 | are the loops atomic and lock-free, does the refiller end |
| `request_rate` | 1 token per second of 2 instants, a server limited to one query in 3 instants, 6 instants, or 4 with a bar | is the shown rate exact, how many requests fit in a second, how many reach one server |
| `request_rate_stop` | the same | can a count have a request twice (yes, after `Stop`) |
| `report_terminal` | 2 servers, bar of 3 rows, output and `-verbose` on the terminal | are lines lost or erased, does the loop end |
| `worker` | globs of up to 3 stars on values of up to 4 letters in both cases; lists of up to 3 records; 2 alternatives; every response and every chain of errors | does an answer pass exactly if the template allows it, and the lack of one only as a timeout |
| `program` | 2 to 4 servers, files of up to 4 words, every combination of valid and invalid options by groups, 18-bit integers | do inputs arrive, is the output exact, is the engine started properly, can the bar be drawn, does every run end |
| `program_list` | the same lists, with and without an overlong line | is the whole list tested (no) |

Why the instances are large enough. A late result of a dropped server needs a
server with three checks: one whose failure drops it while two queries are out.
A second server keeps the loop running, so that late results are also received and
not only left over; two workers make both channels as small as the number of
outstanding results, so that a send can find no room. The pool of
`scheduler_live` is smaller than the list, so that the second server has to wait for
the verdict on the first; in `scheduler_drops` the single token makes the pool grow
one server at a time, so that servers are busy while it can still grow.
In `request_rate` the capacity of one makes every burst visible, and 6 instants
are the first horizon at which the bound of `PeakBounded` is reached: with 5 the
bound could be lowered by one. The interval of a server is longer than a second, so
that a token is there whenever the server is due, and fits twice into the
6 instants. `Init` chooses whether there is a bar; the limits do not depend on it, so
that a run with a bar only needs the 4 instants (`BarTime`) in which batches of two
seconds lie in the array: some are pruned, some kept and moved, and the clock goes
on between two rounds of a count.

In `worker`, rerouting along a chain needs three globs and three values, and among
the patterns is one for each subset of the values; a word of four letters lets two
middle segments overlap, meet or leave a gap, and the values repeat letters so
that a leftmost and a later occurrence differ; two alternatives and two kinds of
records suffice for the loop around it. The chains of errors are all combinations
of answers except that what is an expired deadline, a timed-out lookup or ETIMEDOUT
also calls itself a timeout, as it does in Go.

In `program`, the output may be new, old, one of the inputs, standard output or
unwritable. A bar of 3 runes and up to 4 servers make all three ways of trimming
it happen. `MaxInt` is 2^17 - 1: 20 times the rates 6554, 13108 and 65536 then is
negative, a small positive number and zero, the three outcomes the real overflow
has. Each group varies what belongs together (lists and outputs, templates and
trusted servers, the numbers of a step, the limits) around one valid command
line: the statements of `config.Init` only meet in the files and in `conf`.

Bounds in the models: `MaxTime`, with a bar `BarTime`, stops the clock of `RequestRate`; `elapsed` in
`Scheduler` stops at `QueryInterval`, because a longer wait has the same effect;
`tickerC` and `tick` are channels of capacity one in the code. Nothing else is
capped. Deadlock is checked in all runs: where a run ends there is an explicit
step (`Terminated`, `Returned`, `Idle`). `Idle` is also the loop of an engine that
has no slot or no place in its pool: it runs for ever and does nothing.

**Fairness.** `Scheduler`: weak fairness of the scheduler, of each query (it has a
timeout, so it is answered), of releases, refills and the clock; no fairness of
a particular answer. `RateLimiter` and `Report`: goroutines run, and a `select`
with several ready cases picks at random, so the case that is ready again and again
is taken (strong fairness of `ExitRefiller` and of `LoopReturn`). Ticks and the
main goroutine of `Report` have no fairness: `LoopReturns` does not need it.
`RefillerExits` assumes that the callers come to rest, as they have when
`DNSanitize` calls `StopRefiller`. `Program`: the main goroutine runs, and the
engine reports a server as long as one is left, which is what `Termination` of
`Scheduler` shows.

### Disagreements found

- `scheduler_mismatches`: the README, the usage text and the bar say that a server
  is dropped when *more* than `-max-mismatches` checks fail. `applyResults` drops
  it when *as many* fail (`>=`), except that 0 acts like 1.
- `report_stop`: `Stop` neither locks nor waits. A redraw that had received its
  tick draws a second bar after the final one, once `Stop` has returned, and what
  `main` prints next ends up among its rows. The same race can print the header of
  `-verbose` twice. `NothingLost` and `LinesSurvive` show its limits: no line of a
  server is lost or erased.
- `request_rate_stop`: `Stop` renders the final bar, and with it calls
  `LastSecCount`, without the mutex. If the redraw goroutine is in the same function,
  both compact one array in place. The counterexample has `Stop` read a batch again
  that the other one has just moved back: the final bar shows it twice, and so does
  `OneSecPeak`. Other orders miss batches, and in one the slice has been cut below the
  index that is written next, which is a panic after the last server was reported
  (`IndexOutOfRange`). As long as the two do not overlap, every count is exact
  (`WindowExact`).
- `program_list`: `ParseServerList` never asks `scanner.Err()`. A line longer than
  64 KiB, such as one comma-separated list of some 4000 servers, ends the list
  there; what follows is not tested and the exit code is 0. If it is the first
  line, the list looks empty and the error says so. `loadTemplate` does ask.

Further observations from the models have no run:

- `PrettyDump` decides by `FailedCount`, the verdict by `Disabled`: a server that
  failed a tolerated check is valid for `-o` and "invalid" for `-verbose` (`Label` and
  `Dropped` in `Report`).
- `-threads` and `-max-poolsize` default to `20 * -global-ratelimit`, which is not
  checked for overflow. The product may be negative (a panic in `make(chan)`),
  zero (a loop that never starts a query: the one case in which `EveryRunEnds`
  fails) or, for the pool alone, negative with explicit threads: no bound, because
  `IsFull` compares by equality. The usage text names no upper limit of the rate.
  No property covers this: `EngineReady` and `EveryRunEnds` say how far the
  validation goes, and except it (`Overflow`).
- A positive `-ratelimit` below some 1e-10 makes an interval that exceeds
  a duration; what becomes of it depends on the processor, and
  `EngineReady` promises nothing of it either. `NaN` passes the check
  `< 0` and means no limit.
- The output is truncated before `-global-ratelimit`, `-threads` and
  `-max-poolsize` are checked and before the template is validated: a run that ends
  with exit code 1 or 3 has emptied it. `OutputExact` holds then, too: it promises
  nothing of the old content. When the output is one of the inputs, its content
  has been read (`InputsAsGiven`).
- `ResolveDNS` always asks over UDP; the comment in `dnsanswer.go:105` hopes for
  a retry over TCP, but each further attempt is the same query.
- A server can receive two queries within one `-ratelimit` interval, because the
  interval counts from the start of the iteration; the average is kept
  (`ServerRateKept`).
- A refill that had begun still lands after `StopRefiller` returned (harmless: the
  limiter is dropped).
- `-global-ratelimit` N bounds the average exactly (`AverageRateKept`), while one
  second can see up to 3N+1 requests, 2N with a prompt refiller, whereas the usage
  text calls N the maximum per second.
- "Tests run sequentially" (README) does not hold of a server that the BUSY pass
  queries again.

## 4. What TLAPS proves

### The engine

`SchedulerProofs` proves, for all values of the constants, the theorems listed in
`PROJECT.json`: type correctness and the safety properties of `scheduler_drops`,
with `NoServerLost`, `ChecksConserved`, `CountersAgreeWithAnswers`, and, for
a threshold above the size of the template, that no server is dropped.
Assumptions are those the modules name, all of which the validation in
`internal/config/config.go` establishes (`EngineIsReady`, below): positive
numbers of servers, checks, attempts, workers, pool slots and tokens, and
a threshold that is not negative.

None of these properties is inductive. The invariant is `Inv == Shape /\ Placement
/\ Counters`:

1. `Shape`: types without the bounds of the counters, the control facts that tie
   `toVisit`, `claimant` and `pc` to the pool, and `BurstBounded`.
2. `Placement`: where every check is. `ContextInv`
   relates the fields of one context, `Placed` says that a check is pending, out or
   settled, `ServerInv` ties pool, list position, verdict and outstanding queries
   of a server. `applyResults` is proved to preserve it once and for all in
   `ApplyResultsInv`.
3. `Counters`: `inFlight`, `jobLimiter` and `releasing` are cardinalities of sets
   of queries. `RoomForLateResults` needs this layer: from the end of a
   collection that empties the pool on, the outstanding queries hold slots, and
   there are as many slots as places in the channel. The lemma `JobChange` carries
   the arithmetic of a set that gains or loses one query.

Each layer is proved inductive assuming the ones before it (`NextShape`,
`NextPlacement`, `NextCounters`), with one step per action.

The second half goes on from `Inv` to what the status reporter is told. Two
lemmas say what a step can do to it: `CollectedOutcomes` (a collected result settles
its check unless it is retried, and decides at most its own server) with
`CollectedCounts`, and `OtherStepsReportNothing` (no other step changes a verdict, a
counter or an outcome). Given these:

- `ServersAreCountedOnce`: the three counters of the reporter are cardinalities of
  sets of servers, and a server enters its set in the step that gives its verdict.
- `ProgressIsExact`: the planned checks exceed the done ones by a sum over the
  servers; one collected result changes one summand, by what it adds to the two
  counters. `ProgressIsMonotone` follows, cross-multiplied as the bar is.
- `BusyServersComeLast` needs a further invariant, `DispatchInv`: what the
  BUSY pass found out when it began (no server can be loaded) stays true until
  it ends, because only a collected verdict makes room.
- `SchedulerKeepsPromise`, the refinement of `Verdicts`: a result that is retried
  and every step that is no collection stutter, a collection that settles a check
  is the one step of `Verdicts`. That `Verdicts` never settles a check of a decided
  server is where `CancelledNeverCollected` and `Undecided` are used.

### The limiter and the rates

`RateLimiterProofs` assumes what `TokenBucket` names (a positive capacity) and a
number of spins. `TypeOK` is not inductive: a swap could store a value out of
bounds if it followed the load of a value at which the method gives up. `LoopInv`
excludes that, and ties the call in progress to the place of a process. With it
`BucketIsLinearizable` is one step per action: the load that gives up and the swap
that succeeds are the steps of `AtomicBucket`, everything else stutters, the failed
swaps and the spinning included.

`RequestRateProofs` is about any capacity, length of a second, interval and
horizon. None of its properties is inductive, as each speaks of an interval in
the past. `BucketInv` says what may still be launched without a tick: `Credit` is
the tokens, the one the scheduler holds between taking it and asking for a slot, and
the refill that a waiting tick promises. Launches and credit together are paid by
the initial bucket and the ticks (`TokensFromTicks`, hence `AverageIsKept`), and from
any instant on by one bucket that was full, one promised, one token held, and the
ticks since (`CreditFromTicks`, `LaunchesFromTicks`, hence `PeakIsBounded`: an
interval of a second has one tick). `ServerInv` does the same for one
server: from the first launch on there is one interval per launch up to
`NextQueryAt` (`OneIntervalEach`), a server that is due has received nothing since
its iteration began (`DueMeansUntouched`), and of any two launches the later waits
for the interval of the earlier, counted from the start of an iteration
(`SecondOneWaits`), so that no interval sees three (`AtMostTwo`, `ServerRateIsKept`).

`WindowIsExact` is about the batches of the logger, as long as the renderings have
not overlapped (`~raced`). Its invariant `WindowInv` says what the array holds, at
rest and in the middle of a count. At rest the slice holds everything logged within
the second before now. In a count, the batches moved to the front so far and those not
looked at yet hold everything logged within the second before the count began, and
the sum is that of the batches in front. It is kept because
- a round that keeps a batch writes to the front, over one that was already looked
  at (`KeepRound`), and one that drops a batch drops one that no later count wants
  either (`DropRound`);
- while the redraw goroutine counts, the mutex keeps the scheduler from logging, and
  `Stop` comes when there is nothing more to log (`LogKeeps`, `BeginKeeps`);
- a prune by the beginning of an iteration leaves batches that are too old, which
  the next count removes, and takes none away that it would count (`PruneKeeps`).

The sums and the append loops are those of `ListProofs`: what `Chosen` keeps weighs
what the chosen items weigh (`TotalOfChosen`), an item that grows makes a sum grow
by as much (`TotalOneLarger`), and a sum only depends on the items it is over
(`TotalPrefix`), each by an induction over the length.

### The reporter

`ReportProofs` proves `PrintedLinesSurvive` and `NothingIsLost` for any servers, any
height of the bar and any choice of output files. The invariant says where the
lines are (`LinesKept`: on the terminal, in their file or in the cache), that the
rows the next redraw erases hold none (`Erasable`), and that whoever is about to
clear the cache has its lines in hand or on the terminal (`CacheWritten`). The last
one is what makes the missing lock of `Stop` harmless: `Stop` begins after the last
report, so that nobody adds to the cache any more, and clearing it twice is
clearing it. `RedrawEffect`, `EndedEffect` and `PrintAtEffect` say what the three
ways of writing do to a sequence of rows.

### The program

`ProgramProofs` proves all safety properties of the run `program`, for every set of
command lines and files, every width of the bar and every size of integers. Its
invariants are layers as well; each is inductive given the ones it is listed with.

1. `Typed`: types. What the scanner yields of a file is a file (`ScannedType`).
2. `Given` (with `Typed`): the files are as they were until the last input is
   read, and each field of `conf` is what its argument stood for at the start. It
   gives `InputsArrive`. The order of the statements in `config.Init` is what it
   rests on.
3. `Checked` (with `Typed`): what each statement established still holds when the
   engine starts. It gives `EngineIsReady`; `NoWrap` and `LimitsFit` are the
   arithmetic of the defaults.
4. `Recorded` (with `Typed`): the maps of reports grow within their lists, and
   step 2 stands behind a clean step 1. It gives `TemplateComesFirst` and, with
   `ReportsFinite`, that the counters of the bar never exceed its total.
5. `Written` (with all but `Checked`): the output mirrors the reports of step 2.
   `TimesAppend` and `AcceptedGrows` say that a line and a report add the same.
   It gives `OutputIsExact`.

`InitOutcome` says once what the nine statements of `config.Init` can do, so that
each layer splits into that, the engine's start, a report, and the end of a step.

The module begins with a proof that the bar fits whenever the counters do not exceed
their total (`BarAlwaysFits`), whichever way a number halfway is rounded:
two sides that are one rune too long together have two partly filled runes, and
rounding never makes them longer than that. With layer 4 this is `BarIsDrawn`.

### The worker

`GlobMatchProofs` is about `globMatch` alone, for patterns of any number of segments
and values of any length over any letters. `CutsNotRegretted`: after any number of
cuts, the whole means the whole exactly if the cuts were found and the rest means
the rest. It rests on `MeansInTwoParts`, which splits what a pattern means at any
segment, and on `NextCutRight`: if some occurrence of a segment leads to a match, so
does the leftmost, because the star behind it takes what lies between. The induction
over the segments (`CutsRight`) is over the set of numbers for which the claim
holds (`SetInduction`, from the well-foundedness of the naturals). `GlobsMeans` adds
the last segment (`LastSegment`) and the case of the letters: `globMatch` decides
what the pattern means.

`WorkerProofs` proves every property of the run `worker`, for any entries and
responses, in layers again:

1. `Typed` and `StatusFirst`: records are lower-cased words, and are compared only
   for an alternative with the right status. They give `SilenceFails`, which is about all
   chains of errors: without a response a check passes only by an alternative
   `TIMEOUT` and for a time limit that ran out. A cancelled query is no exception if
   its own deadline had expired, which `mapResolveError` asks first; the timeout that
   the closed socket reports is not enough.
2. `Counted`: what `valueCounts` and `globs` hold in each phase. With
   `CutsNotRegretted` it gives `NoCutIsRegretted`.
3. `Assigning` (with `Counted`): `KeptBy` says that the globs so far own one value
   each, one they match. While `tryAugment` runs, `Chain` says that each call wants a
   value of its own that its glob matches, and that of every value that was tried
   and given up, the owner's values have all been tried. `PathTaken` shows that
   moving the owners along such a chain keeps `KeptBy`; this is `AssignmentIsKept`.
4. `Decided`: the alternatives tried so far do not allow the answer. It needs
   that each way out of `matchRecords` is right (`Step`, one lemma per phase):
   - the exact patterns may go first: a pairing of all patterns with all values
     and a pairing of the globs with what is left imply one another
     (`PairsMatchGlobs`, `GlobsMatchPairs`), by counting how often each value is taken
     (`ExactAndGlobs`) and building a bijection from equal counts
     (`BijectionByLabel`);
   - when every glob has its value, that is a pairing (`AssignedMatches`);
   - when the call for a glob fails, the values tried are all that it and the owners
     of these values match, and are one fewer than those globs
     (`FailedCallExcludes`, the pigeonhole principle), so that there is no pairing.

   This gives `WorkerDecides`: `Matches` returns true exactly if an alternative
   allows the answer, whatever order the map was ranged over.

### Only model-checked

- Everything under fairness, which is beyond the prover: `Termination`,
  `KeepsPromiseInTheEnd`, `LockFree`, `RefillerExits`, `LoopReturns`, `EveryRunEnds`.

## 5. Plan

Done: the scheduler with its parts, its proofs and its refinement; the limiter, the
rates and the reporter with their proofs; the bar; resolving, parsing and
matching with their proofs; configuration and program with their proofs. Every
safety and action property that a passing run checks is a theorem.

## 6. Not modelled

- Text layout: ETA, percentages, spinner, colours, the final redraw of the bar with
  full runes, `-debug` lines with the peaks and averages of the gauges,
  `ToString`, `PrettyDump` beyond its first line. No decision depends on them.
- The buffer in which step 1 keeps its `-verbose` output until it fails: it is
  written by the reporter modelled in `Report` and printed once.
- `internal/tty`: which file is a terminal is an input of `Report`; removing ANSI
  sequences is formatting.
- The DNS exchange itself and its client: external, any outcome is possible.
  `net.ParseIP` and the record types beyond A and CNAME likewise.
- The `flag` package: a command line is a request for help or the version, an error,
  or values. Several inputs that share one standard input, where the second reader
  finds what the first one left, are outside the instances of `program`.
- `-timeout` and `-trusted-timeout` times a second, which overflows for values
  beyond 292 years: the length of a timeout is abstracted to the possibility that
  a query ends without a response.

`PROJECT.json` gives the status of each component.
