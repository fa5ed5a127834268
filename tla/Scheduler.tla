------------------------------ MODULE Scheduler ------------------------------
(***************************************************************************)
(* DNSanitize and scheduleChecks (internal/dnsanitize/dnsanitize.go): one  *)
(* scheduler goroutine, the worker goroutines it launches, the ticker that *)
(* refills the global rate limiter, and the clock.                         *)
(*                                                                         *)
(* The scheduler repeats one iteration: collect the results that wait in   *)
(* the channel, take the time and count the free job slots, dispatch       *)
(* queries in an IDLE and perhaps a BUSY pass over the pool, then grow the *)
(* pool or leave.  Every step is one that another goroutine can precede or *)
(* follow: each receive, each visit of a server, each end of a phase.      *)
(***************************************************************************)
EXTENDS ServerContext, ServerPool, TokenBucket

CONSTANT MaxThreads     \* -threads

ASSUME ThreadsAssumption == MaxThreads \in Nat \ {0}

VARIABLES
  srv,           \* ServerContext of each server, loaded or not
  job,           \* job[s][c]: the query of check c at server s, see Jobs
  releasing,     \* workers that have sent their result and hold a slot
  jobLimiter,    \* len(JobLimiter): job slots taken
  inFlight,      \* the map inFlight; a missing key is 0
  tokens,        \* tokens of the global rate limiter
  pc,            \* phase of the scheduler
  pass,          \* the loop variable: 0 is the IDLE pass, 1 the BUSY pass
  toVisit,       \* servers the range over pool.pool has still to yield
  claimant,      \* the server a token was just taken for, or Nobody
  freeJobs,      \* the local variable, computed once per iteration
  poolCanGrow,   \* the local variable, computed once per iteration
  elapsed,       \* ticks since the scheduler last took the time
  status,        \* the counters of report.StatusReporter
  verdict,       \* what ReportFinishedServer has said of each server
  taken          \* history: tokens taken since the last refill and kept

vars == <<dequeueIdx, pool, srv, job, releasing, jobLimiter, inFlight, tokens,
          pc, pass, toVisit, claimant, freeJobs, poolCanGrow, elapsed,
          status, verdict, taken>>

iterationVars == <<pass, toVisit, claimant, freeJobs, poolCanGrow>>
workerVars    == <<job, releasing, jobLimiter>>
bucketVars    == <<tokens, taken>>
reportVars    == <<status, verdict>>

\* min(s.MaxThreads, len(s.ServerIPs) * len(s.Template)): the capacity of
\* both channels, JobLimiter and Results.
Cap == MinOf(MaxThreads, NumServers * NumChecks)

\* "none", no query exists; "query", a worker is resolving it; an answer,
\* the worker has sent it and it waits in the channel Results.  Workers race
\* to send, so the order of the channel is any order.
Jobs == {"none", "query"} \cup Answers

Pairs == Servers \X Checks

JobsIn(states) == {p \in Pairs : job[p[1]][p[2]] \in states}

Querying    == JobsIn({"query"})
Results     == JobsIn(Answers)
Outstanding == Querying \cup Results

Nobody == 0

Phases ==
  {"collect", "snapshot", "dispatch", "slot", "grow", "wait", "done"}

Verdicts == {"none", "valid", "invalid"}

Status == [ valid        : Nat,    \* ValidServers
            invalid      : Nat,    \* InvalidServers
            withFailures : Nat,    \* ServersWithFailures
            doneChecks   : Nat,
            totalChecks  : Int ]

Init ==
  /\ PoolInit
  /\ srv = [s \in Servers |-> NewServerContext]
  /\ job = [s \in Servers |-> [c \in Checks |-> "none"]]
  /\ releasing = 0
  /\ jobLimiter = 0
  /\ inFlight = [s \in Servers |-> 0]
  /\ tokens = RefillAmount
  /\ pc = "collect"
  /\ pass = 0
  /\ toVisit = {}
  /\ claimant = Nobody
  /\ freeJobs = 0
  /\ poolCanGrow = FALSE
  /\ elapsed = 0
  /\ status = [ valid |-> 0, invalid |-> 0, withFailures |-> 0,
                doneChecks |-> 0, totalChecks |-> NumServers * NumChecks ]
  /\ verdict = [s \in Servers |-> "none"]
  /\ taken = 0

-----------------------------------------------------------------------------
(* Calls into the status reporter.                                         *)

AddDoneChecks(st, total) ==
  [st EXCEPT !.doneChecks = @ + 1, !.totalChecks = @ + total]

Count(b) == IF b THEN 1 ELSE 0

CountFailuresOfDropped(st, ctx) ==
  [st EXCEPT !.withFailures = @ + Count(ctx.disabled),
             !.invalid      = @ + Count(ctx.disabled),
             !.valid        = @ + Count(~ctx.disabled)]

ReportFinishedServer(st, ctx) ==
  [st EXCEPT !.withFailures = @ + Count(ctx.failed > 0),
             !.invalid      = @ + Count(ctx.disabled),
             !.valid        = @ + Count(~ctx.disabled)]

VerdictOf(ctx) == IF ctx.disabled THEN "invalid" ELSE "valid"

-----------------------------------------------------------------------------
(* 1) Collection of the results.                                           *)

\* The worker is done with s: the counter of s goes down, and the key is
\* deleted rather than set to zero.
LandedAlone(n) == 0

Landed(n) == IF n > 1 THEN n - 1 ELSE 0

LoadedOrDropped(s) == s <= dequeueIdx

\* pool.Get finds the server: it was not dropped since.
Loaded(s) == s \in pool

\* Receive a result of a server that is still in the pool.
CollectResult(s, c) ==
  /\ pc = "collect"
  /\ <<s, c>> \in Results
  /\ Loaded(s)
  /\ LET a       == job[s][c]
         next    == ApplyResults(srv[s], c, a)
         counted == AddDoneChecks(status, TotalChecksDelta(srv[s], c, a))
     IN  /\ srv' = [srv EXCEPT ![s] = next]
         /\ IF Finished(next)
              THEN /\ status' = ReportFinishedServer(counted, next)
                   /\ verdict' = [verdict EXCEPT ![s] = VerdictOf(next)]
                   /\ Unload(s)
              ELSE /\ status' = counted
                   /\ UNCHANGED <<verdict, poolVars>>
  /\ job' = [job EXCEPT ![s][c] = "none"]
  /\ inFlight' = [inFlight EXCEPT ![s] = Landed(@)]
  /\ UNCHANGED <<releasing, jobLimiter, bucketVars, pc, iterationVars, elapsed>>

\* Receive a result of a server that was dropped while the query ran.
DiscardResult(s, c) ==
  /\ pc = "collect"
  /\ <<s, c>> \in Results
  /\ ~Loaded(s)
  /\ job' = [job EXCEPT ![s][c] = "none"]
  /\ inFlight' = [inFlight EXCEPT ![s] = Landed(@)]
  /\ UNCHANGED <<poolVars, srv, releasing, jobLimiter, bucketVars, pc,
                 iterationVars, elapsed, reportVars>>

CollectOnce == TRUE

NothingToCollect == Results = {}

\* The default branch of the select: the channel was seen empty.
EndCollect ==
  /\ pc = "collect"
  /\ NothingToCollect
  /\ pc' = "snapshot"
  /\ UNCHANGED <<poolVars, srv, workerVars, inFlight, bucketVars,
                 iterationVars, elapsed, reportVars>>

-----------------------------------------------------------------------------
(* 2) Scheduling of new queries.                                           *)

Remaining(t, d) == IF t > d THEN t - d ELSE 0

\* now := time.Now(), CanGrow() and the free slots, all used until the end of
\* the iteration while time passes and workers release their slots.
Snapshot ==
  /\ pc = "snapshot"
  /\ srv' = [s \in Servers |->
               IF s \in pool
                 THEN [srv[s] EXCEPT !.nextQueryIn = Remaining(@, elapsed)]
                 ELSE srv[s]]
  /\ elapsed' = 0
  /\ poolCanGrow' = CanGrow
  /\ freeJobs' = Cap - jobLimiter
  /\ pass' = 0
  /\ IF freeJobs' > 0
       THEN pc' = "dispatch" /\ toVisit' = pool
       ELSE pc' = "grow"     /\ toVisit' = {}
  /\ UNCHANGED <<poolVars, workerVars, inFlight, bucketVars, claimant,
                 reportVars>>

Idle(s) == inFlight[s] = 0

\* What the loop tests before it asks the rate limiter for a token.
MayQuery(s) ==
  /\ Idle(s) = (pass = 0)
  /\ srv[s].pending # <<>>
  /\ srv[s].nextQueryIn = 0

Visit(s) ==
  /\ pc = "dispatch"
  /\ s \in toVisit
  /\ toVisit' = toVisit \ {s}
  /\ UNCHANGED <<poolVars, srv, workerVars, inFlight, pass, freeJobs,
                 poolCanGrow, elapsed, reportVars>>

SkipServer(s) ==
  /\ Visit(s)
  /\ ~MayQuery(s) \/ ~CanConsume(tokens)
  /\ UNCHANGED <<bucketVars, pc, claimant>>

\* ConsumeOne() grants a token; a slot is asked for next.
TakeToken(s) ==
  /\ Visit(s)
  /\ MayQuery(s)
  /\ CanConsume(tokens)
  /\ tokens' = ConsumeOne(tokens)
  /\ taken' = taken + 1
  /\ pc' = "slot"
  /\ claimant' = s

EndVisit ==
  /\ pc' = "dispatch"
  /\ claimant' = Nobody
  /\ UNCHANGED <<poolVars, releasing, pass, toVisit, poolCanGrow, elapsed,
                 reportVars>>

\* A slot is free: launch a worker for the first pending check.
LaunchQuery(s) ==
  /\ pc = "slot"
  /\ s = claimant
  /\ jobLimiter < Cap
  /\ jobLimiter' = jobLimiter + 1
  /\ inFlight' = [inFlight EXCEPT ![s] = @ + 1]
  /\ job' = [job EXCEPT ![s][Head(srv[s].pending)] = "query"]
  /\ srv' = [srv EXCEPT ![s].pending = Tail(@),
                        ![s].nextQueryIn = QueryInterval]
  /\ freeJobs' = freeJobs - 1
  /\ UNCHANGED bucketVars
  /\ EndVisit

\* No slot is free: the token is given back, perhaps to a bucket that was
\* refilled in between.
NoFreeSlot ==
  /\ pc = "slot"
  /\ jobLimiter = Cap
  /\ tokens' = GiveBackOne(tokens)
  /\ taken' = Remaining(taken, 1)
  /\ UNCHANGED <<srv, job, jobLimiter, inFlight, freeJobs>>
  /\ EndVisit

BusyPassWhenSlotsLeft == freeJobs > 0

BusyPassFollows == freeJobs > 0 /\ ~poolCanGrow

\* The BUSY pass follows only if slots are left and the pool cannot grow.
EndPass ==
  /\ pc = "dispatch"
  /\ toVisit = {}
  /\ IF pass = 0 /\ BusyPassFollows
       THEN /\ pass' = 1
            /\ toVisit' = pool
            /\ UNCHANGED pc
       ELSE /\ pc' = "grow"
            /\ pass' = 0
            /\ UNCHANGED toVisit
  /\ UNCHANGED <<poolVars, srv, workerVars, inFlight, bucketVars, claimant,
                 freeJobs, poolCanGrow, elapsed, reportVars>>

-----------------------------------------------------------------------------
(* 3) and 4) Termination of the loop, growth of the pool.                  *)

\* Both locals are dead once the iteration ends.
EndIteration ==
  /\ freeJobs' = 0
  /\ poolCanGrow' = FALSE
  /\ UNCHANGED <<pass, toVisit, claimant, srv, workerVars, inFlight,
                 bucketVars, elapsed, reportVars>>

LeaveLoop ==
  /\ pc = "grow"
  /\ IsDrained
  /\ pc' = "wait"
  /\ UNCHANGED poolVars
  /\ EndIteration

ToLoad == MinOf(tokens, freeJobs)

GrowPool ==
  /\ pc = "grow"
  /\ ~IsDrained
  /\ pc' = "collect"
  /\ IF poolCanGrow /\ freeJobs # 0 /\ ToLoad > 0
       THEN LoadN(ToLoad)
       ELSE UNCHANGED poolVars
  /\ EndIteration

\* waitGroup.Wait(): every worker has called Done.
Wait ==
  /\ pc = "wait"
  /\ Querying = {}
  /\ releasing = 0
  /\ pc' = "done"
  /\ UNCHANGED <<poolVars, srv, workerVars, inFlight, bucketVars,
                 iterationVars, elapsed, reportVars>>

-----------------------------------------------------------------------------
(* The other goroutines.                                                   *)

\* runDNSWorker: ResolveDNS returns, and the send finds room in Results.
\* Only a cancelled context makes the answer "cancelled"; a query that was
\* answered before the cancellation keeps its answer.
WorkerSend(s, c, a) ==
  /\ <<s, c>> \in Querying
  /\ Cardinality(Results) < Cap
  /\ a = "cancelled" => srv[s].cancelled
  /\ job' = [job EXCEPT ![s][c] = a]
  /\ releasing' = releasing + 1
  /\ UNCHANGED <<poolVars, srv, jobLimiter, inFlight, bucketVars, pc,
                 iterationVars, elapsed, reportVars>>

\* <-sched.JobLimiter, then waitGroup.Done().
WorkerRelease ==
  /\ releasing > 0
  /\ releasing' = releasing - 1
  /\ jobLimiter' = jobLimiter - 1
  /\ UNCHANGED <<poolVars, srv, job, inFlight, bucketVars, pc, iterationVars,
                 elapsed, reportVars>>

Refill ==
  /\ pc # "done"
  /\ tokens < MaxTokens
  /\ tokens' = RefillOnce(tokens)
  /\ taken' = 0
  /\ UNCHANGED <<poolVars, srv, workerVars, inFlight, pc, iterationVars,
                 elapsed, reportVars>>

\* Time passes; a difference of QueryInterval is as good as a longer one.
Tick ==
  /\ pc # "done"
  /\ elapsed < QueryInterval
  /\ elapsed' = elapsed + 1
  /\ UNCHANGED <<poolVars, srv, workerVars, inFlight, bucketVars, pc,
                 iterationVars, reportVars>>

Terminated ==
  /\ pc = "done"
  /\ UNCHANGED vars

SchedulerStep ==
  \/ \E s \in Servers, c \in Checks : CollectResult(s, c) \/ DiscardResult(s, c)
  \/ EndCollect
  \/ Snapshot
  \/ \E s \in Servers : SkipServer(s) \/ TakeToken(s) \/ LaunchQuery(s)
  \/ NoFreeSlot
  \/ EndPass
  \/ LeaveLoop
  \/ GrowPool
  \/ Wait

Answer(s, c) == \E a \in Answers : WorkerSend(s, c, a)

Next ==
  \/ SchedulerStep
  \/ \E s \in Servers, c \in Checks : Answer(s, c)
  \/ WorkerRelease
  \/ Refill
  \/ Tick
  \/ Terminated

Spec == Init /\ [][Next]_vars

\* The goroutines are scheduled fairly by the Go runtime, each query has a
\* timeout, the ticker ticks and time passes.
Fairness ==
  /\ WF_vars(SchedulerStep)
  /\ \A s \in Servers, c \in Checks : WF_vars(Answer(s, c))
  /\ WF_vars(WorkerRelease)
  /\ WF_vars(Refill)
  /\ WF_vars(Tick)

FairSpec == Spec /\ Fairness
=============================================================================
