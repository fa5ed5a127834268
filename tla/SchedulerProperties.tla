------------------------- MODULE SchedulerProperties -------------------------
(***************************************************************************)
(* What scheduleChecks must guarantee, whatever the order in which workers *)
(* answer, release their slots, tokens are refilled and time passes.       *)
(***************************************************************************)
EXTENDS Scheduler

\* The type of every variable, with the bounds that no counter may leave.
TypeOK ==
  /\ PoolTypeOK
  /\ srv \in [Servers -> Context]
  /\ job \in [Servers -> [Checks -> Jobs]]
  /\ releasing \in 0 .. Cap
  /\ jobLimiter \in 0 .. Cap
  /\ inFlight \in [Servers -> 0 .. NumChecks]
  /\ tokens \in Tokens
  /\ pc \in Phases
  /\ pass \in {0, 1}
  /\ toVisit \subseteq pool
  /\ claimant \in Servers \cup {Nobody}
  /\ freeJobs \in Int
  /\ poolCanGrow \in BOOLEAN
  /\ elapsed \in 0 .. QueryInterval
  /\ status \in Status
  /\ verdict \in [Servers -> Verdicts]
  /\ taken \in Nat

-----------------------------------------------------------------------------
(* Conservation of the work.                                               *)

HasQuery(s, c) == job[s][c] # "none"

Pending(s, c) == c \in PendingChecks(srv[s])

\* A check of a loaded server is in exactly one place: waiting in
\* PendingChecks (once), out as a query or a result, or settled by its last
\* answer.  A retry that lost or duplicated a check would break this.
ChecksConserved ==
  \A s \in pool :
    /\ NoRepeat(srv[s].pending)
    /\ \A c \in Checks :
         /\ Pending(s, c) \/ HasQuery(s, c) \/ Settled(srv[s], c)
         /\ ~(Pending(s, c) /\ HasQuery(s, c))
         /\ Settled(srv[s], c) => ~Pending(s, c) /\ ~HasQuery(s, c)

\* FailedCount and CompletedCount agree with the answers they summarise, so
\* that Finished and the drop threshold decide on the right numbers.
CountersAgreeWithAnswers ==
  \A s \in Servers :
    /\ srv[s].completed = Cardinality(SettledChecks(srv[s]))
    /\ srv[s].failed = Cardinality(FailedChecks(srv[s]))

\* The scheduler's inFlight map counts the workers and unread results of each
\* server, those of dropped servers included: a server is called idle only
\* when nothing of it is outstanding.
InFlightExact ==
  \A s \in Servers : inFlight[s] = Cardinality({c \in Checks : HasQuery(s, c)})

\* Each slot of JobLimiter is held by one worker that resolves or one that
\* has sent its result and not released yet.
SlotsHeldByWorkers == jobLimiter = Cardinality(Querying) + releasing

\* A server taken from the list stays in the pool until it is reported, and
\* the pool never exceeds -max-poolsize.
NoServerLost ==
  /\ pool = {s \in 1 .. dequeueIdx : verdict[s] = "none"}
  /\ \A s \in Servers : s > dequeueIdx => verdict[s] = "none"
  /\ Cardinality(pool) <= MaxPoolSize

-----------------------------------------------------------------------------
(* Workers and channels.                                                   *)

\* From the end of a collection that leaves the pool empty, all outstanding
\* results fit into the channel Results.  waitGroup.Wait() reads no result,
\* so a worker blocked in its send would never be waited for.
RoomForLateResults ==
  pc # "collect" /\ pool = {} => Cardinality(Outstanding) <= Cap

\* Only a dropped server leaves queries behind.
OrphansOnlyOfDropped ==
  \A s \in Servers, c \in Checks :
    HasQuery(s, c) => s \in pool \/ verdict[s] = "invalid"

\* The answer of a cancelled query never enters the answers of a server:
\* the verdict and the report of a dropped server name real answers.
CancelledNeverCounts ==
  \A s \in Servers, c \in Checks : srv[s].answer[c] # "cancelled"

\* A second query to a busy server leaves only while the pool cannot grow,
\* although the decision was taken at the start of the iteration.
BusyOnlyWhenPoolCannotGrow ==
  [][\A s \in Servers :
       inFlight[s] > 0 /\ inFlight'[s] > inFlight[s] => ~CanGrow]_vars

-----------------------------------------------------------------------------
(* Verdicts and reports.                                                   *)

DropThreshold == IF MaxFailures = 0 THEN 1 ELSE MaxFailures

\* A server is reported valid only when every check has its last answer and
\* fewer failed than drop it, invalid only when enough of them failed.
VerdictSound ==
  \A s \in Servers :
    /\ verdict[s] = "valid" =>
         /\ SettledChecks(srv[s]) = Checks
         /\ Cardinality(FailedChecks(srv[s])) < DropThreshold
    /\ verdict[s] = "invalid" =>
         Cardinality(FailedChecks(srv[s])) >= DropThreshold

\* Late results change neither the verdict of a reported server nor the
\* answers that were printed for it.
ReportIsFinal ==
  [][\A s \in Servers :
       verdict[s] # "none" =>
         verdict'[s] = verdict[s] /\ srv'[s] = srv[s]]_vars

\* Every server is counted once, and ServersWithFailures, which decides
\* whether the template is rejected, counts the servers with a failed check.
ReportedOnce ==
  /\ status.valid = Cardinality({s \in Servers : verdict[s] = "valid"})
  /\ status.invalid = Cardinality({s \in Servers : verdict[s] = "invalid"})
  /\ status.withFailures =
       Cardinality({s \in Servers : /\ verdict[s] # "none"
                                    /\ FailedChecks(srv[s]) # {}})

\* Planned and done checks differ by what the servers without a verdict have
\* not settled: the bar reaches 100% exactly when the last one is reported.
ProgressExact ==
  status.totalChecks - status.doneChecks =
    Cardinality({p \in Pairs : /\ verdict[p[1]] = "none"
                               /\ ~Settled(srv[p[1]], p[2])})

\* The displayed fraction done / total never goes down, although a retry
\* raises the total and a drop lowers it.
ProgressNeverRegresses ==
  [][status'.doneChecks * status.totalChecks >=
     status.doneChecks * status'.totalChecks]_vars

\* With the drop threshold validateTemplate chooses, len(template) + 1, a
\* trusted server is never dropped, so all its checks run.
NeverDropped == \A s \in Servers : verdict[s] # "invalid"

\* What the documentation of -max-mismatches says: a server is dropped once
\* it accumulates more failed checks than the allowed number.  The code drops
\* it when they are as many.
DroppedOnlyBeyondLimit ==
  \A s \in Servers :
    verdict[s] = "invalid" => Cardinality(FailedChecks(srv[s])) > MaxFailures

-----------------------------------------------------------------------------
(* The global rate limit.                                                  *)

\* Between two refills no more tokens are taken than the bucket holds, even
\* when one is given back to a bucket refilled since it was taken.
BurstBounded == taken + tokens <= MaxTokens

-----------------------------------------------------------------------------
(* Progress, and the promise of a run.                                     *)

\* scheduleChecks returns, whatever the workers answer.
Termination == <>(pc = "done")

\* The outcome of a check is open until its answer is the last one.
Outcome(ctx, c) ==
  IF ~Settled(ctx, c) THEN "open"
  ELSE IF Matches(ctx.answer[c]) THEN "passed"
  ELSE "failed"

Promise == INSTANCE Verdicts
  WITH outcome <- [s \in Servers |-> [c \in Checks |-> Outcome(srv[s], c)]]

\* The scheduler does what module Verdicts promises: a result either leaves
\* every outcome open or settles one check and, if that decides the server,
\* reports it in the same step.
KeepsPromise == Promise!Spec

\* The same with liveness: as long as a server lacks a verdict, another check
\* gets settled.
KeepsPromiseInTheEnd == Promise!FairSpec
=============================================================================
