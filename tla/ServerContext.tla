---------------------------- MODULE ServerContext ----------------------------
(***************************************************************************)
(* The state kept for one DNS server under test (type ServerContext of     *)
(* internal/dns/servercontext.go) and the only function that updates it,   *)
(* applyResults of internal/dnsanitize/dnsanitize.go.  A context is a      *)
(* record; the operators are functions from records to records.            *)
(*                                                                         *)
(* A DNS answer is abstracted to what the scheduler can tell apart:        *)
(*   match      the template entry matches it (WorkerResult.Passed)        *)
(*   transient  a mismatch that IsWorthRetrying accepts: TIMEOUT, SERVFAIL *)
(*              or a truncated NOERROR                                     *)
(*   permanent  any other mismatch                                         *)
(*   cancelled  the mismatch ResolveDNS returns once the context of the    *)
(*              server is cancelled                                        *)
(***************************************************************************)
EXTENDS Integers, Sequences, FiniteSets

CONSTANTS
  NumChecks,      \* entries of the template
  MaxAttempts,    \* -max-attempts
  MaxFailures,    \* Settings.PerSrvMaxFailures, from -max-mismatches
  QueryInterval   \* 1 / -ratelimit, in ticks of the clock; 0 is unlimited

\* config.Init rejects an empty template, attempts < 1 and mismatches < 0.
ASSUME ContextAssumption ==
  /\ NumChecks \in Nat \ {0}
  /\ MaxAttempts \in Nat \ {0}
  /\ MaxFailures \in Nat
  /\ QueryInterval \in Nat

Checks == 1 .. NumChecks

Answers == {"match", "transient", "permanent", "cancelled"}

Skipped == "SKIPPED"    \* the placeholder answer of a check never tried

Context ==
  [ pending      : Seq(Checks),                     \* PendingChecks
    attemptsLeft : [Checks -> 0 .. MaxAttempts],
    answer       : [Checks -> Answers \cup {Skipped}],
    failed       : 0 .. NumChecks,                  \* FailedCount
    completed    : 0 .. NumChecks,                  \* CompletedCount
    disabled     : BOOLEAN,
    cancelled    : BOOLEAN,                         \* Ctx.Err() # nil
    nextQueryIn  : 0 .. QueryInterval ]             \* NextQueryAt - now

NewServerContext ==
  [ pending      |-> [i \in Checks |-> i],
    attemptsLeft |-> [c \in Checks |-> MaxAttempts],
    answer       |-> [c \in Checks |-> Skipped],
    failed       |-> 0,
    completed    |-> 0,
    disabled     |-> FALSE,
    cancelled    |-> FALSE,
    nextQueryIn  |-> 0 ]

Matches(a) == a = "match"

IsWorthRetrying(a) == a = "transient"

NothingPending(ctx) == ctx.disabled \/ ctx.pending = <<>>

Finished(ctx) == ctx.disabled \/ ctx.completed = NumChecks

-----------------------------------------------------------------------------
(* applyResults: the result a of check c reaches the context.              *)

RetryIgnoringAttempts(ctx, c, a) == ~Matches(a) /\ IsWorthRetrying(a)

\* Whether the result re-queues the check: a transient mismatch with an
\* attempt left after this one.
WillRetry(ctx, c, a) ==
  /\ ~Matches(a)
  /\ ctx.attemptsLeft[c] - 1 > 0
  /\ IsWorthRetrying(a)

DropOneLate(failed) == failed > MaxFailures

ReachesDropThreshold(failed) == failed >= MaxFailures

FailWithoutCounting(ctx) == [ctx EXCEPT !.completed = @ + 1]

Fail(ctx) ==
  LET n    == ctx.failed + 1
      drop == ReachesDropThreshold(n)
  IN  [ctx EXCEPT !.completed = @ + 1,
                  !.failed    = n,
                  !.disabled  = @ \/ drop,
                  !.cancelled = @ \/ drop]

ApplyTwiceOnRetry(ctx, c, a) ==
  LET seen == [ctx EXCEPT !.attemptsLeft[c] = @ - 1, !.answer[c] = a]
  IN  IF Matches(a) THEN [seen EXCEPT !.completed = @ + 1]
      ELSE IF WillRetry(ctx, c, a) THEN [seen EXCEPT !.pending = <<c, c>> \o @]
      ELSE Fail(seen)

LoseCheckOnRetry(ctx, c, a) ==
  LET seen == [ctx EXCEPT !.attemptsLeft[c] = @ - 1, !.answer[c] = a]
  IN  IF Matches(a) THEN [seen EXCEPT !.completed = @ + 1]
      ELSE IF WillRetry(ctx, c, a) THEN seen
      ELSE Fail(seen)

ApplyResults(ctx, c, a) ==
  LET seen == [ctx EXCEPT !.attemptsLeft[c] = @ - 1, !.answer[c] = a]
  IN  IF Matches(a) THEN [seen EXCEPT !.completed = @ + 1]
      ELSE IF WillRetry(ctx, c, a) THEN [seen EXCEPT !.pending = <<c>> \o @]
      ELSE Fail(seen)

CancelBeforeCompleting(ctx, c, a) ==
  LET next == ApplyResults(ctx, c, a)
  IN  IF WillRetry(ctx, c, a) THEN 1
      ELSE IF next.disabled THEN ctx.completed - NumChecks
      ELSE 0

PlanAllAttempts(ctx, c, a) ==
  LET next == ApplyResults(ctx, c, a)
  IN  IF WillRetry(ctx, c, a) THEN ctx.attemptsLeft[c]
      ELSE IF next.disabled THEN next.completed - NumChecks
      ELSE 0

\* The total-checks delta handed to AddDoneChecks by the same call (the
\* done-checks delta is always 1): a retry plans one more query, a drop
\* cancels every planned check that has not completed.
TotalChecksDelta(ctx, c, a) ==
  LET next == ApplyResults(ctx, c, a)
  IN  IF WillRetry(ctx, c, a) THEN 1
      ELSE IF next.disabled THEN next.completed - NumChecks
      ELSE 0

-----------------------------------------------------------------------------
(* What the fields of a context mean, for the properties.                  *)

\* The last answer is final: nothing will try the check again.
Settled(ctx, c) ==
  /\ ctx.answer[c] # Skipped
  /\ Matches(ctx.answer[c])
     \/ ctx.attemptsLeft[c] = 0
     \/ ~IsWorthRetrying(ctx.answer[c])

SettledChecks(ctx) == {c \in Checks : Settled(ctx, c)}

FailedChecks(ctx) == {c \in SettledChecks(ctx) : ~Matches(ctx.answer[c])}

PendingChecks(ctx) == {ctx.pending[i] : i \in DOMAIN ctx.pending}

NoRepeat(seq) == \A i, j \in DOMAIN seq : seq[i] = seq[j] => i = j
=============================================================================
