--------------------------- MODULE SchedulerProofs ---------------------------
(***************************************************************************)
(* Proofs, for every length of the server list, size of the template, pool *)
(* and thread limit, rate and drop threshold, of the safety properties of  *)
(* the scheduler.  The invariant is built in layers: the shape of the      *)
(* state, then where each check and each server is, then the counters that *)
(* summarise sets of workers.                                              *)
(*                                                                         *)
(* From the invariant follows what the status reporter is told: each       *)
(* server is counted once, the progress figures are exact and never        *)
(* regress, and the whole scheduler implements module Verdicts.  All of    *)
(* them rest on two lemmas: what a collected result changes, and that no   *)
(* other step changes a verdict, a count or the outcome of a check.        *)
(***************************************************************************)
EXTENDS SchedulerProperties, FiniteSetTheorems, TLAPS

-----------------------------------------------------------------------------
(* What applyResults does to the context of one server.                    *)

\* The type of a context before its counters are known to be bounded.
LooseContext ==
  [ pending      : Seq(Checks),
    attemptsLeft : [Checks -> Int],
    answer       : [Checks -> Answers \cup {Skipped}],
    failed       : Int,
    completed    : Int,
    disabled     : BOOLEAN,
    cancelled    : BOOLEAN,
    nextQueryIn  : 0 .. QueryInterval ]

\* The facts about a single context that every update maintains.
ContextInv(ctx) ==
  /\ ctx \in LooseContext
  /\ \A c \in Checks : ctx.attemptsLeft[c] \in 0 .. MaxAttempts
  /\ ctx.completed = Cardinality(SettledChecks(ctx))
  /\ ctx.failed = Cardinality(FailedChecks(ctx))
  /\ NoRepeat(ctx.pending)

\* A check whose result may arrive: it is neither queued nor settled.
Awaited(ctx, c) ==
  /\ c \notin PendingChecks(ctx)
  /\ c \notin SettledChecks(ctx)
  /\ ctx.attemptsLeft[c] >= 1

\* The template is a finite list, so every set of its checks is finite and no
\* larger.
LEMMA ChecksFinite ==
  /\ IsFiniteSet(Checks)
  /\ Cardinality(Checks) = NumChecks
  /\ \A S \in SUBSET Checks :
       /\ IsFiniteSet(S)
       /\ Cardinality(S) \in 0 .. NumChecks
       /\ Cardinality(S) = NumChecks => S = Checks
<1>1. IsFiniteSet(Checks) /\ Cardinality(Checks) = NumChecks
  BY FS_Interval, ContextAssumption DEF Checks
<1>2. ASSUME NEW S \in SUBSET Checks
      PROVE  /\ IsFiniteSet(S)
             /\ Cardinality(S) \in 0 .. NumChecks
             /\ Cardinality(S) = NumChecks => S = Checks
  BY <1>1, FS_Subset, FS_CardinalityType, ContextAssumption
<1> QED BY <1>1, <1>2

\* A retry puts a check in front of a queue that does not hold it.
LEMMA PushFront ==
  ASSUME NEW c \in Checks, NEW seq \in Seq(Checks), NoRepeat(seq),
         c \notin {seq[i] : i \in DOMAIN seq}
  PROVE  LET longer == <<c>> \o seq
         IN  /\ longer \in Seq(Checks)
             /\ NoRepeat(longer)
             /\ {longer[i] : i \in DOMAIN longer} =
                  {seq[i] : i \in DOMAIN seq} \cup {c}
<1> DEFINE longer == <<c>> \o seq
<1>1. /\ longer \in Seq(Checks)
      /\ DOMAIN seq = 1 .. Len(seq)
      /\ Len(seq) \in Nat
      /\ DOMAIN longer = 1 .. Len(seq) + 1
      /\ longer[1] = c
      /\ \A i \in 2 .. Len(seq) + 1 : longer[i] = seq[i - 1]
  OBVIOUS
<1> HIDE DEF longer
<1>2. \A i \in DOMAIN longer : i = 1 \/ (i - 1 \in DOMAIN seq /\ longer[i] = seq[i - 1])
  BY <1>1
<1>3. NoRepeat(longer)
  <2> SUFFICES ASSUME NEW i \in DOMAIN longer, NEW j \in DOMAIN longer, longer[i] = longer[j]
               PROVE  i = j
    BY DEF NoRepeat
  <2>1. \A k \in DOMAIN longer : k # 1 => longer[k] # c
    BY <1>2
  <2>2. CASE i = 1 \/ j = 1
    BY <1>1, <2>1, <2>2
  <2>3. CASE i # 1 /\ j # 1
    <3>1. i - 1 = j - 1
      BY <1>2, <2>3 DEF NoRepeat
    <3> QED
      BY <1>1, <3>1
  <2> QED
    BY <2>2, <2>3
<1>4. \A i \in DOMAIN seq : i + 1 \in DOMAIN longer /\ longer[i + 1] = seq[i]
  BY <1>1
<1>5. {longer[i] : i \in DOMAIN longer} = {seq[i] : i \in DOMAIN seq} \cup {c}
  <2>1. ASSUME NEW i \in DOMAIN longer
        PROVE  longer[i] \in {seq[j] : j \in DOMAIN seq} \cup {c}
    BY <1>1, <1>2
  <2>2. ASSUME NEW i \in DOMAIN seq
        PROVE  seq[i] \in {longer[j] : j \in DOMAIN longer}
    BY <1>4
  <2>3. c \in {longer[j] : j \in DOMAIN longer}
    <3>1. 1 \in DOMAIN longer /\ longer[1] = c
      BY <1>1
    <3> QED BY <3>1
  <2> QED BY <2>1, <2>2, <2>3
<1> QED BY <1>1, <1>3, <1>5 DEF longer

\* A launch takes the first check of the queue, which is then not queued.
LEMMA PopFront ==
  ASSUME NEW seq \in Seq(Checks), NoRepeat(seq), seq # <<>>
  PROVE  /\ Head(seq) \in Checks
         /\ Head(seq) \in {seq[i] : i \in DOMAIN seq}
         /\ Tail(seq) \in Seq(Checks)
         /\ NoRepeat(Tail(seq))
         /\ {Tail(seq)[i] : i \in DOMAIN Tail(seq)} =
              {seq[i] : i \in DOMAIN seq} \ {Head(seq)}
<1> DEFINE rest == Tail(seq)
<1>1. /\ DOMAIN seq = 1 .. Len(seq)
      /\ Len(seq) \in Nat \ {0}
      /\ Head(seq) = seq[1]
      /\ seq[1] \in Checks
      /\ rest \in Seq(Checks)
      /\ DOMAIN rest = 1 .. Len(seq) - 1
      /\ \A i \in 1 .. Len(seq) - 1 : rest[i] = seq[i + 1]
  OBVIOUS
<1> HIDE DEF rest
<1>2. \A i \in DOMAIN rest : i + 1 \in DOMAIN seq /\ rest[i] = seq[i + 1] /\ i + 1 # 1
  BY <1>1
<1>3. NoRepeat(rest)
  <2> SUFFICES ASSUME NEW i \in DOMAIN rest, NEW j \in DOMAIN rest,
                      rest[i] = rest[j]
               PROVE  i = j
    BY DEF NoRepeat
  <2>1. seq[i + 1] = seq[j + 1]
    BY <1>2
  <2>2. i + 1 = j + 1
    BY <1>2, <2>1 DEF NoRepeat
  <2> QED BY <1>1, <2>2
<1>4. \A i \in DOMAIN seq : i = 1 \/ (i - 1 \in DOMAIN rest /\ rest[i - 1] = seq[i])
  BY <1>1
<1>5. 1 \in DOMAIN seq
  BY <1>1
<1>6. {rest[i] : i \in DOMAIN rest} = {seq[i] : i \in DOMAIN seq} \ {Head(seq)}
  <2>1. ASSUME NEW i \in DOMAIN rest
        PROVE  rest[i] \in {seq[j] : j \in DOMAIN seq} \ {Head(seq)}
    BY <1>1, <1>2, <1>5 DEF NoRepeat
  <2>2. ASSUME NEW i \in DOMAIN seq, seq[i] # Head(seq)
        PROVE  seq[i] \in {rest[j] : j \in DOMAIN rest}
    <3>1. i - 1 \in DOMAIN rest /\ rest[i - 1] = seq[i]
      BY <1>1, <1>4, <2>2
    <3> QED BY <3>1
  <2> QED BY <2>1, <2>2
<1> QED BY <1>1, <1>3, <1>5, <1>6 DEF rest

\* The counters of a context that satisfies the invariant are bounded.
LEMMA ContextBounded ==
  ASSUME NEW ctx, ContextInv(ctx)
  PROVE  ctx \in Context
<1>1. SettledChecks(ctx) \in SUBSET Checks /\ FailedChecks(ctx) \in SUBSET Checks
  BY DEF SettledChecks, FailedChecks
<1>2. ctx.completed \in 0 .. NumChecks /\ ctx.failed \in 0 .. NumChecks
  BY <1>1, ChecksFinite DEF ContextInv
<1>3. ctx.attemptsLeft \in [Checks -> 0 .. MaxAttempts]
  BY DEF ContextInv, LooseContext
<1> QED BY <1>2, <1>3 DEF ContextInv, LooseContext, Context

\* A new context satisfies the invariant: nothing is settled.
LEMMA NewContextInv ==
  /\ ContextInv(NewServerContext)
  /\ SettledChecks(NewServerContext) = {}
  /\ FailedChecks(NewServerContext) = {}
  /\ PendingChecks(NewServerContext) = Checks
<1> DEFINE ctx == NewServerContext
<1>1. ctx \in LooseContext
  <2>1. ctx.pending \in Seq(Checks)
    BY ContextAssumption DEF NewServerContext, Checks
  <2> QED BY <2>1, ContextAssumption DEF NewServerContext, LooseContext
<1>2. \A c \in Checks : ctx.attemptsLeft[c] \in 0 .. MaxAttempts
  BY ContextAssumption DEF NewServerContext
<1>3. SettledChecks(ctx) = {} /\ FailedChecks(ctx) = {}
  BY DEF NewServerContext, SettledChecks, FailedChecks, Settled
<1>4. NoRepeat(ctx.pending) /\ PendingChecks(ctx) = Checks
  BY DEF NewServerContext, NoRepeat, PendingChecks
<1>5. ctx.completed = 0 /\ ctx.failed = 0
  BY DEF NewServerContext
<1> QED BY <1>1, <1>2, <1>3, <1>4, <1>5, FS_EmptySet DEF ContextInv

\* applyResults field by field, in its three cases.
LEMMA ApplyResultsFields ==
  ASSUME NEW ctx \in LooseContext, NEW c \in Checks, NEW a \in Answers
  PROVE  LET next == ApplyResults(ctx, c, a)
             fails == ~Matches(a) /\ ~WillRetry(ctx, c, a)
             drops == fails /\ ReachesDropThreshold(ctx.failed + 1)
         IN  /\ next \in LooseContext
             /\ next.attemptsLeft = [ctx.attemptsLeft EXCEPT ![c] = @ - 1]
             /\ next.answer = [ctx.answer EXCEPT ![c] = a]
             /\ next.pending = IF WillRetry(ctx, c, a) THEN <<c>> \o ctx.pending
                               ELSE ctx.pending
             /\ next.completed = IF WillRetry(ctx, c, a) THEN ctx.completed
                                 ELSE ctx.completed + 1
             /\ next.failed = IF fails THEN ctx.failed + 1 ELSE ctx.failed
             /\ next.disabled = (ctx.disabled \/ drops)
             /\ next.cancelled = (ctx.cancelled \/ drops)
             /\ next.nextQueryIn = ctx.nextQueryIn
<1> DEFINE seen == [ctx EXCEPT !.attemptsLeft[c] = @ - 1, !.answer[c] = a]
<1>0. /\ ctx.pending \in Seq(Checks)
      /\ ctx.attemptsLeft \in [Checks -> Int]
      /\ ctx.answer \in [Checks -> Answers \cup {Skipped}]
      /\ ctx.failed \in Int
      /\ ctx.completed \in Int
      /\ ctx.disabled \in BOOLEAN
      /\ ctx.cancelled \in BOOLEAN
      /\ ctx.nextQueryIn \in 0 .. QueryInterval
  BY DEF LooseContext
<1>1. seen \in LooseContext
  <2>1. /\ [ctx.attemptsLeft EXCEPT ![c] = @ - 1] \in [Checks -> Int]
        /\ [ctx.answer EXCEPT ![c] = a] \in [Checks -> Answers \cup {Skipped}]
    BY <1>0
  <2> QED BY <2>1 DEF LooseContext
<1>2. seen.attemptsLeft = [ctx.attemptsLeft EXCEPT ![c] = @ - 1]
  BY DEF LooseContext
<1>3. seen.answer = [ctx.answer EXCEPT ![c] = a]
  BY DEF LooseContext
<1>4. /\ seen.pending = ctx.pending
      /\ seen.completed = ctx.completed
      /\ seen.failed = ctx.failed
      /\ seen.disabled = ctx.disabled
      /\ seen.cancelled = ctx.cancelled
      /\ seen.nextQueryIn = ctx.nextQueryIn
  BY DEF LooseContext
<1> HIDE DEF seen
<1>5. ApplyResults(ctx, c, a) =
        IF Matches(a) THEN [seen EXCEPT !.completed = @ + 1]
        ELSE IF WillRetry(ctx, c, a) THEN [seen EXCEPT !.pending = <<c>> \o @]
        ELSE Fail(seen)
  BY DEF ApplyResults, seen
<1>6. CASE Matches(a)
  <2> DEFINE next == [seen EXCEPT !.completed = @ + 1]
  <2>1. ~WillRetry(ctx, c, a)
    BY <1>6 DEF WillRetry
  <2>2. next \in LooseContext
    <3>1. seen.completed + 1 \in Int
      BY <1>0, <1>4
    <3> QED BY <1>1, <3>1 DEF LooseContext
  <2>3. /\ next.attemptsLeft = seen.attemptsLeft
        /\ next.answer = seen.answer
        /\ next.pending = seen.pending
        /\ next.completed = seen.completed + 1
        /\ next.failed = seen.failed
        /\ next.disabled = seen.disabled
        /\ next.cancelled = seen.cancelled
        /\ next.nextQueryIn = seen.nextQueryIn
    BY <1>1 DEF LooseContext
  <2>4. ApplyResults(ctx, c, a) = next
    BY <1>5, <1>6
  <2> HIDE DEF next
  <2> QED BY <1>0, <1>2, <1>3, <1>4, <1>6, <2>1, <2>2, <2>3, <2>4
<1>7. CASE WillRetry(ctx, c, a)
  <2> DEFINE next == [seen EXCEPT !.pending = <<c>> \o @]
  <2>1. ~Matches(a)
    BY <1>7 DEF WillRetry
  <2>2. <<c>> \o seen.pending \in Seq(Checks)
    BY <1>0, <1>4
  <2>3. next \in LooseContext
    BY <1>1, <2>2 DEF LooseContext
  <2>4. /\ next.attemptsLeft = seen.attemptsLeft
        /\ next.answer = seen.answer
        /\ next.pending = <<c>> \o seen.pending
        /\ next.completed = seen.completed
        /\ next.failed = seen.failed
        /\ next.disabled = seen.disabled
        /\ next.cancelled = seen.cancelled
        /\ next.nextQueryIn = seen.nextQueryIn
    BY <1>1 DEF LooseContext
  <2>5. ApplyResults(ctx, c, a) = next
    BY <1>5, <1>7, <2>1
  <2> HIDE DEF next
  <2> QED BY <1>0, <1>2, <1>3, <1>4, <1>7, <2>1, <2>3, <2>4, <2>5
<1>8. CASE ~Matches(a) /\ ~WillRetry(ctx, c, a)
  <2> DEFINE drop == ReachesDropThreshold(seen.failed + 1)
             next == Fail(seen)
  <2>1. drop \in BOOLEAN
    BY DEF ReachesDropThreshold
  <2>2. next = [seen EXCEPT !.completed = @ + 1,
                            !.failed    = seen.failed + 1,
                            !.disabled  = @ \/ drop,
                            !.cancelled = @ \/ drop]
    BY DEF Fail
  <2> HIDE DEF drop
  <2>3. next \in LooseContext
    <3>1. seen.completed + 1 \in Int /\ seen.failed + 1 \in Int
      BY <1>0, <1>4
    <3>2. (seen.disabled \/ drop) \in BOOLEAN /\ (seen.cancelled \/ drop) \in BOOLEAN
      OBVIOUS
    <3> QED BY <1>1, <2>2, <3>1, <3>2 DEF LooseContext
  <2>4. /\ next.attemptsLeft = seen.attemptsLeft
        /\ next.answer = seen.answer
        /\ next.pending = seen.pending
        /\ next.completed = seen.completed + 1
        /\ next.failed = seen.failed + 1
        /\ next.disabled = (seen.disabled \/ drop)
        /\ next.cancelled = (seen.cancelled \/ drop)
        /\ next.nextQueryIn = seen.nextQueryIn
    BY <1>1, <2>1, <2>2 DEF LooseContext
  <2>5. ApplyResults(ctx, c, a) = next
    BY <1>5, <1>8
  <2>6. drop = ReachesDropThreshold(ctx.failed + 1)
    BY <1>4 DEF drop
  <2> HIDE DEF next
  <2> QED BY <1>0, <1>2, <1>3, <1>4, <1>8, <2>3, <2>4, <2>5, <2>6
<1> QED BY <1>6, <1>7, <1>8

\* The result of an awaited check c settles c or re-queues it with an attempt
\* left; no other check moves, and the counters stay exact.
LEMMA ApplyResultsInv ==
  ASSUME NEW ctx, ContextInv(ctx), NEW c \in Checks, NEW a \in Answers,
         Awaited(ctx, c)
  PROVE  LET next  == ApplyResults(ctx, c, a)
             retry == WillRetry(ctx, c, a)
         IN  /\ ContextInv(next)
             /\ SettledChecks(next) = IF retry THEN SettledChecks(ctx)
                                      ELSE SettledChecks(ctx) \cup {c}
             /\ FailedChecks(next) = IF retry \/ Matches(a) THEN FailedChecks(ctx)
                                     ELSE FailedChecks(ctx) \cup {c}
             /\ PendingChecks(next) = IF retry THEN PendingChecks(ctx) \cup {c}
                                      ELSE PendingChecks(ctx)
             /\ retry => next.attemptsLeft[c] >= 1
             /\ \A d \in Checks \ {c} :
                  next.attemptsLeft[d] = ctx.attemptsLeft[d]
<1> DEFINE next  == ApplyResults(ctx, c, a)
           retry == WillRetry(ctx, c, a)
           fails == ~Matches(a) /\ ~retry
<1>1. ctx \in LooseContext
  BY DEF ContextInv
<1>2. /\ next \in LooseContext
      /\ next.attemptsLeft = [ctx.attemptsLeft EXCEPT ![c] = @ - 1]
      /\ next.answer = [ctx.answer EXCEPT ![c] = a]
      /\ next.pending = IF retry THEN <<c>> \o ctx.pending ELSE ctx.pending
      /\ next.completed = IF retry THEN ctx.completed ELSE ctx.completed + 1
      /\ next.failed = IF fails THEN ctx.failed + 1 ELSE ctx.failed
  BY <1>1, ApplyResultsFields
<1>3. /\ ctx.attemptsLeft \in [Checks -> Int]
      /\ ctx.answer \in [Checks -> Answers \cup {Skipped}]
      /\ ctx.pending \in Seq(Checks)
      /\ ctx.completed \in Int
      /\ ctx.failed \in Int
  BY <1>1 DEF LooseContext
<1>4. ctx.attemptsLeft[c] \in 1 .. MaxAttempts
  BY ContextAssumption DEF Awaited, ContextInv
<1>5. retry <=> ~Matches(a) /\ ctx.attemptsLeft[c] - 1 > 0 /\ IsWorthRetrying(a)
  BY DEF WillRetry
<1> HIDE DEF next, retry
<1>6. /\ next.attemptsLeft[c] = ctx.attemptsLeft[c] - 1
      /\ next.answer[c] = a
      /\ \A d \in Checks \ {c} : /\ next.attemptsLeft[d] = ctx.attemptsLeft[d]
                                 /\ next.answer[d] = ctx.answer[d]
  BY <1>2, <1>3
<1>7. Settled(next, c) <=> ~retry
  BY <1>4, <1>5, <1>6 DEF Settled, Answers, Skipped, Matches, IsWorthRetrying
<1>8. \A d \in Checks \ {c} : Settled(next, d) <=> Settled(ctx, d)
  BY <1>6 DEF Settled
<1>9. ~Settled(ctx, c)
  BY DEF Awaited, SettledChecks
<1>10. SettledChecks(next) = IF retry THEN SettledChecks(ctx)
                             ELSE SettledChecks(ctx) \cup {c}
  BY <1>7, <1>8, <1>9 DEF SettledChecks
<1>11. FailedChecks(next) = IF retry \/ Matches(a) THEN FailedChecks(ctx)
                            ELSE FailedChecks(ctx) \cup {c}
  BY <1>6, <1>7, <1>8, <1>9 DEF FailedChecks, SettledChecks
<1>12. c \notin SettledChecks(ctx) /\ c \notin FailedChecks(ctx)
  BY <1>9 DEF SettledChecks, FailedChecks
<1>13. SettledChecks(ctx) \in SUBSET Checks /\ FailedChecks(ctx) \in SUBSET Checks
  BY DEF SettledChecks, FailedChecks
<1>14. next.completed = Cardinality(SettledChecks(next))
  BY <1>2, <1>10, <1>12, <1>13, ChecksFinite, FS_AddElement DEF ContextInv
<1>15. next.failed = Cardinality(FailedChecks(next))
  <2>1. fails <=> ~(retry \/ Matches(a))
    OBVIOUS
  <2> QED BY <2>1, <1>2, <1>11, <1>12, <1>13, ChecksFinite, FS_AddElement
           DEF ContextInv
<1>16. \A d \in Checks : next.attemptsLeft[d] \in 0 .. MaxAttempts
  BY <1>4, <1>6, ContextAssumption DEF ContextInv
<1>17. /\ NoRepeat(next.pending)
       /\ PendingChecks(next) = IF retry THEN PendingChecks(ctx) \cup {c}
                                ELSE PendingChecks(ctx)
  <2>1. CASE ~retry
    BY <2>1, <1>2 DEF ContextInv, PendingChecks, NoRepeat
  <2>2. CASE retry
    <3>1. NoRepeat(ctx.pending) /\ c \notin {ctx.pending[i] : i \in DOMAIN ctx.pending}
      BY DEF ContextInv, Awaited, PendingChecks
    <3>2. next.pending = <<c>> \o ctx.pending
      BY <2>2, <1>2
    <3>3. /\ NoRepeat(next.pending)
          /\ {next.pending[i] : i \in DOMAIN next.pending} =
               {ctx.pending[i] : i \in DOMAIN ctx.pending} \cup {c}
      <4>1. LET longer == <<c>> \o ctx.pending
            IN  /\ NoRepeat(longer)
                /\ {longer[i] : i \in DOMAIN longer} =
                     {ctx.pending[i] : i \in DOMAIN ctx.pending} \cup {c}
        BY <1>3, <3>1, PushFront, Zenon
      <4> QED BY <3>2, <4>1, Zenon
    <3>4. PendingChecks(next) = PendingChecks(ctx) \cup {c}
      BY <3>3, Zenon DEF PendingChecks
    <3> QED BY <2>2, <3>3, <3>4
  <2> QED BY <2>1, <2>2
<1>18. retry => next.attemptsLeft[c] >= 1
  BY <1>4, <1>5, <1>6
<1> QED
  BY <1>2, <1>6, <1>10, <1>11, <1>14, <1>15, <1>16, <1>17, <1>18
  DEF ContextInv, next, retry

-----------------------------------------------------------------------------
(* Layer 1: the shape of the state.                                        *)

\* Types without the bounds that only the other layers justify.
Loose ==
  /\ PoolTypeOK
  /\ srv \in [Servers -> LooseContext]
  /\ job \in [Servers -> [Checks -> Jobs]]
  /\ releasing \in Nat
  /\ jobLimiter \in Int
  /\ inFlight \in [Servers -> Nat]
  /\ tokens \in Tokens
  /\ pc \in Phases
  /\ pass \in {0, 1}
  /\ claimant \in Servers \cup {Nobody}
  /\ freeJobs \in Int
  /\ poolCanGrow \in BOOLEAN
  /\ elapsed \in 0 .. QueryInterval
  /\ status \in Status
  /\ verdict \in [Servers -> Verdicts]
  /\ taken \in Nat

\* What the control state says of the local variables: servers are visited
\* only while the pool stands still, and a token is held for a server that
\* has a check to query.
Control ==
  /\ Cardinality(pool) <= MaxPoolSize
  /\ toVisit \subseteq pool
  /\ pc \notin {"dispatch", "slot"} => toVisit = {}
  /\ pc = "slot" => claimant \in pool /\ srv[claimant].pending # <<>>

Shape == Loose /\ Control /\ BurstBounded

\* The two capacities are positive.
LEMMA Capacities == Cap \in Nat \ {0} /\ MaxTokens \in Nat \ {0} /\ RefillAmount = MaxTokens
<1>1. NumServers * NumChecks \in Nat \ {0}
  BY PoolAssumption, ContextAssumption
<1> QED
  BY <1>1, ThreadsAssumption, BucketAssumption DEF Cap, MinOf

\* Servers and queries form finite sets.
LEMMA ServersFinite ==
  /\ IsFiniteSet(Servers) /\ Cardinality(Servers) = NumServers
  /\ \A S \in SUBSET Servers : IsFiniteSet(S) /\ Cardinality(S) \in Nat
  /\ \A S \in SUBSET Pairs : IsFiniteSet(S) /\ Cardinality(S) \in Nat
<1>1. IsFiniteSet(Servers) /\ Cardinality(Servers) = NumServers
  BY FS_Interval, PoolAssumption DEF Servers
<1>2. IsFiniteSet(Pairs)
  BY <1>1, ChecksFinite, FS_Product DEF Pairs
<1>3. ASSUME NEW S \in SUBSET Servers
      PROVE  IsFiniteSet(S) /\ Cardinality(S) \in Nat
  BY <1>1, FS_Subset, FS_CardinalityType
<1>4. ASSUME NEW S \in SUBSET Pairs
      PROVE  IsFiniteSet(S) /\ Cardinality(S) \in Nat
  BY <1>2, FS_Subset, FS_CardinalityType
<1> QED BY <1>1, <1>3, <1>4

\* The number of servers LoadN(n) takes from the list, for n > 0 and a pool
\* within its bound.
LEMMA LoadCountBounds ==
  ASSUME PoolTypeOK, Cardinality(pool) <= MaxPoolSize, NEW n \in Nat
  PROVE  /\ LoadCount(n) \in 0 .. n
         /\ dequeueIdx + LoadCount(n) <= NumServers
         /\ Cardinality(pool) + LoadCount(n) <= MaxPoolSize
<1>1. IsFiniteSet(pool) /\ Cardinality(pool) \in Nat
  BY ServersFinite DEF PoolTypeOK
<1> DEFINE len == Cardinality(pool)
<1>2. len \in Nat /\ len <= MaxPoolSize
  BY <1>1
<1>3. LoadCount(n) = MinOf(n, MinOf(MaxPoolSize - len, NumServers - dequeueIdx))
  BY DEF LoadCount, PoolLen, NumPending
<1> HIDE DEF len
<1>4. /\ LoadCount(n) \in 0 .. n
      /\ dequeueIdx + LoadCount(n) <= NumServers
      /\ len + LoadCount(n) <= MaxPoolSize
  BY <1>2, <1>3, PoolAssumption DEF PoolTypeOK, MinOf
<1> QED BY <1>4 DEF len

\* The fourth phase appends the next k servers of the list to the pool.
LEMMA GrowPoolEffect ==
  ASSUME Loose, Control, GrowPool
  PROVE  \E k \in Nat : /\ dequeueIdx' = dequeueIdx + k
                        /\ dequeueIdx + k <= NumServers
                        /\ pool' = pool \cup (dequeueIdx + 1 .. dequeueIdx + k)
                        /\ Cardinality(pool') <= MaxPoolSize
<1>1. CASE UNCHANGED poolVars
  <2>1. /\ dequeueIdx' = dequeueIdx + 0
        /\ dequeueIdx + 0 <= NumServers
        /\ pool' = pool \cup (dequeueIdx + 1 .. dequeueIdx + 0)
        /\ Cardinality(pool') <= MaxPoolSize
    BY <1>1, PoolAssumption DEF poolVars, Loose, PoolTypeOK, Control
  <2> QED BY <2>1
<1>2. CASE LoadN(ToLoad) /\ ToLoad > 0
  <2> DEFINE k == LoadCount(ToLoad)
             new == dequeueIdx + 1 .. dequeueIdx + k
  <2>1. ToLoad \in Nat
    BY <1>2 DEF ToLoad, MinOf, Loose, Tokens
  <2>2. PoolTypeOK /\ Cardinality(pool) <= MaxPoolSize
    BY DEF Loose, Control
  <2>3. /\ k \in Nat
        /\ dequeueIdx + k <= NumServers
        /\ Cardinality(pool) + k <= MaxPoolSize
    BY <2>1, <2>2, LoadCountBounds
  <2>4. dequeueIdx' = dequeueIdx + k /\ pool' = pool \cup new
    BY <1>2 DEF LoadN, LoadedBy
  <2> HIDE DEF k
  <2>5. dequeueIdx \in Nat
    BY <2>2 DEF PoolTypeOK
  <2>6. IsFiniteSet(new) /\ Cardinality(new) = k
    BY <2>3, <2>5, FS_Interval
  <2>7. IsFiniteSet(pool) /\ Cardinality(pool) \in Nat
    BY <2>2, ServersFinite DEF PoolTypeOK
  <2>8. Cardinality(pool \cup new) =
          Cardinality(pool) + Cardinality(new) - Cardinality(pool \cap new)
    BY <2>6, <2>7, FS_Union
  <2>9. Cardinality(pool \cap new) \in Nat
    BY <2>7, FS_Intersection, FS_CardinalityType
  <2> HIDE DEF new
  <2>10. Cardinality(pool') <= MaxPoolSize
    BY <2>3, <2>4, <2>6, <2>7, <2>8, <2>9, PoolAssumption
  <2> QED BY <2>3, <2>4, <2>10 DEF new
<1> QED BY <1>1, <1>2 DEF GrowPool

\* The shape at the start.
LEMMA InitShape == Init => Shape
<1> SUFFICES ASSUME Init PROVE Shape
  OBVIOUS
<1>1. NewServerContext \in LooseContext
  BY NewContextInv DEF ContextInv
<1>2. status \in Status
  <2>1. NumServers * NumChecks \in Int
    BY PoolAssumption, ContextAssumption
  <2> QED BY <2>1 DEF Init, Status
<1>3. PoolTypeOK
  BY PoolAssumption DEF Init, PoolInit, PoolTypeOK
<1>4. srv \in [Servers -> LooseContext] /\ job \in [Servers -> [Checks -> Jobs]]
  BY <1>1 DEF Init, Jobs
<1>5. tokens \in Tokens /\ elapsed \in 0 .. QueryInterval
  BY Capacities, ContextAssumption DEF Init, Tokens
<1>6. /\ releasing = 0 /\ jobLimiter = 0 /\ freeJobs = 0 /\ taken = 0 /\ pass = 0
      /\ pc = "collect" /\ claimant = Nobody
  BY DEF Init
<1>7. inFlight \in [Servers -> Nat] /\ verdict \in [Servers -> Verdicts]
  BY DEF Init, Verdicts
<1>8. poolCanGrow \in BOOLEAN
  BY Zenon DEF Init
<1>9. Loose
  BY <1>2, <1>3, <1>4, <1>5, <1>6, <1>7, <1>8 DEF Loose, Phases
<1> QED
  BY <1>9, Capacities, FS_EmptySet, PoolAssumption
  DEF Init, PoolInit, Shape, Control, BurstBounded

\* The calls into the status reporter keep its record well typed.
LEMMA StatusType ==
  ASSUME NEW st \in Status, NEW n \in Int, NEW ctx \in LooseContext
  PROVE  /\ AddDoneChecks(st, n) \in Status
         /\ ReportFinishedServer(st, ctx) \in Status
<1>1. /\ st.valid \in Nat /\ st.invalid \in Nat /\ st.withFailures \in Nat
      /\ st.doneChecks \in Nat /\ st.totalChecks \in Int
  BY DEF Status
<1>2. AddDoneChecks(st, n) \in Status
  <2>1. st.doneChecks + 1 \in Nat /\ st.totalChecks + n \in Int
    BY <1>1
  <2> QED BY <2>1 DEF AddDoneChecks, Status
<1>3. ReportFinishedServer(st, ctx) \in Status
  <2> DEFINE w == st.withFailures + Count(ctx.failed > 0)
             i == st.invalid + Count(ctx.disabled)
             v == st.valid + Count(~ctx.disabled)
  <2>1. w \in Nat /\ i \in Nat /\ v \in Nat
    BY <1>1 DEF Count
  <2>2. ReportFinishedServer(st, ctx) =
          [st EXCEPT !.withFailures = w, !.invalid = i, !.valid = v]
    BY DEF ReportFinishedServer
  <2> HIDE DEF w, i, v
  <2> QED BY <2>1, <2>2 DEF Status
<1> QED BY <1>2, <1>3

\* A result never plans more than one query and never cancels more checks
\* than there are.
LEMMA DeltaType ==
  ASSUME NEW ctx \in LooseContext, NEW c \in Checks, NEW a \in Answers
  PROVE  TotalChecksDelta(ctx, c, a) \in Int
<1>1. ApplyResults(ctx, c, a) \in LooseContext
  BY ApplyResultsFields
<1>2. ApplyResults(ctx, c, a).completed \in Int
  BY <1>1 DEF LooseContext
<1> QED BY <1>2, ContextAssumption DEF TotalChecksDelta

\* Every step keeps the shape of the state.
LEMMA NextShape == Shape /\ [Next]_vars => Shape'
<1> SUFFICES ASSUME Shape, [Next]_vars PROVE Shape'
  OBVIOUS
<1> USE DEF Shape
<1>1. ASSUME NEW s \in Servers, NEW c \in Checks, CollectResult(s, c)
      PROVE  Shape'
  <2> DEFINE a    == job[s][c]
             next == ApplyResults(srv[s], c, a)
             counted == AddDoneChecks(status, TotalChecksDelta(srv[s], c, a))
  <2>1. a \in Answers
    BY <1>1 DEF CollectResult, Results, JobsIn
  <2>2. srv[s] \in LooseContext /\ next \in LooseContext
    BY <2>1, ApplyResultsFields DEF Loose
  <2>3. counted \in Status /\ ReportFinishedServer(counted, next) \in Status
    BY <2>1, <2>2, DeltaType, StatusType DEF Loose
  <2>4. VerdictOf(next) \in Verdicts
    BY DEF VerdictOf, Verdicts
  <2>5. srv' = [srv EXCEPT ![s] = next]
    BY <1>1 DEF CollectResult
  <2>6. \/ /\ status' = ReportFinishedServer(counted, next)
           /\ verdict' = [verdict EXCEPT ![s] = VerdictOf(next)]
           /\ pool' = pool \ {s}
           /\ dequeueIdx' = dequeueIdx
        \/ /\ status' = counted
           /\ UNCHANGED <<verdict, pool, dequeueIdx>>
    BY <1>1 DEF CollectResult, Unload, poolVars
  <2> HIDE DEF a, next, counted
  <2>7. srv' \in [Servers -> LooseContext]
    BY <2>2, <2>5 DEF Loose
  <2>8. status' \in Status /\ verdict' \in [Servers -> Verdicts]
    BY <2>3, <2>4, <2>6 DEF Loose
  <2>9. PoolTypeOK'
    BY <2>6 DEF Loose, PoolTypeOK
  <2>10. job' \in [Servers -> [Checks -> Jobs]]
    BY <1>1 DEF CollectResult, Loose, Jobs
  <2>11. inFlight' \in [Servers -> Nat]
    <3>1. Landed(inFlight[s]) \in Nat
      BY DEF Landed, Loose
    <3> QED BY <1>1, <3>1 DEF CollectResult, Loose
  <2>12. UNCHANGED <<releasing, jobLimiter, tokens, taken, pc, pass, toVisit,
                     claimant, freeJobs, poolCanGrow, elapsed>>
    BY <1>1 DEF CollectResult, bucketVars, iterationVars
  <2>13. pc = "collect"
    BY <1>1 DEF CollectResult
  <2>14. Loose'
    BY <2>7, <2>8, <2>9, <2>10, <2>11, <2>12 DEF Loose
  <2>15. Cardinality(pool') <= MaxPoolSize
    <3>1. CASE pool' = pool
      BY <3>1 DEF Control
    <3>2. CASE pool' = pool \ {s}
      <4>1. /\ IsFiniteSet(pool) /\ Cardinality(pool) \in Nat
            /\ Cardinality(pool \ {s}) \in {Cardinality(pool) - 1, Cardinality(pool)}
        BY ServersFinite, FS_RemoveElement DEF Loose, PoolTypeOK
      <4> QED BY <3>2, <4>1, PoolAssumption DEF Control
    <3> QED BY <2>6, <3>1, <3>2
  <2>16. Control'
    BY <2>12, <2>13, <2>15 DEF Control
  <2> QED BY <2>12, <2>14, <2>16 DEF BurstBounded
<1>2. ASSUME NEW s \in Servers, NEW c \in Checks, DiscardResult(s, c)
      PROVE  Shape'
  <2>1. job' \in [Servers -> [Checks -> Jobs]]
    BY <1>2 DEF DiscardResult, Loose, Jobs
  <2>2. inFlight' \in [Servers -> Nat]
    <3>1. Landed(inFlight[s]) \in Nat
      BY DEF Landed, Loose
    <3> QED BY <1>2, <3>1 DEF DiscardResult, Loose
  <2>3. UNCHANGED <<pool, dequeueIdx, srv, releasing, jobLimiter, tokens, taken,
                    pc, pass, toVisit, claimant, freeJobs, poolCanGrow, elapsed,
                    status, verdict>>
    BY <1>2 DEF DiscardResult, poolVars, bucketVars, iterationVars, reportVars
  <2>4. Loose'
    BY <2>1, <2>2, <2>3 DEF Loose, PoolTypeOK
  <2> QED BY <2>3, <2>4 DEF Control, BurstBounded
<1>3. ASSUME EndCollect PROVE Shape'
  <2>1. UNCHANGED <<pool, dequeueIdx, srv, job, releasing, jobLimiter, inFlight,
                    tokens, taken, pass, toVisit, claimant, freeJobs, poolCanGrow,
                    elapsed, status, verdict>>
    BY <1>3 DEF EndCollect, poolVars, workerVars, bucketVars, iterationVars, reportVars
  <2>2. pc = "collect" /\ pc' = "snapshot"
    BY <1>3 DEF EndCollect
  <2>3. Loose'
    BY <2>1, <2>2 DEF Loose, PoolTypeOK, Phases
  <2> QED BY <2>1, <2>2, <2>3 DEF Control, BurstBounded
<1>4. ASSUME Snapshot PROVE Shape'
  <2>1. UNCHANGED <<pool, dequeueIdx, job, releasing, jobLimiter, inFlight,
                    tokens, taken, claimant, status, verdict>>
    BY <1>4 DEF Snapshot, poolVars, workerVars, bucketVars, reportVars
  <2>2. srv' \in [Servers -> LooseContext]
    <3>1. ASSUME NEW s \in Servers
          PROVE  [srv[s] EXCEPT !.nextQueryIn = Remaining(@, elapsed)] \in LooseContext
      <4>1. srv[s] \in LooseContext /\ srv[s].nextQueryIn \in 0 .. QueryInterval
        BY DEF Loose, LooseContext
      <4>2. elapsed \in 0 .. QueryInterval
        BY DEF Loose
      <4>3. Remaining(srv[s].nextQueryIn, elapsed) \in 0 .. QueryInterval
        BY <4>1, <4>2, ContextAssumption DEF Remaining
      <4> QED BY <4>1, <4>3 DEF LooseContext
    <3> QED BY <1>4, <3>1 DEF Snapshot, Loose
  <2>3. poolCanGrow' \in BOOLEAN
    BY <1>4, Zenon DEF Snapshot, CanGrow
  <2>4. freeJobs' \in Int
    BY <1>4, Capacities DEF Snapshot, Loose
  <2>5. elapsed' \in 0 .. QueryInterval /\ pass' \in {0, 1}
    BY <1>4, ContextAssumption DEF Snapshot
  <2>6. \/ pc' = "dispatch" /\ toVisit' = pool
        \/ pc' = "grow" /\ toVisit' = {}
    BY <1>4 DEF Snapshot
  <2>7. Loose'
    BY <2>1, <2>2, <2>3, <2>4, <2>5, <2>6 DEF Loose, PoolTypeOK, Phases
  <2> QED BY <2>1, <2>6, <2>7 DEF Control, BurstBounded
<1>5. ASSUME NEW s \in Servers, SkipServer(s) PROVE Shape'
  <2>1. UNCHANGED <<pool, dequeueIdx, srv, job, releasing, jobLimiter, inFlight,
                    tokens, taken, pc, pass, claimant, freeJobs, poolCanGrow,
                    elapsed, status, verdict>>
    BY <1>5 DEF SkipServer, Visit, poolVars, workerVars, bucketVars, reportVars
  <2>2. pc = "dispatch" /\ toVisit' \subseteq toVisit
    BY <1>5 DEF SkipServer, Visit
  <2>3. Loose'
    BY <2>1 DEF Loose, PoolTypeOK
  <2> QED BY <2>1, <2>2, <2>3 DEF Control, BurstBounded
<1>6. ASSUME NEW s \in Servers, TakeToken(s) PROVE Shape'
  <2>1. UNCHANGED <<pool, dequeueIdx, srv, job, releasing, jobLimiter, inFlight,
                    pass, freeJobs, poolCanGrow, elapsed, status, verdict>>
    BY <1>6 DEF TakeToken, Visit, poolVars, workerVars, reportVars
  <2>2. /\ s \in toVisit /\ toVisit' \subseteq toVisit
        /\ pc' = "slot" /\ claimant' = s
        /\ srv[s].pending # <<>>
    BY <1>6 DEF TakeToken, Visit, MayQuery
  <2>3. tokens > 0 /\ tokens' = tokens - 1 /\ taken' = taken + 1
    BY <1>6 DEF TakeToken, CanConsume, ConsumeOne
  <2>4. tokens' \in Tokens /\ taken' \in Nat /\ BurstBounded'
    BY <2>3, Capacities DEF Loose, Tokens, BurstBounded
  <2>5. Loose'
    BY <2>1, <2>2, <2>4 DEF Loose, PoolTypeOK, Phases
  <2> QED BY <2>1, <2>2, <2>4, <2>5 DEF Control
<1>7. ASSUME NEW s \in Servers, LaunchQuery(s) PROVE Shape'
  <2>1. UNCHANGED <<pool, dequeueIdx, releasing, tokens, taken, pass, toVisit,
                    poolCanGrow, elapsed, status, verdict>>
    BY <1>7 DEF LaunchQuery, EndVisit, poolVars, bucketVars, reportVars
  <2>2. pc = "slot" /\ s = claimant /\ pc' = "dispatch" /\ claimant' = Nobody
    BY <1>7 DEF LaunchQuery, EndVisit
  <2>3. srv[s] \in LooseContext /\ srv[s].pending \in Seq(Checks) /\ srv[s].pending # <<>>
    BY <2>2 DEF Control, Loose, LooseContext
  <2>4. Tail(srv[s].pending) \in Seq(Checks)
    BY <2>3
  <2>5. [srv[s] EXCEPT !.pending = Tail(@), !.nextQueryIn = QueryInterval] \in LooseContext
    <3> DEFINE rest == Tail(srv[s].pending)
    <3>1. rest \in Seq(Checks) /\ QueryInterval \in 0 .. QueryInterval
      BY <2>4, ContextAssumption
    <3> HIDE DEF rest
    <3>2. [srv[s] EXCEPT !.pending = rest, !.nextQueryIn = QueryInterval] \in LooseContext
      BY <2>3, <3>1 DEF LooseContext
    <3> QED BY <3>2 DEF rest
  <2>6. srv' = [srv EXCEPT ![s] = [srv[s] EXCEPT !.pending = Tail(@),
                                                 !.nextQueryIn = QueryInterval]]
    BY <1>7 DEF LaunchQuery, Loose
  <2>7. srv' \in [Servers -> LooseContext]
    BY <2>5, <2>6 DEF Loose
  <2>8. job' \in [Servers -> [Checks -> Jobs]]
    BY <1>7 DEF LaunchQuery, Loose, Jobs
  <2>9. inFlight' \in [Servers -> Nat] /\ jobLimiter' \in Int /\ freeJobs' \in Int
    BY <1>7 DEF LaunchQuery, Loose
  <2>10. Loose'
    BY <2>1, <2>2, <2>7, <2>8, <2>9 DEF Loose, PoolTypeOK, Phases
  <2> QED BY <2>1, <2>2, <2>10 DEF Control, BurstBounded
<1>8. ASSUME NoFreeSlot PROVE Shape'
  <2>1. UNCHANGED <<pool, dequeueIdx, srv, job, releasing, jobLimiter, inFlight,
                    pass, toVisit, freeJobs, poolCanGrow, elapsed, status, verdict>>
    BY <1>8 DEF NoFreeSlot, EndVisit, poolVars, reportVars
  <2>2. pc' = "dispatch" /\ claimant' = Nobody
    BY <1>8 DEF NoFreeSlot, EndVisit
  <2>3. tokens' \in Tokens /\ taken' \in Nat /\ BurstBounded'
    BY <1>8, Capacities
    DEF NoFreeSlot, GiveBackOne, Remaining, Loose, Tokens, BurstBounded
  <2>4. Loose'
    BY <2>1, <2>2, <2>3 DEF Loose, PoolTypeOK, Phases
  <2>5. pc = "slot"
    BY <1>8 DEF NoFreeSlot
  <2> QED BY <2>1, <2>2, <2>3, <2>4, <2>5 DEF Control
<1>9. ASSUME EndPass PROVE Shape'
  <2>1. UNCHANGED <<pool, dequeueIdx, srv, job, releasing, jobLimiter, inFlight,
                    tokens, taken, claimant, freeJobs, poolCanGrow, elapsed,
                    status, verdict>>
    BY <1>9 DEF EndPass, poolVars, workerVars, bucketVars, reportVars
  <2>2. /\ pc = "dispatch"
        /\ \/ pass' = 1 /\ toVisit' = pool /\ pc' = pc
           \/ pc' = "grow" /\ pass' = 0 /\ toVisit' = {}
    BY <1>9 DEF EndPass
  <2>3. Loose'
    BY <2>1, <2>2 DEF Loose, PoolTypeOK, Phases
  <2> QED BY <2>1, <2>2, <2>3 DEF Control, BurstBounded
<1>10. ASSUME LeaveLoop PROVE Shape'
  <2>1. UNCHANGED <<pool, dequeueIdx, srv, job, releasing, jobLimiter, inFlight,
                    tokens, taken, claimant, pass, toVisit, elapsed, status, verdict>>
    BY <1>10 DEF LeaveLoop, EndIteration, poolVars, workerVars, bucketVars, reportVars
  <2>2. pc = "grow" /\ pc' = "wait" /\ freeJobs' = 0
    BY <1>10 DEF LeaveLoop, EndIteration
  <2>3. poolCanGrow' \in BOOLEAN
    BY <1>10, Zenon DEF LeaveLoop, EndIteration
  <2>4. Loose'
    BY <2>1, <2>2, <2>3 DEF Loose, PoolTypeOK, Phases
  <2> QED BY <2>1, <2>2, <2>4 DEF Control, BurstBounded
<1>11. ASSUME GrowPool PROVE Shape'
  <2>1. UNCHANGED <<srv, job, releasing, jobLimiter, inFlight, tokens, taken,
                    claimant, pass, toVisit, elapsed, status, verdict>>
    BY <1>11 DEF GrowPool, EndIteration, workerVars, bucketVars, reportVars
  <2>2. pc = "grow" /\ pc' = "collect" /\ freeJobs' = 0
    BY <1>11 DEF GrowPool, EndIteration
  <2>3. poolCanGrow' \in BOOLEAN
    BY <1>11, Zenon DEF GrowPool, EndIteration
  <2>4. PoolTypeOK' /\ pool \subseteq pool' /\ Cardinality(pool') <= MaxPoolSize
    <3>1. PICK k \in Nat : /\ dequeueIdx' = dequeueIdx + k
                           /\ dequeueIdx + k <= NumServers
                           /\ pool' = pool \cup (dequeueIdx + 1 .. dequeueIdx + k)
                           /\ Cardinality(pool') <= MaxPoolSize
      BY <1>11, GrowPoolEffect
    <3>2. dequeueIdx \in 0 .. NumServers /\ pool \subseteq Servers
      BY DEF Loose, PoolTypeOK
    <3>3. dequeueIdx + 1 .. dequeueIdx + k \subseteq Servers
      BY <3>1, <3>2, PoolAssumption DEF Servers
    <3>4. dequeueIdx' \in 0 .. NumServers
      BY <3>1, <3>2, PoolAssumption
    <3> QED BY <3>1, <3>2, <3>3, <3>4 DEF PoolTypeOK
  <2>5. Loose'
    BY <2>1, <2>2, <2>3, <2>4 DEF Loose, Phases
  <2> QED BY <2>1, <2>2, <2>4, <2>5 DEF Control, BurstBounded
<1>12. ASSUME Wait PROVE Shape'
  <2>1. UNCHANGED <<pool, dequeueIdx, srv, job, releasing, jobLimiter, inFlight,
                    tokens, taken, pass, toVisit, claimant, freeJobs, poolCanGrow,
                    elapsed, status, verdict>>
    BY <1>12 DEF Wait, poolVars, workerVars, bucketVars, iterationVars, reportVars
  <2>2. pc = "wait" /\ pc' = "done"
    BY <1>12 DEF Wait
  <2>3. Loose'
    BY <2>1, <2>2 DEF Loose, PoolTypeOK, Phases
  <2> QED BY <2>1, <2>2, <2>3 DEF Control, BurstBounded
<1>13. ASSUME NEW s \in Servers, NEW c \in Checks, NEW a \in Answers, WorkerSend(s, c, a)
       PROVE  Shape'
  <2>1. UNCHANGED <<pool, dequeueIdx, srv, jobLimiter, inFlight, tokens, taken, pc,
                    pass, toVisit, claimant, freeJobs, poolCanGrow, elapsed, status,
                    verdict>>
    BY <1>13 DEF WorkerSend, poolVars, bucketVars, iterationVars, reportVars
  <2>2. job' \in [Servers -> [Checks -> Jobs]] /\ releasing' \in Nat
    BY <1>13 DEF WorkerSend, Loose, Jobs
  <2>3. Loose'
    BY <2>1, <2>2 DEF Loose, PoolTypeOK
  <2> QED BY <2>1, <2>3 DEF Control, BurstBounded
<1>14. ASSUME WorkerRelease PROVE Shape'
  <2>1. UNCHANGED <<pool, dequeueIdx, srv, job, inFlight, tokens, taken, pc, pass,
                    toVisit, claimant, freeJobs, poolCanGrow, elapsed, status,
                    verdict>>
    BY <1>14 DEF WorkerRelease, poolVars, bucketVars, iterationVars, reportVars
  <2>2. releasing' \in Nat /\ jobLimiter' \in Int
    BY <1>14 DEF WorkerRelease, Loose
  <2>3. Loose'
    BY <2>1, <2>2 DEF Loose, PoolTypeOK
  <2> QED BY <2>1, <2>3 DEF Control, BurstBounded
<1>15. ASSUME Refill PROVE Shape'
  <2>1. UNCHANGED <<pool, dequeueIdx, srv, job, releasing, jobLimiter, inFlight, pc,
                    pass, toVisit, claimant, freeJobs, poolCanGrow, elapsed, status,
                    verdict>>
    BY <1>15 DEF Refill, poolVars, workerVars, iterationVars, reportVars
  <2>2. tokens' \in Tokens /\ taken' \in Nat /\ BurstBounded'
    BY <1>15, Capacities DEF Refill, RefillOnce, AtMost, Loose, Tokens, BurstBounded
  <2>3. Loose'
    BY <2>1, <2>2 DEF Loose, PoolTypeOK
  <2> QED BY <2>1, <2>2, <2>3 DEF Control
<1>16. ASSUME Tick PROVE Shape'
  <2>1. UNCHANGED <<pool, dequeueIdx, srv, job, releasing, jobLimiter, inFlight,
                    tokens, taken, pc, pass, toVisit, claimant, freeJobs, poolCanGrow,
                    status, verdict>>
    BY <1>16 DEF Tick, poolVars, workerVars, bucketVars, iterationVars, reportVars
  <2>2. elapsed' \in 0 .. QueryInterval
    BY <1>16, ContextAssumption DEF Tick, Loose
  <2>3. Loose'
    BY <2>1, <2>2 DEF Loose, PoolTypeOK
  <2> QED BY <2>1, <2>3 DEF Control, BurstBounded
<1>17. CASE UNCHANGED vars
  BY <1>17 DEF vars, Loose, PoolTypeOK, Control, BurstBounded
<1> QED
  BY <1>1, <1>2, <1>3, <1>4, <1>5, <1>6, <1>7, <1>8, <1>9, <1>10, <1>11, <1>12,
     <1>13, <1>14, <1>15, <1>16, <1>17
  DEF Next, SchedulerStep, Answer, Terminated

-----------------------------------------------------------------------------
(* Layer 2: where each check and each server is.                           *)

\* The checks of a server without a verdict, given its context and its row of
\* the queries: each is queued, out or settled, and only one of the three;
\* one that is queued or out has an attempt left.
Placed(ctx, row) ==
  \A c \in Checks :
    /\ c \in PendingChecks(ctx) \/ row[c] # "none" \/ c \in SettledChecks(ctx)
    /\ c \in PendingChecks(ctx) => /\ row[c] = "none"
                                  /\ c \notin SettledChecks(ctx)
                                  /\ ctx.attemptsLeft[c] >= 1
    /\ row[c] # "none" => /\ c \notin SettledChecks(ctx)
                          /\ ctx.attemptsLeft[c] >= 1

\* Nothing has decided the server yet.
Undecided(ctx) ==
  /\ ~ctx.disabled
  /\ ~ctx.cancelled
  /\ ctx.completed # NumChecks
  /\ ctx.failed < DropThreshold

ServerInv(s) ==
  /\ ContextInv(srv[s])
  /\ \A c \in Checks : srv[s].answer[c] # "cancelled"
  /\ verdict[s] = "none" => Placed(srv[s], job[s]) /\ Undecided(srv[s])
  /\ verdict[s] = "valid" => /\ srv[s].completed = NumChecks
                             /\ srv[s].failed < DropThreshold
                             /\ ~srv[s].cancelled
                             /\ \A c \in Checks : job[s][c] = "none"
  /\ verdict[s] = "invalid" => srv[s].failed >= DropThreshold
  /\ s > dequeueIdx => \A c \in Checks : job[s][c] = "none"
  /\ \A c \in Checks : job[s][c] = "cancelled" => verdict[s] = "invalid"

Placement == NoServerLost /\ \A s \in Servers : ServerInv(s)

\* A result of a placed check leaves every check placed.
LEMMA ApplyResultsPlaced ==
  ASSUME NEW ctx, ContextInv(ctx), NEW row \in [Checks -> Jobs], Placed(ctx, row),
         NEW c \in Checks, row[c] \in Answers
  PROVE  LET next == ApplyResults(ctx, c, row[c])
         IN  /\ Awaited(ctx, c)
             /\ ContextInv(next)
             /\ Placed(next, [row EXCEPT ![c] = "none"])
<1> DEFINE a    == row[c]
           next == ApplyResults(ctx, c, a)
           rest == [row EXCEPT ![c] = "none"]
           retry == WillRetry(ctx, c, a)
<1>1. Awaited(ctx, c)
  BY DEF Placed, Awaited, Answers
<1>2. /\ ContextInv(next)
      /\ SettledChecks(next) = IF retry THEN SettledChecks(ctx)
                               ELSE SettledChecks(ctx) \cup {c}
      /\ PendingChecks(next) = IF retry THEN PendingChecks(ctx) \cup {c}
                               ELSE PendingChecks(ctx)
      /\ retry => next.attemptsLeft[c] >= 1
      /\ \A d \in Checks \ {c} : next.attemptsLeft[d] = ctx.attemptsLeft[d]
  BY <1>1, ApplyResultsInv
<1>3. rest[c] = "none" /\ \A d \in Checks \ {c} : rest[d] = row[d]
  OBVIOUS
<1>4. c \notin PendingChecks(ctx) /\ c \notin SettledChecks(ctx)
  BY <1>1 DEF Awaited
<1> HIDE DEF next, rest, retry
<1>5. /\ c \in SettledChecks(next) <=> ~retry
      /\ c \in PendingChecks(next) <=> retry
  <2>1. CASE retry
    BY <2>1, <1>2, <1>4
  <2>2. CASE ~retry
    BY <2>2, <1>2, <1>4
  <2> QED BY <2>1, <2>2
<1>6. ASSUME NEW d \in Checks \ {c}
      PROVE  /\ d \in SettledChecks(next) <=> d \in SettledChecks(ctx)
             /\ d \in PendingChecks(next) <=> d \in PendingChecks(ctx)
  <2>1. CASE retry
    BY <2>1, <1>2
  <2>2. CASE ~retry
    BY <2>2, <1>2
  <2> QED BY <2>1, <2>2
<1>7. Placed(next, rest)
  <2> SUFFICES ASSUME NEW d \in Checks
               PROVE  /\ d \in PendingChecks(next) \/ rest[d] # "none" \/ d \in SettledChecks(next)
                      /\ d \in PendingChecks(next) => /\ rest[d] = "none"
                                                     /\ d \notin SettledChecks(next)
                                                     /\ next.attemptsLeft[d] >= 1
                      /\ rest[d] # "none" => /\ d \notin SettledChecks(next)
                                            /\ next.attemptsLeft[d] >= 1
    BY DEF Placed
  <2>1. CASE d = c
    <3>1. retry => next.attemptsLeft[c] >= 1
      BY <1>2
    <3> QED BY <2>1, <3>1, <1>3, <1>5
  <2>2. CASE d # c
    <3>1. rest[d] = row[d] /\ next.attemptsLeft[d] = ctx.attemptsLeft[d]
      BY <2>2, <1>2, <1>3
    <3> QED BY <2>2, <3>1, <1>6 DEF Placed
  <2> QED BY <2>1, <2>2
<1> QED BY <1>1, <1>2, <1>7 DEF next, rest

\* A launch moves the first queued check out.
LEMMA LaunchPlaced ==
  ASSUME NEW ctx, ContextInv(ctx), NEW row \in [Checks -> Jobs], Placed(ctx, row),
         ctx.pending # <<>>
  PROVE  LET c    == Head(ctx.pending)
             next == [ctx EXCEPT !.pending = Tail(@), !.nextQueryIn = QueryInterval]
         IN  /\ c \in Checks
             /\ row[c] = "none"
             /\ ContextInv(next)
             /\ Placed(next, [row EXCEPT ![c] = "query"])
             /\ Undecided(ctx) => Undecided(next)
             /\ next.answer = ctx.answer
<1> DEFINE c    == Head(ctx.pending)
           rest == Tail(ctx.pending)
           next == [ctx EXCEPT !.pending = rest, !.nextQueryIn = QueryInterval]
           out  == [row EXCEPT ![c] = "query"]
<1>1. ctx \in LooseContext /\ ctx.pending \in Seq(Checks) /\ NoRepeat(ctx.pending)
  BY DEF ContextInv, LooseContext
<1>2. /\ c \in Checks
      /\ c \in {ctx.pending[i] : i \in DOMAIN ctx.pending}
      /\ rest \in Seq(Checks)
      /\ NoRepeat(rest)
      /\ {rest[i] : i \in DOMAIN rest} =
           {ctx.pending[i] : i \in DOMAIN ctx.pending} \ {c}
  BY <1>1, PopFront
<1> HIDE DEF c, rest
<1>3. /\ next \in LooseContext
      /\ next.pending = rest
      /\ next.attemptsLeft = ctx.attemptsLeft
      /\ next.answer = ctx.answer
      /\ next.completed = ctx.completed
      /\ next.failed = ctx.failed
      /\ next.disabled = ctx.disabled
      /\ next.cancelled = ctx.cancelled
  <2>1. QueryInterval \in 0 .. QueryInterval
    BY ContextAssumption
  <2> QED BY <1>1, <1>2, <2>1 DEF LooseContext
<1> HIDE DEF next
<1>4. \A d \in Checks : Settled(next, d) <=> Settled(ctx, d)
  BY <1>3 DEF Settled
<1>5. SettledChecks(next) = SettledChecks(ctx) /\ FailedChecks(next) = FailedChecks(ctx)
  BY <1>3, <1>4 DEF SettledChecks, FailedChecks
<1>6. PendingChecks(next) = PendingChecks(ctx) \ {c} /\ c \in PendingChecks(ctx)
  BY <1>2, <1>3, Zenon DEF PendingChecks
<1>7. ContextInv(next)
  BY <1>2, <1>3, <1>5 DEF ContextInv
<1>8. row[c] = "none"
  BY <1>2, <1>6 DEF Placed
<1>9. out[c] = "query" /\ \A d \in Checks \ {c} : out[d] = row[d]
  BY <1>2
<1> HIDE DEF out
<1>10. Placed(next, out)
  <2> SUFFICES ASSUME NEW d \in Checks
               PROVE  /\ d \in PendingChecks(next) \/ out[d] # "none" \/ d \in SettledChecks(next)
                      /\ d \in PendingChecks(next) => /\ out[d] = "none"
                                                     /\ d \notin SettledChecks(next)
                                                     /\ next.attemptsLeft[d] >= 1
                      /\ out[d] # "none" => /\ d \notin SettledChecks(next)
                                            /\ next.attemptsLeft[d] >= 1
    BY DEF Placed
  <2>1. CASE d = c
    BY <2>1, <1>2, <1>3, <1>5, <1>6, <1>9 DEF Placed
  <2>2. CASE d # c
    BY <2>2, <1>3, <1>5, <1>6, <1>9 DEF Placed
  <2> QED BY <2>1, <2>2
<1>11. Undecided(ctx) => Undecided(next)
  BY <1>3 DEF Undecided
<1> QED BY <1>2, <1>3, <1>7, <1>8, <1>10, <1>11 DEF c, rest, next, out

\* The clock does not move a check.
LEMMA ClockPlaced ==
  ASSUME NEW ctx, ContextInv(ctx), NEW n \in 0 .. QueryInterval
  PROVE  LET next == [ctx EXCEPT !.nextQueryIn = n]
         IN  /\ ContextInv(next)
             /\ SettledChecks(next) = SettledChecks(ctx)
             /\ PendingChecks(next) = PendingChecks(ctx)
             /\ next.attemptsLeft = ctx.attemptsLeft
             /\ next.answer = ctx.answer
             /\ next.completed = ctx.completed
             /\ next.failed = ctx.failed
             /\ next.disabled = ctx.disabled
             /\ next.cancelled = ctx.cancelled
<1> DEFINE next == [ctx EXCEPT !.nextQueryIn = n]
<1>1. ctx \in LooseContext
  BY DEF ContextInv
<1>2. /\ next \in LooseContext
      /\ next.pending = ctx.pending
      /\ next.attemptsLeft = ctx.attemptsLeft
      /\ next.answer = ctx.answer
      /\ next.completed = ctx.completed
      /\ next.failed = ctx.failed
      /\ next.disabled = ctx.disabled
      /\ next.cancelled = ctx.cancelled
  BY <1>1 DEF LooseContext
<1> HIDE DEF next
<1>3. \A d \in Checks : Settled(next, d) <=> Settled(ctx, d)
  BY <1>2 DEF Settled
<1>4. SettledChecks(next) = SettledChecks(ctx) /\ FailedChecks(next) = FailedChecks(ctx)
  BY <1>2, <1>3 DEF SettledChecks, FailedChecks
<1>5. PendingChecks(next) = PendingChecks(ctx)
  BY <1>2, Zenon DEF PendingChecks
<1>6. ContextInv(next)
  BY <1>2, <1>4 DEF ContextInv
<1> QED BY <1>2, <1>4, <1>5, <1>6 DEF next

\* A step that leaves a server alone keeps its invariant, even if it takes
\* more servers from the list.
LEMMA SameServer ==
  ASSUME NEW s \in Servers, ServerInv(s), Loose, Loose', dequeueIdx <= dequeueIdx',
         srv'[s] = srv[s], job'[s] = job[s], verdict'[s] = verdict[s]
  PROVE  ServerInv(s)'
<1>1. s > dequeueIdx' => s > dequeueIdx
  BY DEF Loose, PoolTypeOK, Servers
<1> QED BY <1>1 DEF ServerInv

\* At the start every check is pending, and every server in the list.
LEMMA InitPlacement == Init => Placement
<1> SUFFICES ASSUME Init PROVE Placement
  OBVIOUS
<1>1. NoServerLost
  BY FS_EmptySet, PoolAssumption DEF Init, PoolInit, NoServerLost
<1>2. ASSUME NEW s \in Servers PROVE ServerInv(s)
  <2>1. /\ srv[s] = NewServerContext
        /\ job[s] = [c \in Checks |-> "none"]
        /\ verdict[s] = "none"
    BY <1>2 DEF Init
  <2>2. Placed(srv[s], job[s])
    <3>1. \A c \in Checks : NewServerContext.attemptsLeft[c] >= 1
      BY ContextAssumption DEF NewServerContext
    <3> QED BY <2>1, <3>1, NewContextInv DEF Placed
  <2>3. Undecided(srv[s])
    BY <2>1, ContextAssumption DEF Undecided, NewServerContext, DropThreshold
  <2>4. \A c \in Checks : srv[s].answer[c] # "cancelled"
    BY <2>1 DEF NewServerContext, Skipped
  <2> QED BY <2>1, <2>2, <2>3, <2>4, NewContextInv DEF ServerInv
<1> QED BY <1>1, <1>2 DEF Placement

\* What a collected result does to the context of its server, and that the
\* verdict it may entail is the right one.
LEMMA CollectedResult ==
  ASSUME Shape, Placement, NEW s \in Servers, NEW c \in Checks, CollectResult(s, c)
  PROVE  LET next == ApplyResults(srv[s], c, job[s][c])
             rest == [job[s] EXCEPT ![c] = "none"]
         IN  /\ verdict[s] = "none"
             /\ job[s][c] \in Answers \ {"cancelled"}
             /\ ContextInv(next)
             /\ \A d \in Checks : next.answer[d] # "cancelled"
             /\ Placed(next, rest)
             /\ ~Finished(next) => Undecided(next)
             /\ Finished(next) /\ next.disabled => next.failed >= DropThreshold
             /\ Finished(next) /\ ~next.disabled =>
                  /\ next.completed = NumChecks
                  /\ next.failed < DropThreshold
                  /\ ~next.cancelled
                  /\ \A d \in Checks : rest[d] = "none"
<1> DEFINE a     == job[s][c]
           ctx   == srv[s]
           next  == ApplyResults(ctx, c, a)
           rest  == [job[s] EXCEPT ![c] = "none"]
           fails == ~Matches(a) /\ ~WillRetry(ctx, c, a)
           drops == fails /\ ReachesDropThreshold(ctx.failed + 1)
<1>1. a \in Answers /\ s \in pool
  BY DEF CollectResult, Results, JobsIn, Loaded
<1>2. verdict[s] = "none"
  BY <1>1 DEF Placement, NoServerLost
<1>3. ServerInv(s)
  BY DEF Placement
<1>4. /\ ContextInv(ctx) /\ Placed(ctx, job[s]) /\ Undecided(ctx)
      /\ a # "cancelled"
      /\ \A d \in Checks : ctx.answer[d] # "cancelled"
  BY <1>2, <1>3 DEF ServerInv
<1>5. job[s] \in [Checks -> Jobs]
  BY DEF Shape, Loose
<1>6. ContextInv(next) /\ Placed(next, rest)
  BY <1>1, <1>4, <1>5, ApplyResultsPlaced
<1>7. ctx \in LooseContext /\ ctx.failed \in Int
  BY <1>4 DEF ContextInv, LooseContext
<1>8. /\ next.answer = [ctx.answer EXCEPT ![c] = a]
      /\ next.failed = IF fails THEN ctx.failed + 1 ELSE ctx.failed
      /\ next.disabled = (ctx.disabled \/ drops)
      /\ next.cancelled = (ctx.cancelled \/ drops)
  <2> HIDE DEF a, ctx
  <2>1. /\ next.answer = [ctx.answer EXCEPT ![c] = a]
        /\ next.failed = IF fails THEN ctx.failed + 1 ELSE ctx.failed
    BY <1>1, <1>7, ApplyResultsFields, ZenonT(40)
  <2>2. next.disabled = (ctx.disabled \/ drops)
    BY <1>1, <1>7, ApplyResultsFields, ZenonT(40)
  <2>3. next.cancelled = (ctx.cancelled \/ drops)
    BY <1>1, <1>7, ApplyResultsFields, Zenon
  <2> QED BY <2>1, <2>2, <2>3
<1>9. ctx.failed >= 0
  <2>1. FailedChecks(ctx) \in SUBSET Checks
    BY DEF FailedChecks, SettledChecks
  <2> QED BY <2>1, <1>4, ChecksFinite DEF ContextInv
<1>10. drops => next.failed >= DropThreshold
  BY <1>7, <1>8, <1>9, ContextAssumption DEF ReachesDropThreshold, DropThreshold
<1>11. ~drops => next.failed < DropThreshold
  BY <1>4, <1>7, <1>8, <1>9, ContextAssumption
  DEF ReachesDropThreshold, DropThreshold, Undecided
<1> HIDE DEF drops, fails, next, rest
<1>12. \A d \in Checks : next.answer[d] # "cancelled"
  BY <1>4, <1>7, <1>8 DEF LooseContext
<1>13. (next.disabled <=> drops) /\ (next.cancelled <=> drops)
  BY <1>4, <1>8, Zenon DEF Undecided
<1>14. next.completed = NumChecks => \A d \in Checks : rest[d] = "none"
  <2>1. SettledChecks(next) \in SUBSET Checks
    BY DEF SettledChecks
  <2>2. next.completed = NumChecks => SettledChecks(next) = Checks
    BY <2>1, <1>6, ChecksFinite DEF ContextInv
  <2> QED BY <2>2, <1>6 DEF Placed
<1>15. ~Finished(next) => Undecided(next)
  BY <1>11, <1>13 DEF Finished, Undecided
<1>16. Finished(next) /\ next.disabled => next.failed >= DropThreshold
  BY <1>10, <1>13
<1>17. Finished(next) /\ ~next.disabled =>
         /\ next.completed = NumChecks
         /\ next.failed < DropThreshold
         /\ ~next.cancelled
         /\ \A d \in Checks : rest[d] = "none"
  BY <1>11, <1>13, <1>14 DEF Finished
<1> QED BY <1>1, <1>2, <1>4, <1>6, <1>12, <1>15, <1>16, <1>17 DEF next, rest

\* Servers that are on neither side of a step's pool and verdict change.
LEMMA SamePool ==
  ASSUME NoServerLost, UNCHANGED <<pool, dequeueIdx, verdict>>
  PROVE  NoServerLost'
BY DEF NoServerLost

\* Every step keeps each check and each server in its place.
LEMMA NextPlacement == Shape /\ Shape' /\ Placement /\ [Next]_vars => Placement'
<1> SUFFICES ASSUME Shape, Shape', Placement, [Next]_vars PROVE Placement'
  OBVIOUS
<1>a. Loose /\ Loose' /\ Control
  BY DEF Shape
<1>b. NoServerLost /\ \A s \in Servers : ServerInv(s)
  BY DEF Placement
<1>c. dequeueIdx \in Nat /\ pool \subseteq Servers
  BY <1>a DEF Loose, PoolTypeOK
<1>1. ASSUME NEW s \in Servers, NEW c \in Checks, CollectResult(s, c)
      PROVE  Placement'
  <2> DEFINE next == ApplyResults(srv[s], c, job[s][c])
             rest == [job[s] EXCEPT ![c] = "none"]
  <2>1. /\ verdict[s] = "none"
        /\ ContextInv(next)
        /\ \A d \in Checks : next.answer[d] # "cancelled"
        /\ Placed(next, rest)
        /\ ~Finished(next) => Undecided(next)
        /\ Finished(next) /\ next.disabled => next.failed >= DropThreshold
        /\ Finished(next) /\ ~next.disabled =>
             /\ next.completed = NumChecks
             /\ next.failed < DropThreshold
             /\ ~next.cancelled
             /\ \A d \in Checks : rest[d] = "none"
    BY <1>1, CollectedResult
  <2>2. /\ srv' = [srv EXCEPT ![s] = next]
        /\ job' = [job EXCEPT ![s] = rest]
        /\ dequeueIdx' = dequeueIdx
        /\ IF Finished(next)
             THEN /\ verdict' = [verdict EXCEPT ![s] = VerdictOf(next)]
                  /\ pool' = pool \ {s}
             ELSE UNCHANGED <<verdict, pool>>
    BY <1>1, <1>a DEF CollectResult, Unload, poolVars, Loose
  <2>3. s \in pool
    BY <1>1 DEF CollectResult, Loaded
  <2>4. rest \in [Checks -> Jobs] /\ rest[c] = "none" /\ \A d \in Checks \ {c} : rest[d] = job[s][d]
    BY <1>a DEF Loose, Jobs
  <2> HIDE DEF next, rest
  <2>5. srv'[s] = next /\ job'[s] = rest
    BY <1>a, <2>2 DEF Loose
  <2>6. \A t \in Servers \ {s} :
          srv'[t] = srv[t] /\ job'[t] = job[t] /\ verdict'[t] = verdict[t]
    BY <1>a, <2>2 DEF Loose
  <2>7. s <= dequeueIdx
    BY <1>b, <1>c, <2>3 DEF NoServerLost
  <2>8. verdict'[s] = IF ~Finished(next) THEN "none"
                      ELSE IF next.disabled THEN "invalid" ELSE "valid"
    BY <1>a, <2>1, <2>2 DEF VerdictOf, Loose
  <2>9. ServerInv(s)'
    <3>1. \A d \in Checks : rest[d] # "cancelled"
      BY <1>b, <2>1, <2>4 DEF ServerInv
    <3>2. CASE ~Finished(next)
      BY <3>1, <3>2, <2>1, <2>2, <2>5, <2>7, <2>8, <1>c DEF ServerInv, Servers
    <3>3. CASE Finished(next) /\ next.disabled
      BY <3>1, <3>3, <2>1, <2>2, <2>5, <2>7, <2>8, <1>c DEF ServerInv, Servers
    <3>4. CASE Finished(next) /\ ~next.disabled
      BY <3>1, <3>4, <2>1, <2>2, <2>5, <2>7, <2>8, <1>c DEF ServerInv, Servers
    <3> QED BY <3>2, <3>3, <3>4
  <2>10. \A t \in Servers \ {s} : ServerInv(t)'
    BY <1>a, <1>b, <1>c, <2>2, <2>6, SameServer
  <2>11. NoServerLost'
    <3>1. CASE ~Finished(next)
      BY <3>1, <2>2, <1>b, SamePool
    <3>2. CASE Finished(next)
      <4>1. Cardinality(pool') <= MaxPoolSize
        BY DEF Shape, Control
      <4>2. verdict'[s] # "none" /\ pool' = pool \ {s}
        BY <2>2, <2>8, <3>2
      <4>3. \A t \in 1 .. dequeueIdx : t \in Servers
        BY <1>a, PoolAssumption DEF Loose, PoolTypeOK, Servers
      <4>4. pool' = {t \in 1 .. dequeueIdx : verdict'[t] = "none"}
        BY <4>2, <4>3, <2>6, <1>b DEF NoServerLost
      <4>5. \A t \in Servers : t > dequeueIdx => verdict'[t] = "none"
        BY <2>6, <2>7, <1>b, <1>c DEF NoServerLost, Servers
      <4> QED BY <4>1, <4>4, <4>5, <2>2 DEF NoServerLost
    <3> QED BY <3>1, <3>2
  <2> QED BY <2>9, <2>10, <2>11 DEF Placement
<1>2. ASSUME NEW s \in Servers, NEW c \in Checks, DiscardResult(s, c)
      PROVE  Placement'
  <2>1. /\ UNCHANGED <<pool, dequeueIdx, verdict, srv>>
        /\ job' = [job EXCEPT ![s] = [job[s] EXCEPT ![c] = "none"]]
        /\ job[s][c] # "none"
        /\ s \notin pool
    BY <1>2, <1>a
    DEF DiscardResult, poolVars, reportVars, Loose, Results, JobsIn, Loaded, Answers
  <2>2. verdict[s] # "none"
    BY <2>1, <1>b, <1>c DEF NoServerLost, ServerInv, Servers
  <2>3. \A d \in Checks : job'[s][d] # "none" => job'[s][d] = job[s][d]
    BY <2>1, <1>a DEF Loose
  <2>4. \A t \in Servers \ {s} : job'[t] = job[t]
    BY <2>1, <1>a DEF Loose
  <2>5. ServerInv(s)'
    <3>1. \A d \in Checks : job'[s][d] = "cancelled" => job[s][d] = "cancelled"
      BY <2>3
    <3>2. (\A d \in Checks : job[s][d] = "none") => \A d \in Checks : job'[s][d] = "none"
      BY <2>3
    <3> QED BY <3>1, <3>2, <2>1, <2>2, <1>b DEF ServerInv
  <2>6. \A t \in Servers \ {s} : ServerInv(t)'
    BY <1>a, <1>b, <1>c, <2>1, <2>4, SameServer
  <2> QED BY <2>1, <2>5, <2>6, <1>b, SamePool DEF Placement
<1>3. ASSUME UNCHANGED <<pool, dequeueIdx, verdict, srv, job>> PROVE Placement'
  <2>1. \A t \in Servers : ServerInv(t)'
    BY <1>a, <1>b, <1>c, <1>3, SameServer
  <2> QED BY <2>1, <1>3, <1>b, SamePool DEF Placement
<1>4. ASSUME Snapshot PROVE Placement'
  <2>1. /\ UNCHANGED <<pool, dequeueIdx, verdict, job>>
        /\ srv' = [s \in Servers |->
                     IF s \in pool
                       THEN [srv[s] EXCEPT !.nextQueryIn = Remaining(@, elapsed)]
                       ELSE srv[s]]
    BY <1>4 DEF Snapshot, poolVars, workerVars, reportVars
  <2>2. ASSUME NEW s \in Servers PROVE ServerInv(s)'
    <3>1. CASE s \notin pool
      <4>1. srv'[s] = srv[s]
        BY <2>1, <3>1
      <4>2. job'[s] = job[s] /\ verdict'[s] = verdict[s] /\ dequeueIdx <= dequeueIdx'
        BY <2>1, <1>c
      <4> QED BY <4>1, <4>2, <1>a, <1>b, SameServer
    <3>2. CASE s \in pool
      <4> DEFINE n    == Remaining(srv[s].nextQueryIn, elapsed)
                 next == [srv[s] EXCEPT !.nextQueryIn = n]
      <4>1. ContextInv(srv[s])
        BY <1>b DEF ServerInv
      <4>2. n \in 0 .. QueryInterval
        <5>1. srv[s] \in LooseContext /\ elapsed \in 0 .. QueryInterval
          BY <1>a DEF Loose
        <5>2. srv[s].nextQueryIn \in 0 .. QueryInterval
          BY <5>1 DEF LooseContext
        <5> QED BY <5>1, <5>2, ContextAssumption DEF Remaining
      <4>3. srv'[s] = next
        BY <2>1, <3>2
      <4> HIDE DEF n
      <4>4. /\ ContextInv(next)
            /\ SettledChecks(next) = SettledChecks(srv[s])
            /\ PendingChecks(next) = PendingChecks(srv[s])
            /\ next.attemptsLeft = srv[s].attemptsLeft
            /\ next.answer = srv[s].answer
            /\ next.completed = srv[s].completed
            /\ next.failed = srv[s].failed
            /\ next.disabled = srv[s].disabled
            /\ next.cancelled = srv[s].cancelled
        BY <4>1, <4>2, ClockPlaced
      <4> HIDE DEF next
      <4>5. Placed(srv[s], job[s]) => Placed(next, job[s])
        BY <4>4 DEF Placed
      <4>6. Undecided(srv[s]) => Undecided(next)
        BY <4>4 DEF Undecided
      <4> QED BY <4>3, <4>4, <4>5, <4>6, <2>1, <1>b DEF ServerInv
    <3> QED BY <3>1, <3>2
  <2> QED BY <2>1, <2>2, <1>b, SamePool DEF Placement
<1>5. ASSUME NEW s \in Servers, LaunchQuery(s) PROVE Placement'
  <2> DEFINE c    == Head(srv[s].pending)
             next == [srv[s] EXCEPT !.pending = Tail(@), !.nextQueryIn = QueryInterval]
             out  == [job[s] EXCEPT ![c] = "query"]
  <2>1. s \in pool /\ srv[s].pending # <<>>
    BY <1>5, <1>a DEF LaunchQuery, Control
  <2>2. verdict[s] = "none" /\ s <= dequeueIdx
    BY <2>1, <1>b, <1>c DEF NoServerLost
  <2>3. ContextInv(srv[s]) /\ Placed(srv[s], job[s]) /\ Undecided(srv[s])
    BY <2>2, <1>b DEF ServerInv
  <2>4. job[s] \in [Checks -> Jobs]
    BY <1>a DEF Loose
  <2>5. /\ c \in Checks /\ job[s][c] = "none"
        /\ ContextInv(next) /\ Placed(next, out)
        /\ Undecided(next)
        /\ next.answer = srv[s].answer
    BY <2>1, <2>3, <2>4, LaunchPlaced
  <2>6. /\ UNCHANGED <<pool, dequeueIdx, verdict>>
        /\ srv' = [srv EXCEPT ![s] = next]
        /\ job' = [job EXCEPT ![s] = out]
    BY <1>5, <1>a DEF LaunchQuery, EndVisit, poolVars, reportVars, Loose
  <2>7. \A d \in Checks : out[d] # "cancelled"
    <3>1. \A d \in Checks : job[s][d] # "cancelled"
      BY <2>2, <1>b DEF ServerInv
    <3> QED BY <3>1, <2>4
  <2> HIDE DEF c, next, out
  <2>8. srv'[s] = next /\ job'[s] = out
    BY <2>6, <1>a DEF Loose
  <2>9. \A t \in Servers \ {s} : srv'[t] = srv[t] /\ job'[t] = job[t]
    BY <2>6, <1>a DEF Loose
  <2>10. \A d \in Checks : next.answer[d] # "cancelled"
    BY <2>5, <1>b DEF ServerInv
  <2>11. ServerInv(s)'
    BY <2>2, <2>5, <2>6, <2>7, <2>8, <2>10, <1>c DEF ServerInv, Servers
  <2>12. \A t \in Servers \ {s} : ServerInv(t)'
    BY <1>a, <1>b, <1>c, <2>6, <2>9, SameServer
  <2> QED BY <2>6, <2>11, <2>12, <1>b, SamePool DEF Placement
<1>6. ASSUME GrowPool PROVE Placement'
  <2>1. UNCHANGED <<srv, job, verdict>>
    BY <1>6 DEF GrowPool, EndIteration, workerVars, reportVars
  <2>2. PICK k \in Nat : /\ dequeueIdx' = dequeueIdx + k
                         /\ dequeueIdx + k <= NumServers
                         /\ pool' = pool \cup (dequeueIdx + 1 .. dequeueIdx + k)
                         /\ Cardinality(pool') <= MaxPoolSize
    BY <1>6, <1>a, GrowPoolEffect
  <2>3. \A t \in Servers : ServerInv(t)'
    BY <2>1, <2>2, <1>a, <1>b, <1>c, SameServer
  <2>4. \A t \in dequeueIdx + 1 .. dequeueIdx + k : t \in Servers /\ verdict[t] = "none"
    BY <2>2, <1>b, <1>c, PoolAssumption DEF NoServerLost, Servers
  <2>5. pool' = {t \in 1 .. dequeueIdx' : verdict'[t] = "none"}
    <3>1. ASSUME NEW t PROVE t \in pool' <=> t \in 1 .. dequeueIdx' /\ verdict[t] = "none"
      BY <2>2, <2>4, <1>b, <1>c DEF NoServerLost
    <3> QED BY <3>1, <2>1
  <2>6. \A t \in Servers : t > dequeueIdx' => verdict'[t] = "none"
    BY <2>1, <2>2, <1>b, <1>c DEF NoServerLost, Servers
  <2> QED BY <2>2, <2>3, <2>5, <2>6 DEF Placement, NoServerLost
<1>7. ASSUME NEW s \in Servers, NEW c \in Checks, NEW a \in Answers, WorkerSend(s, c, a)
      PROVE  Placement'
  <2>1. /\ UNCHANGED <<pool, dequeueIdx, verdict, srv>>
        /\ job' = [job EXCEPT ![s] = [job[s] EXCEPT ![c] = a]]
        /\ job[s][c] = "query"
        /\ a = "cancelled" => srv[s].cancelled
    BY <1>7, <1>a DEF WorkerSend, poolVars, reportVars, Loose, Querying, JobsIn
  <2>2. a # "none"
    BY DEF Answers
  <2>3. /\ job'[s][c] = a
        /\ \A d \in Checks \ {c} : job'[s][d] = job[s][d]
    BY <2>1, <1>a DEF Loose
  <2>4. \A d \in Checks : job'[s][d] = "none" <=> job[s][d] = "none"
    BY <2>1, <2>2, <2>3
  <2>5. verdict[s] \in Verdicts
    BY <1>a DEF Loose
  <2>6. a = "cancelled" => verdict[s] = "invalid"
    BY <2>1, <2>5, <1>b DEF ServerInv, Undecided, Verdicts
  <2>7. Placed(srv[s], job[s]) => Placed(srv[s], job'[s])
    BY <2>4 DEF Placed
  <2>8. ServerInv(s)'
    <3>1. \A d \in Checks : job'[s][d] = "cancelled" => verdict[s] = "invalid"
      BY <2>3, <2>6, <1>b DEF ServerInv
    <3>2. (\A d \in Checks : job[s][d] = "none") => \A d \in Checks : job'[s][d] = "none"
      BY <2>4
    <3> QED BY <3>1, <3>2, <2>1, <2>7, <1>b DEF ServerInv
  <2>9. \A t \in Servers \ {s} : job'[t] = job[t]
    BY <2>1, <1>a DEF Loose
  <2>10. \A t \in Servers \ {s} : ServerInv(t)'
    BY <1>a, <1>b, <1>c, <2>1, <2>9, SameServer
  <2> QED BY <2>1, <2>8, <2>10, <1>b, SamePool DEF Placement
<1>8. ASSUME \/ EndCollect \/ NoFreeSlot \/ EndPass \/ LeaveLoop \/ Wait
             \/ WorkerRelease \/ Refill \/ Tick \/ UNCHANGED vars
             \/ \E s \in Servers : SkipServer(s) \/ TakeToken(s)
      PROVE  Placement'
  <2>1. UNCHANGED <<pool, dequeueIdx, verdict, srv, job>>
    BY <1>8 DEF EndCollect, NoFreeSlot, EndVisit, EndPass, LeaveLoop, EndIteration, Wait,
                WorkerRelease, Refill, Tick, vars, SkipServer, TakeToken, Visit,
                poolVars, workerVars, reportVars
  <2> QED BY <2>1, <1>3
<1> QED
  BY <1>1, <1>2, <1>4, <1>5, <1>6, <1>7, <1>8
  DEF Next, SchedulerStep, Answer, Terminated

-----------------------------------------------------------------------------
(* Layer 3: the counters that summarise sets of workers.                   *)

\* The checks of a server that a worker or the channel holds.
Busy(s) == {c \in Checks : HasQuery(s, c)}

Counters ==
  /\ InFlightExact
  /\ SlotsHeldByWorkers
  /\ jobLimiter <= Cap
  /\ RoomForLateResults

\* What a change of one query does to the sets that are counted.
LEMMA JobChange ==
  ASSUME Loose, NEW s \in Servers, NEW c \in Checks, NEW j \in Jobs,
         job' = [job EXCEPT ![s][c] = j]
  PROVE  /\ Querying' = IF j = "query" THEN Querying \cup {<<s, c>>}
                        ELSE Querying \ {<<s, c>>}
         /\ Busy(s)' = IF j # "none" THEN Busy(s) \cup {c} ELSE Busy(s) \ {c}
         /\ \A t \in Servers \ {s} : Busy(t)' = Busy(t)
         /\ j # "none" /\ job[s][c] # "none" => Outstanding' = Outstanding
<1>1. /\ \A t \in Servers \ {s} : job'[t] = job[t]
      /\ job'[s][c] = j
      /\ \A d \in Checks \ {c} : job'[s][d] = job[s][d]
  BY DEF Loose
<1>2. Querying' = IF j = "query" THEN Querying \cup {<<s, c>>} ELSE Querying \ {<<s, c>>}
  <2>1. ASSUME NEW p \in Pairs, p # <<s, c>> PROVE job'[p[1]][p[2]] = job[p[1]][p[2]]
    <3>1. PICK t \in Servers, d \in Checks : p = <<t, d>>
      BY DEF Pairs
    <3>2. t # s \/ d # c
      BY <2>1, <3>1
    <3> QED BY <1>1, <3>1, <3>2
  <2>2. <<s, c>> \in Pairs
    BY DEF Pairs
  <2>3. <<s, c>>[1] = s /\ <<s, c>>[2] = c
    OBVIOUS
  <2>4. Querying' = {p \in Pairs : job'[p[1]][p[2]] = "query"}
    BY DEF Querying, JobsIn
  <2>5. Querying = {p \in Pairs : job[p[1]][p[2]] = "query"}
    BY DEF Querying, JobsIn
  <2>6. CASE j = "query"
    BY <2>1, <2>2, <2>3, <2>4, <2>5, <2>6, <1>1
  <2>7. CASE j # "query"
    BY <2>1, <2>2, <2>3, <2>4, <2>5, <2>7, <1>1
  <2> QED BY <2>6, <2>7
<1>3. Busy(s)' = IF j # "none" THEN Busy(s) \cup {c} ELSE Busy(s) \ {c}
  <2>1. CASE j = "none"
    BY <2>1, <1>1 DEF Busy, HasQuery
  <2>2. CASE j # "none"
    BY <2>2, <1>1 DEF Busy, HasQuery
  <2> QED BY <2>1, <2>2
<1>4. \A t \in Servers \ {s} : Busy(t)' = Busy(t)
  BY <1>1 DEF Busy, HasQuery
<1>5. ASSUME j # "none", job[s][c] # "none" PROVE Outstanding' = Outstanding
  <2>1. ASSUME NEW t \in Servers, NEW d \in Checks
        PROVE  job'[t][d] # "none" <=> job[t][d] # "none"
    BY <1>1, <1>5
  <2>2. Outstanding = {p \in Pairs : job[p[1]][p[2]] # "none"}
    <3>1. \A p \in Pairs : job[p[1]][p[2]] \in Jobs
      BY DEF Loose, Pairs
    <3> QED BY <3>1 DEF Outstanding, Querying, Results, JobsIn, Jobs, Answers
  <2>3. Outstanding' = {p \in Pairs : job'[p[1]][p[2]] # "none"}
    <3>1. \A t \in Servers, d \in Checks : job'[t][d] \in Jobs
      BY <1>1 DEF Loose
    <3>2. \A p \in Pairs : job'[p[1]][p[2]] \in Jobs
      BY <3>1 DEF Pairs
    <3> QED BY <3>2 DEF Outstanding, Querying, Results, JobsIn, Jobs, Answers
  <2> QED BY <2>1, <2>2, <2>3 DEF Pairs
<1> QED BY <1>2, <1>3, <1>4, <1>5

\* The sets that are counted are finite.
LEMMA CountedFinite ==
  /\ IsFiniteSet(Querying) /\ Cardinality(Querying) \in Nat
  /\ \A s \in Servers : /\ IsFiniteSet(Busy(s))
                        /\ Cardinality(Busy(s)) \in 0 .. NumChecks
<1>1. Querying \in SUBSET Pairs /\ \A s \in Servers : Busy(s) \in SUBSET Checks
  BY DEF Querying, JobsIn, Busy
<1> QED BY <1>1, ServersFinite, ChecksFinite

\* At the start nothing is in flight.
LEMMA InitCounters == Init => Counters
<1> SUFFICES ASSUME Init PROVE Counters
  OBVIOUS
<1>1. \A s \in Servers, c \in Checks : job[s][c] = "none"
  BY DEF Init
<1>2. Querying = {} /\ \A s \in Servers : {c \in Checks : HasQuery(s, c)} = {}
  BY <1>1 DEF Querying, JobsIn, Pairs, HasQuery
<1>3. Cap \in Nat /\ Cap > 0
  BY Capacities
<1>4. /\ \A s \in Servers : inFlight[s] = 0
      /\ jobLimiter = 0 /\ releasing = 0 /\ pc = "collect"
  BY DEF Init
<1>5. InFlightExact
  BY <1>2, <1>4, FS_EmptySet DEF InFlightExact
<1>6. SlotsHeldByWorkers
  BY <1>2, <1>4, FS_EmptySet DEF SlotsHeldByWorkers
<1> QED BY <1>3, <1>4, <1>5, <1>6 DEF Counters, RoomForLateResults

\* A result that is read leaves the row of its server, and inFlight follows.
LEMMA ReadResult ==
  ASSUME Loose, InFlightExact, NEW s \in Servers, NEW c \in Checks,
         job[s][c] \in Answers,
         job' = [job EXCEPT ![s][c] = "none"],
         inFlight' = [inFlight EXCEPT ![s] = Landed(@)]
  PROVE  InFlightExact' /\ Querying' = Querying
<1>1. /\ Querying' = Querying \ {<<s, c>>}
      /\ Busy(s)' = Busy(s) \ {c}
      /\ \A t \in Servers \ {s} : Busy(t)' = Busy(t)
  <2>1. "none" \in Jobs
    BY DEF Jobs
  <2> QED BY <2>1, JobChange
<1>2. <<s, c>> \notin Querying
  BY DEF Querying, JobsIn, Answers
<1>3. c \in Busy(s)
  BY DEF Busy, HasQuery, Answers
<1>4. \A t \in Servers : inFlight[t] = Cardinality(Busy(t))
  BY DEF InFlightExact, Busy
<1>5. Cardinality(Busy(s) \ {c}) = Cardinality(Busy(s)) - 1
  BY <1>3, CountedFinite, FS_RemoveElement
<1>6. inFlight'[s] = Cardinality(Busy(s) \ {c})
  <2>1. Cardinality(Busy(s) \ {c}) \in Nat
    BY CountedFinite, FS_RemoveElement, FS_Subset, FS_CardinalityType
  <2>2. inFlight'[s] = Landed(inFlight[s]) /\ inFlight[s] \in Nat
    BY DEF Loose
  <2> QED BY <2>1, <2>2, <1>4, <1>5 DEF Landed
<1>7. \A t \in Servers \ {s} : inFlight'[t] = inFlight[t]
  BY DEF Loose
<1>8. \A t \in Servers : inFlight'[t] = Cardinality(Busy(t))'
  BY <1>1, <1>4, <1>6, <1>7
<1> QED BY <1>1, <1>2, <1>8 DEF InFlightExact, Busy

\* Every step keeps the counters exact and leaves room for late results.
LEMMA NextCounters ==
  Shape /\ Shape' /\ Placement /\ Counters /\ [Next]_vars => Counters'
<1> SUFFICES ASSUME Shape, Shape', Placement, Counters, [Next]_vars PROVE Counters'
  OBVIOUS
<1>a. Loose /\ Loose' /\ Control
  BY DEF Shape
<1>b. InFlightExact /\ SlotsHeldByWorkers /\ jobLimiter <= Cap /\ RoomForLateResults
  BY DEF Counters
<1>c. /\ jobLimiter \in Int /\ releasing \in Nat /\ Cap \in Nat
      /\ Cardinality(Querying) \in Nat
  BY <1>a, Capacities, CountedFinite DEF Loose
<1>1. ASSUME NEW s \in Servers, NEW c \in Checks,
             CollectResult(s, c) \/ DiscardResult(s, c)
      PROVE  Counters'
  <2>1. /\ job[s][c] \in Answers
        /\ job' = [job EXCEPT ![s][c] = "none"]
        /\ inFlight' = [inFlight EXCEPT ![s] = Landed(@)]
        /\ UNCHANGED <<releasing, jobLimiter, pc>>
        /\ pc = "collect"
    BY <1>1 DEF CollectResult, DiscardResult, Results, JobsIn
  <2>2. InFlightExact' /\ Querying' = Querying
    BY <1>a, <1>b, <2>1, ReadResult
  <2> QED BY <1>b, <2>1, <2>2 DEF Counters, SlotsHeldByWorkers, RoomForLateResults
<1>2. ASSUME EndCollect PROVE Counters'
  <2>1. UNCHANGED <<pool, job, inFlight, jobLimiter, releasing>> /\ Results = {}
    BY <1>2 DEF EndCollect, NothingToCollect, poolVars, workerVars
  <2>2. Outstanding = Querying
    BY <2>1 DEF Outstanding
  <2>3. Cardinality(Outstanding) <= Cap
    BY <2>2, <1>b, <1>c DEF SlotsHeldByWorkers
  <2>4. Querying' = Querying /\ Outstanding' = Outstanding
    BY <2>1 DEF Querying, Results, Outstanding, JobsIn
  <2>5. InFlightExact'
    BY <2>1, <1>b DEF InFlightExact, HasQuery
  <2> QED BY <2>1, <2>3, <2>4, <2>5, <1>b
          DEF Counters, SlotsHeldByWorkers, RoomForLateResults
<1>3. ASSUME NEW s \in Servers, LaunchQuery(s) PROVE Counters'
  <2> DEFINE c == Head(srv[s].pending)
  <2>1. s \in pool /\ srv[s].pending # <<>>
    BY <1>3, <1>a DEF LaunchQuery, Control
  <2>2. verdict[s] = "none"
    BY <2>1 DEF Placement, NoServerLost
  <2>3. ContextInv(srv[s]) /\ Placed(srv[s], job[s])
    BY <2>2 DEF Placement, ServerInv
  <2>4. job[s] \in [Checks -> Jobs]
    BY <1>a DEF Loose
  <2>5. c \in Checks /\ job[s][c] = "none"
    BY <2>1, <2>3, <2>4, LaunchPlaced
  <2>6. /\ job' = [job EXCEPT ![s][c] = "query"]
        /\ inFlight' = [inFlight EXCEPT ![s] = @ + 1]
        /\ jobLimiter' = jobLimiter + 1 /\ jobLimiter < Cap
        /\ UNCHANGED <<pool, releasing>>
    BY <1>3 DEF LaunchQuery, EndVisit, poolVars
  <2> HIDE DEF c
  <2>7. /\ Querying' = Querying \cup {<<s, c>>}
        /\ Busy(s)' = Busy(s) \cup {c}
        /\ \A t \in Servers \ {s} : Busy(t)' = Busy(t)
    <3>1. "query" \in Jobs
      BY DEF Jobs
    <3> QED BY <3>1, <1>a, <2>5, <2>6, JobChange
  <2>8. c \notin Busy(s) /\ <<s, c>> \notin Querying
    BY <2>5 DEF Busy, HasQuery, Querying, JobsIn
  <2>9. /\ Cardinality(Busy(s) \cup {c}) = Cardinality(Busy(s)) + 1
        /\ Cardinality(Querying \cup {<<s, c>>}) = Cardinality(Querying) + 1
    BY <2>8, CountedFinite, FS_AddElement
  <2>10. \A t \in Servers : inFlight[t] = Cardinality(Busy(t))
    BY <1>b DEF InFlightExact, Busy
  <2>11. inFlight'[s] = inFlight[s] + 1 /\ \A t \in Servers \ {s} : inFlight'[t] = inFlight[t]
    BY <2>6, <1>a DEF Loose
  <2>12. InFlightExact'
    <3>1. \A t \in Servers : inFlight'[t] = Cardinality(Busy(t))'
      BY <2>7, <2>9, <2>10, <2>11
    <3> QED BY <3>1 DEF InFlightExact, Busy
  <2>13. SlotsHeldByWorkers'
    BY <2>6, <2>7, <2>9, <1>b, <1>c DEF SlotsHeldByWorkers
  <2>14. jobLimiter' <= Cap
    BY <2>6, <1>c
  <2> QED BY <2>1, <2>6, <2>12, <2>13, <2>14 DEF Counters, RoomForLateResults
<1>4. ASSUME NEW s \in Servers, NEW c \in Checks, NEW a \in Answers, WorkerSend(s, c, a)
      PROVE  Counters'
  <2>1. /\ job' = [job EXCEPT ![s][c] = a]
        /\ releasing' = releasing + 1
        /\ UNCHANGED <<pool, jobLimiter, inFlight, pc>>
        /\ <<s, c>> \in Querying
        /\ job[s][c] = "query"
    BY <1>4 DEF WorkerSend, poolVars, Querying, JobsIn
  <2>2. a \in Jobs /\ a # "none" /\ a # "query"
    BY DEF Jobs, Answers
  <2>3. /\ Querying' = Querying \ {<<s, c>>}
        /\ Busy(s)' = Busy(s) \cup {c}
        /\ \A t \in Servers \ {s} : Busy(t)' = Busy(t)
        /\ Outstanding' = Outstanding
    BY <1>a, <2>1, <2>2, JobChange
  <2>4. \A t \in Servers : Busy(t)' = Busy(t)
    BY <2>1, <2>3 DEF Busy, HasQuery
  <2>5. InFlightExact'
    <3>1. \A t \in Servers : inFlight'[t] = Cardinality(Busy(t))'
      BY <2>1, <2>4, <1>b DEF InFlightExact, Busy
    <3> QED BY <3>1 DEF InFlightExact, Busy
  <2>6. Cardinality(Querying \ {<<s, c>>}) = Cardinality(Querying) - 1
    BY <2>1, CountedFinite, FS_RemoveElement
  <2>7. SlotsHeldByWorkers'
    BY <2>1, <2>3, <2>6, <1>b, <1>c DEF SlotsHeldByWorkers
  <2> QED BY <2>1, <2>3, <2>5, <2>7, <1>b DEF Counters, RoomForLateResults
<1>5. ASSUME WorkerRelease PROVE Counters'
  <2>1. /\ UNCHANGED <<pool, job, inFlight, pc>>
        /\ releasing' = releasing - 1 /\ jobLimiter' = jobLimiter - 1
    BY <1>5 DEF WorkerRelease, poolVars
  <2>2. Querying' = Querying /\ Outstanding' = Outstanding
    BY <2>1 DEF Querying, Results, Outstanding, JobsIn
  <2>3. InFlightExact'
    BY <2>1, <1>b DEF InFlightExact, HasQuery
  <2>4. SlotsHeldByWorkers' /\ jobLimiter' <= Cap
    BY <2>1, <2>2, <1>b, <1>c DEF SlotsHeldByWorkers
  <2> QED BY <2>1, <2>2, <2>3, <2>4, <1>b DEF Counters, RoomForLateResults
<1>6. ASSUME UNCHANGED <<job, inFlight, jobLimiter, releasing>>,
             pc' # "collect" /\ pool' = {} => pc # "collect" /\ pool = {}
      PROVE  Counters'
  <2>1. Querying' = Querying /\ Outstanding' = Outstanding
    BY <1>6 DEF Querying, Results, Outstanding, JobsIn
  <2>2. InFlightExact'
    BY <1>6, <1>b DEF InFlightExact, HasQuery
  <2> QED BY <2>1, <2>2, <1>b, <1>6 DEF Counters, SlotsHeldByWorkers, RoomForLateResults
<1>7. ASSUME \/ Snapshot \/ NoFreeSlot \/ EndPass \/ LeaveLoop \/ Wait
             \/ Refill \/ Tick \/ UNCHANGED vars
             \/ \E s \in Servers : SkipServer(s) \/ TakeToken(s)
      PROVE  Counters'
  <2>1. UNCHANGED <<pool, job, inFlight, jobLimiter, releasing>>
    BY <1>7 DEF Snapshot, NoFreeSlot, EndVisit, EndPass, LeaveLoop, EndIteration, Wait,
                Refill, Tick, vars, SkipServer, TakeToken, Visit, poolVars, workerVars
  <2>2. pc' # "collect" => pc # "collect"
    BY <1>7 DEF Snapshot, NoFreeSlot, EndVisit, EndPass, LeaveLoop, EndIteration, Wait,
                Refill, Tick, vars, SkipServer, TakeToken, Visit
  <2> QED BY <2>1, <2>2, <1>6
<1>8. ASSUME GrowPool PROVE Counters'
  <2>1. UNCHANGED <<job, inFlight, jobLimiter, releasing>> /\ pc' = "collect"
    BY <1>8 DEF GrowPool, EndIteration, workerVars
  <2> QED BY <2>1, <1>6
<1> QED
  BY <1>1, <1>2, <1>3, <1>4, <1>5, <1>7, <1>8
  DEF Next, SchedulerStep, Answer, Terminated

-----------------------------------------------------------------------------
(* The theorems.                                                           *)

\* The inductive invariant: BurstBounded alone is part of Shape, the other
\* safety properties follow from all three layers.
Inv == Shape /\ Placement /\ Counters

\* The invariant holds always.
LEMMA InvHolds == Spec => []Inv
<1>1. Init => Inv
  BY InitShape, InitPlacement, InitCounters DEF Inv
<1>2. Inv /\ [Next]_vars => Inv'
  BY NextShape, NextPlacement, NextCounters DEF Inv
<1> QED BY <1>1, <1>2, PTL DEF Spec

\* What Inv says of one server, in the terms of the properties.
LEMMA ServerFacts ==
  ASSUME Inv, NEW s \in Servers
  PROVE  /\ ContextInv(srv[s])
         /\ verdict[s] \in Verdicts
         /\ SettledChecks(srv[s]) \in SUBSET Checks
         /\ s \in pool <=> s <= dequeueIdx /\ verdict[s] = "none"
<1>1. ServerInv(s) /\ NoServerLost /\ Loose
  BY DEF Inv, Placement, Shape
<1>2. s \in pool <=> s <= dequeueIdx /\ verdict[s] = "none"
  BY <1>1, PoolAssumption DEF NoServerLost, Servers, Loose, PoolTypeOK
<1> QED BY <1>1, <1>2 DEF ServerInv, Loose, SettledChecks

\* Every variable keeps its type, and every counter its bounds: the failures
\* and completions of a server never exceed the template, the slots taken
\* and the workers releasing one never exceed the capacity of JobLimiter.
THEOREM TypeCorrect == Spec => []TypeOK
<1>1. Inv => TypeOK
  <2> SUFFICES ASSUME Inv PROVE TypeOK
    OBVIOUS
  <2>1. Loose /\ Control
    BY DEF Inv, Shape
  <2>2. srv \in [Servers -> Context]
    <3>1. \A s \in Servers : srv[s] \in Context
      BY ServerFacts, ContextBounded
    <3> QED BY <2>1, <3>1 DEF Loose
  <2>3. /\ jobLimiter = Cardinality(Querying) + releasing
        /\ jobLimiter <= Cap
        /\ Cardinality(Querying) \in Nat
        /\ Cap \in Nat
    BY CountedFinite, Capacities DEF Inv, Counters, SlotsHeldByWorkers
  <2>4. jobLimiter \in 0 .. Cap /\ releasing \in 0 .. Cap
    BY <2>1, <2>3 DEF Loose
  <2>5. inFlight \in [Servers -> 0 .. NumChecks]
    <3>1. \A s \in Servers : inFlight[s] \in 0 .. NumChecks
      BY CountedFinite DEF Inv, Counters, InFlightExact, Busy
    <3> QED BY <2>1, <3>1 DEF Loose
  <2> QED BY <2>1, <2>2, <2>4, <2>5 DEF TypeOK, Loose, Control
<1> QED BY <1>1, InvHolds, PTL

\* No server is lost between the list, the pool and the report.
THEOREM ServersAreKept == Spec => []NoServerLost
<1>1. Inv => NoServerLost
  BY DEF Inv, Placement
<1> QED BY <1>1, InvHolds, PTL

\* No check of a loaded server is lost or queued twice, whatever is retried.
THEOREM ChecksAreConserved == Spec => []ChecksConserved
<1>1. Inv => ChecksConserved
  <2> SUFFICES ASSUME Inv, NEW s \in pool
               PROVE  /\ NoRepeat(srv[s].pending)
                      /\ \A c \in Checks :
                           /\ Pending(s, c) \/ HasQuery(s, c) \/ Settled(srv[s], c)
                           /\ ~(Pending(s, c) /\ HasQuery(s, c))
                           /\ Settled(srv[s], c) => ~Pending(s, c) /\ ~HasQuery(s, c)
    BY DEF ChecksConserved
  <2>1. s \in Servers
    BY DEF Inv, Shape, Loose, PoolTypeOK
  <2>2. ContextInv(srv[s]) /\ Placed(srv[s], job[s])
    BY <2>1, ServerFacts DEF Inv, Placement, ServerInv
  <2> QED BY <2>2 DEF ContextInv, Placed, Pending, HasQuery, SettledChecks
<1> QED BY <1>1, InvHolds, PTL

\* FailedCount and CompletedCount are exact.
THEOREM CountersAreExact == Spec => []CountersAgreeWithAnswers
<1>1. Inv => CountersAgreeWithAnswers
  BY ServerFacts DEF CountersAgreeWithAnswers, ContextInv
<1> QED BY <1>1, InvHolds, PTL

\* The map inFlight counts the outstanding queries of every server.
THEOREM InFlightIsExact == Spec => []InFlightExact
<1>1. Inv => InFlightExact
  BY DEF Inv, Counters
<1> QED BY <1>1, InvHolds, PTL

\* waitGroup.Wait() cannot block on a worker whose result finds no room.
THEOREM LateResultsFit == Spec => []RoomForLateResults
<1>1. Inv => RoomForLateResults
  BY DEF Inv, Counters
<1> QED BY <1>1, InvHolds, PTL

\* Only a dropped server leaves queries behind.
THEOREM OrphansAreOfDropped == Spec => []OrphansOnlyOfDropped
<1>1. Inv => OrphansOnlyOfDropped
  <2> SUFFICES ASSUME Inv, NEW s \in Servers, NEW c \in Checks, HasQuery(s, c)
               PROVE  s \in pool \/ verdict[s] = "invalid"
    BY DEF OrphansOnlyOfDropped
  <2>1. ServerInv(s) /\ dequeueIdx \in Int /\ s \in Int
    BY PoolAssumption DEF Inv, Placement, Shape, Loose, PoolTypeOK, Servers
  <2>2. s <= dequeueIdx /\ verdict[s] # "valid"
    BY <2>1 DEF ServerInv, HasQuery
  <2> QED BY <2>2, ServerFacts DEF Verdicts
<1> QED BY <1>1, InvHolds, PTL

\* No verdict and no report rests on the answer of a cancelled query.
THEOREM CancelledAnswersNeverCount == Spec => []CancelledNeverCounts
<1>1. Inv => CancelledNeverCounts
  BY DEF Inv, Placement, ServerInv, CancelledNeverCounts
<1> QED BY <1>1, InvHolds, PTL

\* A verdict is the one the last answers of the server deserve.
THEOREM VerdictsAreSound == Spec => []VerdictSound
<1>1. Inv => VerdictSound
  <2> SUFFICES ASSUME Inv, NEW s \in Servers
               PROVE  /\ verdict[s] = "valid" =>
                           /\ SettledChecks(srv[s]) = Checks
                           /\ Cardinality(FailedChecks(srv[s])) < DropThreshold
                      /\ verdict[s] = "invalid" =>
                           Cardinality(FailedChecks(srv[s])) >= DropThreshold
    BY DEF VerdictSound
  <2>1. /\ srv[s].completed = Cardinality(SettledChecks(srv[s]))
        /\ srv[s].failed = Cardinality(FailedChecks(srv[s]))
        /\ SettledChecks(srv[s]) \in SUBSET Checks
    BY ServerFacts DEF ContextInv
  <2>2. ServerInv(s)
    BY DEF Inv, Placement
  <2> QED BY <2>1, <2>2, ChecksFinite DEF ServerInv
<1> QED BY <1>1, InvHolds, PTL

\* Between two refills no more tokens are taken than the bucket holds.
THEOREM BurstsAreBounded == Spec => []BurstBounded
<1>1. Inv => BurstBounded
  BY DEF Inv, Shape
<1> QED BY <1>1, InvHolds, PTL

\* With a threshold above the size of the template no server is dropped.
THEOREM TrustedNeverDropped == MaxFailures > NumChecks => (Spec => []NeverDropped)
<1> SUFFICES ASSUME MaxFailures > NumChecks PROVE Spec => []NeverDropped
  OBVIOUS
<1>1. Inv => NeverDropped
  <2> SUFFICES ASSUME Inv, NEW s \in Servers PROVE verdict[s] # "invalid"
    BY DEF NeverDropped
  <2>1. srv[s] \in Context
    BY ServerFacts, ContextBounded
  <2>2. srv[s].failed \in 0 .. NumChecks
    BY <2>1 DEF Context
  <2>3. ~(srv[s].failed >= DropThreshold)
    BY <2>2, ContextAssumption DEF DropThreshold
  <2>4. ServerInv(s)
    BY DEF Inv, Placement
  <2> QED BY <2>3, <2>4 DEF ServerInv
<1> QED BY <1>1, InvHolds, PTL

\* Late results change nothing of what was reported.
THEOREM ReportsAreFinal == Spec => ReportIsFinal
<1>1. ASSUME Inv, [Next]_vars, NEW s \in Servers, verdict[s] # "none"
      PROVE  verdict'[s] = verdict[s] /\ srv'[s] = srv[s]
  <2>1. s \notin pool
    BY <1>1, ServerFacts
  <2>2. Loose /\ Control
    BY <1>1 DEF Inv, Shape
  <2>3. ASSUME NEW t \in Servers, NEW c \in Checks, CollectResult(t, c)
        PROVE  verdict'[s] = verdict[s] /\ srv'[s] = srv[s]
    <3>1. t # s
      BY <2>1, <2>3 DEF CollectResult, Loaded
    <3> QED BY <2>2, <2>3, <3>1 DEF CollectResult, Loose
  <2>4. ASSUME NEW t \in Servers, LaunchQuery(t)
        PROVE  verdict'[s] = verdict[s] /\ srv'[s] = srv[s]
    <3>1. t # s
      BY <2>1, <2>2, <2>4 DEF LaunchQuery, Control
    <3> QED BY <2>2, <2>4, <3>1 DEF LaunchQuery, EndVisit, reportVars, Loose
  <2>5. ASSUME Snapshot PROVE verdict'[s] = verdict[s] /\ srv'[s] = srv[s]
    BY <2>1, <2>5 DEF Snapshot, reportVars
  <2>6. ASSUME \/ EndCollect \/ NoFreeSlot \/ EndPass \/ LeaveLoop \/ GrowPool \/ Wait
               \/ WorkerRelease \/ Refill \/ Tick \/ UNCHANGED vars
               \/ \E t \in Servers : SkipServer(t) \/ TakeToken(t)
               \/ \E t \in Servers, c \in Checks : DiscardResult(t, c) \/ Answer(t, c)
        PROVE  verdict'[s] = verdict[s] /\ srv'[s] = srv[s]
    BY <2>6 DEF EndCollect, NoFreeSlot, EndVisit, EndPass, LeaveLoop, GrowPool,
                EndIteration, Wait, WorkerRelease, Refill, Tick, vars, SkipServer,
                TakeToken, Visit, DiscardResult, Answer, WorkerSend, reportVars
  <2> QED BY <1>1, <2>3, <2>4, <2>5, <2>6 DEF Next, SchedulerStep, Terminated
<1>2. Inv /\ [Next]_vars =>
        [\A s \in Servers : verdict[s] # "none" =>
           verdict'[s] = verdict[s] /\ srv'[s] = srv[s]]_vars
  BY <1>1
<1> QED BY <1>2, InvHolds, PTL DEF Spec, ReportIsFinal

-----------------------------------------------------------------------------
(* What a step may do to the outcomes and to the report.                   *)

\* Whether a check is settled, and how, depends on its last answer and on the
\* attempts it has left alone.
SameAnswers(old, new) ==
  new.answer = old.answer /\ new.attemptsLeft = old.attemptsLeft

\* Contexts with the same answers have the same settled and failed checks.
LEMMA SameOutcomes ==
  ASSUME NEW old, NEW new, SameAnswers(old, new)
  PROVE  /\ SettledChecks(new) = SettledChecks(old)
         /\ FailedChecks(new) = FailedChecks(old)
         /\ \A c \in Checks : /\ Settled(new, c) <=> Settled(old, c)
                              /\ Outcome(new, c) = Outcome(old, c)
BY DEF SameAnswers, SettledChecks, FailedChecks, Settled, Outcome

\* A step that collects no result leaves the report and the outcomes alone:
\* the snapshot only moves the clock of a context, a launch only takes a
\* check from its queue.
LEMMA OtherStepsReportNothing ==
  ASSUME Inv, [Next]_vars,
         \A s \in Servers, c \in Checks : ~CollectResult(s, c)
  PROVE  /\ UNCHANGED <<status, verdict>>
         /\ \A s \in Servers : SameAnswers(srv[s], srv'[s])
<1>a. Loose /\ \A s \in Servers : srv[s] \in LooseContext
  BY DEF Inv, Shape, Loose
<1>1. ASSUME Snapshot
      PROVE  /\ UNCHANGED <<status, verdict>>
             /\ \A s \in Servers : SameAnswers(srv[s], srv'[s])
  <2>1. ASSUME NEW s \in Servers PROVE SameAnswers(srv[s], srv'[s])
    <3>1. srv'[s] \in {srv[s], [srv[s] EXCEPT !.nextQueryIn = Remaining(@, elapsed)]}
      BY <1>1 DEF Snapshot
    <3> QED BY <3>1, <1>a DEF SameAnswers, LooseContext
  <2> QED BY <1>1, <2>1 DEF Snapshot, reportVars
<1>2. ASSUME NEW t \in Servers, LaunchQuery(t)
      PROVE  /\ UNCHANGED <<status, verdict>>
             /\ \A s \in Servers : SameAnswers(srv[s], srv'[s])
  <2>1. ASSUME NEW s \in Servers PROVE SameAnswers(srv[s], srv'[s])
    <3>1. srv'[s] \in {srv[s], [srv[s] EXCEPT !.pending = Tail(@),
                                              !.nextQueryIn = QueryInterval]}
      BY <1>2, <1>a DEF LaunchQuery, Loose
    <3> QED BY <3>1, <1>a DEF SameAnswers, LooseContext
  <2> QED BY <1>2, <2>1 DEF LaunchQuery, EndVisit, reportVars
<1>3. ASSUME \/ EndCollect \/ NoFreeSlot \/ EndPass \/ LeaveLoop \/ GrowPool \/ Wait
             \/ WorkerRelease \/ Refill \/ Tick \/ UNCHANGED vars
             \/ \E t \in Servers : SkipServer(t) \/ TakeToken(t)
             \/ \E t \in Servers, c \in Checks : DiscardResult(t, c) \/ Answer(t, c)
      PROVE  /\ UNCHANGED <<status, verdict>>
             /\ \A s \in Servers : SameAnswers(srv[s], srv'[s])
  <2>1. UNCHANGED <<srv, status, verdict>>
    BY <1>3 DEF EndCollect, NoFreeSlot, EndVisit, EndPass, LeaveLoop, GrowPool,
                EndIteration, Wait, WorkerRelease, Refill, Tick, vars, SkipServer,
                TakeToken, Visit, DiscardResult, Answer, WorkerSend, reportVars
  <2> QED BY <2>1 DEF SameAnswers
<1> QED BY <1>1, <1>2, <1>3 DEF Next, SchedulerStep, Terminated

\* What a collected result changes: its check settles unless it is retried,
\* the server gets its verdict if that decides it, and no other server is
\* touched.
LEMMA CollectedOutcomes ==
  ASSUME Inv, NEW s \in Servers, NEW c \in Checks, CollectResult(s, c)
  PROVE  LET ctx   == srv[s]
             next  == srv'[s]
             a     == job[s][c]
             retry == WillRetry(ctx, c, a)
         IN  /\ ContextInv(ctx) /\ ContextInv(next)
             /\ c \notin SettledChecks(ctx)
             /\ SettledChecks(next) =
                  IF retry THEN SettledChecks(ctx) ELSE SettledChecks(ctx) \cup {c}
             /\ FailedChecks(next) =
                  IF retry \/ Matches(a) THEN FailedChecks(ctx)
                  ELSE FailedChecks(ctx) \cup {c}
             /\ verdict[s] = "none"
             /\ verdict'[s] = IF ~Finished(next) THEN "none"
                              ELSE IF next.disabled THEN "invalid" ELSE "valid"
             /\ retry => ~Finished(next) /\ ~next.disabled
             /\ ~Finished(next) => Undecided(next)
             /\ Finished(next) /\ next.disabled => next.failed >= DropThreshold
             /\ Finished(next) /\ ~next.disabled =>
                  next.completed = NumChecks /\ next.failed < DropThreshold
             /\ \A t \in Servers \ {s} : srv'[t] = srv[t] /\ verdict'[t] = verdict[t]
<1> DEFINE ctx   == srv[s]
           a     == job[s][c]
           next  == ApplyResults(ctx, c, a)
           retry == WillRetry(ctx, c, a)
<1>a. Shape /\ Placement /\ Loose
  BY DEF Inv, Shape
<1>1. srv'[s] = next /\ \A t \in Servers \ {s} : srv'[t] = srv[t]
  BY <1>a DEF CollectResult, Loose
<1>2. /\ verdict[s] = "none"
      /\ a \in Answers
      /\ ContextInv(next)
      /\ ~Finished(next) => Undecided(next)
      /\ Finished(next) /\ next.disabled => next.failed >= DropThreshold
      /\ Finished(next) /\ ~next.disabled =>
           next.completed = NumChecks /\ next.failed < DropThreshold
  BY <1>a, CollectedResult
<1>3. ServerInv(s)
  BY <1>a DEF Placement
<1>4. ContextInv(ctx) /\ Placed(ctx, job[s]) /\ Undecided(ctx)
  BY <1>2, <1>3 DEF ServerInv
<1>5. Awaited(ctx, c)
  BY <1>2, <1>4 DEF Placed, Awaited, Answers
<1>6. /\ SettledChecks(next) = IF retry THEN SettledChecks(ctx)
                               ELSE SettledChecks(ctx) \cup {c}
      /\ FailedChecks(next) = IF retry \/ Matches(a) THEN FailedChecks(ctx)
                              ELSE FailedChecks(ctx) \cup {c}
  BY <1>2, <1>4, <1>5, ApplyResultsInv
<1>7. retry => ~Finished(next) /\ ~next.disabled
  <2> SUFFICES ASSUME retry PROVE ~Finished(next) /\ ~next.disabled
    OBVIOUS
  <2>1. ~Matches(a)
    BY DEF WillRetry
  <2>2. next = [[ctx EXCEPT !.attemptsLeft[c] = @ - 1, !.answer[c] = a]
                  EXCEPT !.pending = <<c>> \o @]
    BY <2>1 DEF ApplyResults
  <2>3. ctx \in LooseContext
    BY <1>4 DEF ContextInv
  <2>4. next.disabled = ctx.disabled /\ next.completed = ctx.completed
    BY <2>2, <2>3 DEF LooseContext
  <2> QED BY <2>4, <1>4 DEF Undecided, Finished
<1>8. IF Finished(next) THEN verdict' = [verdict EXCEPT ![s] = VerdictOf(next)]
                        ELSE verdict' = verdict
  BY DEF CollectResult
<1> HIDE DEF next
<1>9. /\ verdict'[s] = IF ~Finished(next) THEN "none"
                       ELSE IF next.disabled THEN "invalid" ELSE "valid"
      /\ \A t \in Servers \ {s} : verdict'[t] = verdict[t]
  BY <1>a, <1>2, <1>8 DEF VerdictOf, Loose
<1>10. c \notin SettledChecks(ctx)
  BY <1>5 DEF Awaited
<1> QED BY <1>1, <1>2, <1>4, <1>6, <1>7, <1>9, <1>10

\* What a collected result adds to the counters of the status reporter.
LEMMA CollectedCounts ==
  ASSUME Inv, NEW s \in Servers, NEW c \in Checks, CollectResult(s, c)
  PROVE  LET next  == srv'[s]
             delta == TotalChecksDelta(srv[s], c, job[s][c])
         IN  /\ status'.doneChecks = status.doneChecks + 1
             /\ status'.totalChecks = status.totalChecks + delta
             /\ delta = IF WillRetry(srv[s], c, job[s][c]) THEN 1
                        ELSE IF next.disabled THEN next.completed - NumChecks
                        ELSE 0
             /\ status'.valid = IF Finished(next) /\ ~next.disabled
                                THEN status.valid + 1 ELSE status.valid
             /\ status'.invalid = IF Finished(next) /\ next.disabled
                                  THEN status.invalid + 1 ELSE status.invalid
             /\ status'.withFailures = IF Finished(next) /\ next.failed > 0
                                       THEN status.withFailures + 1
                                       ELSE status.withFailures
<1> DEFINE next    == ApplyResults(srv[s], c, job[s][c])
           delta   == TotalChecksDelta(srv[s], c, job[s][c])
           counted == AddDoneChecks(status, delta)
<1>a. Loose
  BY DEF Inv, Shape
<1>1. srv'[s] = next
  BY <1>a DEF CollectResult, Loose
<1>2. delta = IF WillRetry(srv[s], c, job[s][c]) THEN 1
              ELSE IF next.disabled THEN next.completed - NumChecks
              ELSE 0
  BY DEF TotalChecksDelta
<1>3. status' = IF Finished(next) THEN ReportFinishedServer(counted, next) ELSE counted
  BY DEF CollectResult
<1> HIDE DEF next, delta
<1>4. /\ counted.doneChecks = status.doneChecks + 1
      /\ counted.totalChecks = status.totalChecks + delta
      /\ counted.valid = status.valid /\ counted.invalid = status.invalid
      /\ counted.withFailures = status.withFailures
      /\ counted = [status EXCEPT !.doneChecks = status.doneChecks + 1,
                                  !.totalChecks = status.totalChecks + delta]
  BY <1>a DEF Loose, Status, AddDoneChecks
<1>5. /\ status.valid \in Nat /\ status.invalid \in Nat /\ status.withFailures \in Nat
  BY <1>a DEF Loose, Status
<1>6. CASE ~Finished(next)
  BY <1>1, <1>2, <1>3, <1>4, <1>6 DEF delta
<1>7. CASE Finished(next)
  <2> DEFINE w == Count(next.failed > 0)
             i == Count(next.disabled)
             v == Count(~next.disabled)
  <2>1. status' = [counted EXCEPT !.withFailures = @ + w, !.invalid = @ + i, !.valid = @ + v]
    BY <1>3, <1>7 DEF ReportFinishedServer
  <2>2. /\ w = IF next.failed > 0 THEN 1 ELSE 0
        /\ i = IF next.disabled THEN 1 ELSE 0
        /\ v = IF next.disabled THEN 0 ELSE 1
    BY Zenon DEF Count
  <2> HIDE DEF w, i, v
  <2>3. /\ status'.doneChecks = counted.doneChecks
        /\ status'.totalChecks = counted.totalChecks
        /\ status'.valid = counted.valid + v
        /\ status'.invalid = counted.invalid + i
        /\ status'.withFailures = counted.withFailures + w
    BY <2>1, <1>4, <1>a DEF Loose, Status
  <2>4. /\ status'.valid = IF next.disabled THEN status.valid ELSE status.valid + 1
        /\ status'.invalid = IF next.disabled THEN status.invalid + 1 ELSE status.invalid
        /\ status'.withFailures = IF next.failed > 0 THEN status.withFailures + 1
                                  ELSE status.withFailures
    BY <1>4, <1>5, <2>2, <2>3
  <2> QED BY <1>1, <1>2, <1>4, <1>7, <2>3, <2>4 DEF delta
<1> QED BY <1>6, <1>7

-----------------------------------------------------------------------------
(* Every server is counted once.                                           *)

ReportedAs(v) == {s \in Servers : verdict[s] = v}

ReportedWithFailures ==
  {s \in Servers : verdict[s] # "none" /\ FailedChecks(srv[s]) # {}}

\* Adding one server to a set of servers adds one to its size.
LEMMA OneMoreServer ==
  ASSUME NEW S \in SUBSET Servers, NEW s \in Servers, s \notin S
  PROVE  Cardinality(S \cup {s}) = Cardinality(S) + 1
BY ServersFinite, FS_AddElement

\* A server is added to the counters in the step that gives it its verdict,
\* and once.
LEMMA NextReportedOnce == Inv /\ ReportedOnce /\ [Next]_vars => ReportedOnce'
<1> SUFFICES ASSUME Inv, ReportedOnce, [Next]_vars PROVE ReportedOnce'
  OBVIOUS
<1>a. /\ status.valid = Cardinality(ReportedAs("valid"))
      /\ status.invalid = Cardinality(ReportedAs("invalid"))
      /\ status.withFailures = Cardinality(ReportedWithFailures)
  BY DEF ReportedOnce, ReportedAs, ReportedWithFailures
<1>1. ASSUME NEW s \in Servers, NEW c \in Checks, CollectResult(s, c)
      PROVE  ReportedOnce'
  <2> DEFINE next == srv'[s]
  <2>1. /\ ContextInv(next)
        /\ verdict[s] = "none"
        /\ verdict'[s] = IF ~Finished(next) THEN "none"
                         ELSE IF next.disabled THEN "invalid" ELSE "valid"
        /\ \A t \in Servers \ {s} : srv'[t] = srv[t] /\ verdict'[t] = verdict[t]
    BY <1>1, CollectedOutcomes
  <2>2. /\ status'.valid = IF Finished(next) /\ ~next.disabled
                           THEN status.valid + 1 ELSE status.valid
        /\ status'.invalid = IF Finished(next) /\ next.disabled
                             THEN status.invalid + 1 ELSE status.invalid
        /\ status'.withFailures = IF Finished(next) /\ next.failed > 0
                                  THEN status.withFailures + 1 ELSE status.withFailures
    BY <1>1, CollectedCounts
  <2>3. next.failed > 0 <=> FailedChecks(next) # {}
    <3>1. /\ next.failed = Cardinality(FailedChecks(next))
          /\ IsFiniteSet(FailedChecks(next))
      BY <2>1, ChecksFinite DEF ContextInv, FailedChecks, SettledChecks
    <3>2. Cardinality(FailedChecks(next)) \in Nat
          /\ (Cardinality(FailedChecks(next)) = 0 <=> FailedChecks(next) = {})
      BY <3>1, FS_CardinalityType, FS_EmptySet
    <3> QED BY <3>1, <3>2
  <2>4. /\ s \notin ReportedAs("valid") /\ s \notin ReportedAs("invalid")
        /\ s \notin ReportedWithFailures
    BY <2>1 DEF ReportedAs, ReportedWithFailures
  <2>5. /\ ReportedAs("valid")' = IF Finished(next) /\ ~next.disabled
                                  THEN ReportedAs("valid") \cup {s}
                                  ELSE ReportedAs("valid")
        /\ ReportedAs("invalid")' = IF Finished(next) /\ next.disabled
                                    THEN ReportedAs("invalid") \cup {s}
                                    ELSE ReportedAs("invalid")
    BY <2>1 DEF ReportedAs
  <2>6. ReportedWithFailures' = IF Finished(next) /\ next.failed > 0
                                THEN ReportedWithFailures \cup {s}
                                ELSE ReportedWithFailures
    BY <2>1, <2>3 DEF ReportedWithFailures
  <2>7. /\ Cardinality(ReportedAs("valid") \cup {s}) = status.valid + 1
        /\ Cardinality(ReportedAs("invalid") \cup {s}) = status.invalid + 1
        /\ Cardinality(ReportedWithFailures \cup {s}) = status.withFailures + 1
    BY <1>a, <2>4, OneMoreServer DEF ReportedAs, ReportedWithFailures
  <2> HIDE DEF next
  <2>8. /\ status'.valid = Cardinality(ReportedAs("valid")')
        /\ status'.invalid = Cardinality(ReportedAs("invalid")')
        /\ status'.withFailures = Cardinality(ReportedWithFailures')
    BY <1>a, <2>2, <2>5, <2>6, <2>7
  <2> QED BY <2>8 DEF ReportedOnce, ReportedAs, ReportedWithFailures
<1>2. ASSUME \A s \in Servers, c \in Checks : ~CollectResult(s, c)
      PROVE  ReportedOnce'
  <2>1. /\ UNCHANGED <<status, verdict>>
        /\ \A s \in Servers : FailedChecks(srv'[s]) = FailedChecks(srv[s])
    BY <1>2, OtherStepsReportNothing, SameOutcomes
  <2>2. /\ ReportedAs("valid")' = ReportedAs("valid")
        /\ ReportedAs("invalid")' = ReportedAs("invalid")
        /\ ReportedWithFailures' = ReportedWithFailures
    BY <2>1 DEF ReportedAs, ReportedWithFailures
  <2>3. /\ status'.valid = Cardinality(ReportedAs("valid")')
        /\ status'.invalid = Cardinality(ReportedAs("invalid")')
        /\ status'.withFailures = Cardinality(ReportedWithFailures')
    BY <1>a, <2>1, <2>2
  <2> QED BY <2>3 DEF ReportedOnce, ReportedAs, ReportedWithFailures
<1> QED BY <1>1, <1>2

\* ValidServers, InvalidServers and ServersWithFailures count each server
\* exactly once, with the verdict it got.
THEOREM ServersAreCountedOnce == Spec => []ReportedOnce
<1>1. Init => ReportedOnce
  <2> SUFFICES ASSUME Init PROVE ReportedOnce
    OBVIOUS
  <2>1. ReportedAs("valid") = {} /\ ReportedAs("invalid") = {} /\ ReportedWithFailures = {}
    BY DEF Init, ReportedAs, ReportedWithFailures
  <2>2. status.valid = 0 /\ status.invalid = 0 /\ status.withFailures = 0
    BY DEF Init
  <2> QED BY <2>1, <2>2, FS_EmptySet DEF ReportedOnce, ReportedAs, ReportedWithFailures
<1> QED BY <1>1, NextReportedOnce, InvHolds, PTL DEF Spec

-----------------------------------------------------------------------------
(* The progress figures.                                                   *)

\* The checks that are still to be settled.
Open == {p \in Pairs : verdict[p[1]] = "none" /\ ~Settled(srv[p[1]], p[2])}

Unsettled(s) == Checks \ SettledChecks(srv[s])

\* The checks of one server form as many pairs.
LEMMA PairsOfServer ==
  ASSUME NEW s \in Servers, NEW C \in SUBSET Checks
  PROVE  /\ {s} \X C \in SUBSET Pairs
         /\ Cardinality({s} \X C) = Cardinality(C)
<1>1. IsFiniteSet({s}) /\ Cardinality({s}) = 1
  BY FS_Singleton
<1>2. IsFiniteSet(C) /\ Cardinality(C) \in Nat
  BY ChecksFinite, FS_CardinalityType
<1>3. Cardinality({s} \X C) = Cardinality({s}) * Cardinality(C)
  BY <1>1, <1>2, FS_Product
<1> QED BY <1>1, <1>2, <1>3 DEF Pairs

\* Taking a subset from a set of pairs takes its size from the size.
LEMMA FewerPairs ==
  ASSUME NEW S \in SUBSET Pairs, NEW T \in SUBSET S
  PROVE  Cardinality(S \ T) = Cardinality(S) - Cardinality(T)
<1>1. IsFiniteSet(S) /\ IsFiniteSet(T) /\ Cardinality(S) \in Nat /\ Cardinality(T) \in Nat
  BY ServersFinite
<1>2. Cardinality(S \ T) = Cardinality(S) - Cardinality(S \cap T)
  BY <1>1, FS_Difference
<1>3. S \cap T = T
  OBVIOUS
<1> QED BY <1>2, <1>3

\* As long as a server has no verdict, its unsettled checks are those that it
\* has not completed.
LEMMA UnsettledCount ==
  ASSUME NEW s \in Servers, ContextInv(srv[s])
  PROVE  /\ Unsettled(s) \in SUBSET Checks
         /\ Cardinality(Unsettled(s)) = NumChecks - srv[s].completed
<1> DEFINE S == SettledChecks(srv[s])
<1>1. S \in SUBSET Checks
  BY DEF SettledChecks
<1>2. /\ IsFiniteSet(Checks) /\ Cardinality(Checks) = NumChecks
      /\ IsFiniteSet(S) /\ Checks \cap S = S
  BY <1>1, ChecksFinite
<1>3. Cardinality(Checks \ S) = NumChecks - Cardinality(S)
  BY <1>2, FS_Difference, ZenonT(40)
<1> QED BY <1>3 DEF Unsettled, ContextInv

\* Each result moves the figures by what it settles, plans or cancels.
LEMMA NextProgressExact == Inv /\ ProgressExact /\ [Next]_vars => ProgressExact'
<1> SUFFICES ASSUME Inv, ProgressExact, [Next]_vars PROVE ProgressExact'
  OBVIOUS
<1>a. /\ status.totalChecks - status.doneChecks = Cardinality(Open)
      /\ Open \in SUBSET Pairs
      /\ Cardinality(Open) \in Nat
      /\ status.totalChecks \in Int /\ status.doneChecks \in Nat
  BY ServersFinite DEF ProgressExact, Open, Inv, Shape, Loose, Status
<1>1. ASSUME NEW s \in Servers, NEW c \in Checks, CollectResult(s, c)
      PROVE  ProgressExact'
  <2> DEFINE next  == srv'[s]
             retry == WillRetry(srv[s], c, job[s][c])
             delta == TotalChecksDelta(srv[s], c, job[s][c])
  <2>1. /\ ContextInv(srv[s]) /\ ContextInv(next)
        /\ c \notin SettledChecks(srv[s])
        /\ SettledChecks(next) = IF retry THEN SettledChecks(srv[s])
                                 ELSE SettledChecks(srv[s]) \cup {c}
        /\ verdict[s] = "none"
        /\ verdict'[s] = IF ~Finished(next) THEN "none"
                         ELSE IF next.disabled THEN "invalid" ELSE "valid"
        /\ retry => ~Finished(next) /\ ~next.disabled
        /\ Finished(next) /\ ~next.disabled => next.completed = NumChecks
        /\ \A t \in Servers \ {s} : srv'[t] = srv[t] /\ verdict'[t] = verdict[t]
    BY <1>1, CollectedOutcomes
  <2>2. /\ status'.doneChecks = status.doneChecks + 1
        /\ status'.totalChecks = status.totalChecks + delta
        /\ delta = IF retry THEN 1
                   ELSE IF next.disabled THEN next.completed - NumChecks
                   ELSE 0
    BY <1>1, CollectedCounts
  <2>3. /\ SettledChecks(srv[s]) \in SUBSET Checks
        /\ Unsettled(s) \in SUBSET Checks
        /\ Cardinality(Unsettled(s)) = NumChecks - srv[s].completed
        /\ srv[s].completed \in Int
    BY <2>1, UnsettledCount DEF SettledChecks, ContextInv, LooseContext
  <2>4. ASSUME NEW t \in Servers, NEW d \in Checks
        PROVE  /\ t # s => (<<t, d>> \in Open' <=> <<t, d>> \in Open)
               /\ <<s, d>> \in Open <=> d \notin SettledChecks(srv[s])
               /\ <<s, d>> \in Open' <=> ~Finished(next) /\ d \notin SettledChecks(next)
    BY <2>1 DEF Open, Pairs, SettledChecks
  <2>5. ASSUME NEW T \in SUBSET Checks, T \subseteq Unsettled(s),
               \A d \in Checks : <<s, d>> \in Open' <=> d \in Unsettled(s) \ T
        PROVE  Cardinality(Open') = Cardinality(Open) - Cardinality(T)
    <3> DEFINE gone == {s} \X T
    <3>1. gone \in SUBSET Open /\ Cardinality(gone) = Cardinality(T)
      BY <2>4, <2>5, PairsOfServer DEF Unsettled
    <3>2. Open' = Open \ gone
      <4>1. Open \subseteq Pairs /\ Open' \subseteq Pairs
        BY DEF Open
      <4>2. ASSUME NEW p \in Pairs PROVE p \in Open' <=> p \in Open \ gone
        <5>1. PICK t \in Servers, d \in Checks : p = <<t, d>>
          BY DEF Pairs
        <5>2. CASE t = s
          BY <5>1, <5>2, <2>4, <2>5 DEF Unsettled
        <5>3. CASE t # s
          BY <5>1, <5>3, <2>4
        <5> QED BY <5>2, <5>3
      <4> QED BY <4>1, <4>2
    <3> HIDE DEF gone
    <3> QED BY <3>1, <3>2, <1>a, FewerPairs
  <2>6. CASE retry
    <3>1. Cardinality(Open') = Cardinality(Open) - Cardinality({})
      BY <2>1, <2>4, <2>5, <2>6 DEF Unsettled
    <3> QED BY <3>1, <2>2, <2>6, <1>a, FS_EmptySet DEF ProgressExact, Open
  <2>7. CASE ~retry /\ ~next.disabled
    <3>1. c \in Unsettled(s) /\ Cardinality({c}) = 1
      BY <2>1, FS_Singleton DEF Unsettled
    <3>2. ~Finished(next) \/ SettledChecks(next) = Checks
      BY <2>1, <2>7, ChecksFinite DEF ContextInv, SettledChecks
    <3>3. Cardinality(Open') = Cardinality(Open) - Cardinality({c})
      BY <3>1, <3>2, <2>1, <2>4, <2>5, <2>7 DEF Unsettled
    <3> QED BY <3>1, <3>3, <2>2, <2>7, <1>a DEF ProgressExact, Open
  <2>8. CASE ~retry /\ next.disabled
    <3>1. Finished(next)
      BY <2>8 DEF Finished
    <3>2. Cardinality(Open') = Cardinality(Open) - Cardinality(Unsettled(s))
      BY <3>1, <2>3, <2>4, <2>5
    <3>3. next.completed = srv[s].completed + 1
      <4>1. /\ next.completed = Cardinality(SettledChecks(srv[s]) \cup {c})
            /\ srv[s].completed = Cardinality(SettledChecks(srv[s]))
            /\ IsFiniteSet(SettledChecks(srv[s]))
        BY <2>1, <2>3, <2>8, ChecksFinite DEF ContextInv
      <4> QED BY <4>1, <2>1, FS_AddElement
    <3>4. status'.totalChecks - status'.doneChecks = Cardinality(Open')
      BY <3>2, <3>3, <2>2, <2>3, <2>8, <1>a, ContextAssumption
    <3> QED BY <3>4 DEF ProgressExact, Open
  <2> QED BY <2>6, <2>7, <2>8
<1>2. ASSUME \A s \in Servers, c \in Checks : ~CollectResult(s, c)
      PROVE  ProgressExact'
  <2>1. /\ UNCHANGED <<status, verdict>>
        /\ \A s \in Servers, c \in Checks : Settled(srv'[s], c) <=> Settled(srv[s], c)
    BY <1>2, OtherStepsReportNothing, SameOutcomes
  <2>2. Open' = Open
    BY <2>1 DEF Open, Pairs
  <2>3. status'.totalChecks - status'.doneChecks = Cardinality(Open')
    BY <1>a, <2>1, <2>2
  <2> QED BY <2>3 DEF ProgressExact, Open
<1> QED BY <1>1, <1>2

\* At first everything is open.
LEMMA InitProgressExact == Init => ProgressExact
<1> SUFFICES ASSUME Init PROVE ProgressExact
  OBVIOUS
<1>1. Open = Pairs
  BY DEF Init, Open, Pairs, Settled, NewServerContext
<1>2. Cardinality(Pairs) = NumServers * NumChecks
  BY ServersFinite, ChecksFinite, FS_Product DEF Pairs
<1>3. NumServers * NumChecks \in Nat
  BY PoolAssumption, ContextAssumption
<1>4. status.totalChecks = NumServers * NumChecks /\ status.doneChecks = 0
  BY DEF Init
<1> QED BY <1>1, <1>2, <1>3, <1>4 DEF ProgressExact, Open

\* The planned checks exceed the done ones by exactly what is still open, so
\* the bar reaches 100% with the last verdict and not before.
THEOREM ProgressIsExact == Spec => []ProgressExact
BY InitProgressExact, NextProgressExact, InvHolds, PTL DEF Spec

\* A fraction d / t of at most 1 does not shrink when its numerator grows by
\* one and its denominator by at most one.
LEMMA FractionGrows ==
  ASSUME NEW d \in Nat, NEW t \in Int, NEW u \in Int, d <= t, u <= t + 1
  PROVE  (d + 1) * t >= d * u
<1>1. d * u <= d * (t + 1)
  OBVIOUS
<1>2. d * (t + 1) = d * t + d /\ (d + 1) * t = d * t + t
  OBVIOUS
<1>3. d * u \in Int /\ d * t \in Int
  OBVIOUS
<1> QED BY <1>1, <1>2, <1>3

\* The displayed fraction never goes down.
THEOREM ProgressIsMonotone == Spec => ProgressNeverRegresses
<1>1. Inv /\ ProgressExact /\ [Next]_vars =>
        [status'.doneChecks * status.totalChecks >=
           status.doneChecks * status'.totalChecks]_vars
  <2> SUFFICES ASSUME Inv, ProgressExact, [Next]_vars
               PROVE  status'.doneChecks * status.totalChecks >=
                        status.doneChecks * status'.totalChecks
    OBVIOUS
  <2>1. /\ status.doneChecks \in Nat /\ status.totalChecks \in Int
        /\ status'.totalChecks \in Int
    BY NextShape DEF Inv, Shape, Loose, Status
  <2>2. status.doneChecks <= status.totalChecks
    <3>1. Cardinality(Open) \in Nat /\ status.totalChecks - status.doneChecks = Cardinality(Open)
      BY ServersFinite DEF ProgressExact, Open
    <3> QED BY <3>1, <2>1
  <2>3. ASSUME NEW s \in Servers, NEW c \in Checks, CollectResult(s, c)
        PROVE  /\ status'.doneChecks = status.doneChecks + 1
               /\ status'.totalChecks <= status.totalChecks + 1
    <3> DEFINE delta == TotalChecksDelta(srv[s], c, job[s][c])
    <3>1. /\ status'.doneChecks = status.doneChecks + 1
          /\ status'.totalChecks = status.totalChecks + delta
          /\ delta \in {0, 1, srv'[s].completed - NumChecks}
      BY <2>3, CollectedCounts
    <3>2. srv'[s].completed \in 0 .. NumChecks
      <4>1. ContextInv(srv'[s])
        BY <2>3, CollectedOutcomes
      <4>2. srv'[s] \in Context
        BY <4>1, ContextBounded
      <4> QED BY <4>2 DEF Context
    <3>3. delta \in Int /\ delta <= 1
      BY <3>1, <3>2, ContextAssumption
    <3> HIDE DEF delta
    <3> QED BY <3>1, <3>3, <2>1
  <2>4. CASE \E s \in Servers, c \in Checks : CollectResult(s, c)
    BY <2>1, <2>2, <2>3, <2>4, FractionGrows
  <2>5. CASE \A s \in Servers, c \in Checks : ~CollectResult(s, c)
    <3>1. status' = status
      BY <2>5, OtherStepsReportNothing
    <3>2. status.doneChecks * status.totalChecks \in Int
      BY <2>1
    <3> QED BY <3>1, <3>2
  <2> QED BY <2>4, <2>5
<1> QED BY <1>1, InvHolds, ProgressIsExact, PTL DEF Spec, ProgressNeverRegresses

-----------------------------------------------------------------------------
(* The BUSY pass.                                                          *)

\* The locals poolCanGrow and pass still say the truth while queries are
\* dispatched, and a token claimed in the IDLE pass is for an idle server.
DispatchInv ==
  /\ pc \in {"dispatch", "slot"} => /\ CanGrow => poolCanGrow
                                    /\ pass = 1 => ~poolCanGrow
  /\ pc = "slot" => (inFlight[claimant] = 0 <=> pass = 0)

\* Every step keeps the facts about the passes of an iteration.
LEMMA NextDispatchInv == Inv /\ DispatchInv /\ [Next]_vars => DispatchInv'
<1> SUFFICES ASSUME Inv, DispatchInv, [Next]_vars PROVE DispatchInv'
  OBVIOUS
<1>1. ASSUME Snapshot PROVE DispatchInv'
  <2>1. /\ poolCanGrow' = CanGrow
        /\ pass' = 0
        /\ UNCHANGED <<pool, dequeueIdx>>
        /\ pc' # "slot"
    BY <1>1 DEF Snapshot, poolVars
  <2>2. CanGrow' <=> CanGrow
    BY <2>1 DEF CanGrow, IsFull, PoolLen, NumPending
  <2> QED BY <2>1, <2>2 DEF DispatchInv
<1>2. ASSUME NEW s \in Servers, TakeToken(s) PROVE DispatchInv'
  <2>1. /\ UNCHANGED <<pool, dequeueIdx, poolCanGrow, pass, inFlight>>
        /\ pc = "dispatch" /\ claimant' = s
        /\ inFlight[s] = 0 <=> pass = 0
    BY <1>2 DEF TakeToken, Visit, MayQuery, Idle, poolVars
  <2>2. CanGrow' <=> CanGrow
    BY <2>1 DEF CanGrow, IsFull, PoolLen, NumPending
  <2> QED BY <2>1, <2>2 DEF DispatchInv
<1>3. ASSUME EndPass PROVE DispatchInv'
  <2>1. /\ UNCHANGED <<pool, dequeueIdx, poolCanGrow>>
        /\ pc = "dispatch" /\ pc' # "slot"
        /\ pass' = 1 => ~poolCanGrow
    BY <1>3 DEF EndPass, BusyPassFollows, poolVars
  <2>2. CanGrow' <=> CanGrow
    BY <2>1 DEF CanGrow, IsFull, PoolLen, NumPending
  <2> QED BY <2>1, <2>2 DEF DispatchInv
<1>4. ASSUME (\E s \in Servers : SkipServer(s) \/ LaunchQuery(s)) \/ NoFreeSlot
      PROVE  DispatchInv'
  <2>1. /\ UNCHANGED <<pool, dequeueIdx, poolCanGrow, pass>>
        /\ pc \in {"dispatch", "slot"} /\ pc' = "dispatch"
    BY <1>4 DEF SkipServer, Visit, LaunchQuery, NoFreeSlot, EndVisit, poolVars
  <2>2. CanGrow' <=> CanGrow
    BY <2>1 DEF CanGrow, IsFull, PoolLen, NumPending
  <2> QED BY <2>1, <2>2 DEF DispatchInv
<1>5. ASSUME \/ EndCollect \/ LeaveLoop \/ GrowPool \/ Wait
             \/ \E s \in Servers, c \in Checks : CollectResult(s, c) \/ DiscardResult(s, c)
      PROVE  DispatchInv'
  <2>1. CASE EndCollect \/ LeaveLoop \/ GrowPool \/ Wait
    BY <2>1 DEF EndCollect, LeaveLoop, GrowPool, Wait, DispatchInv
  <2>2. CASE \E s \in Servers, c \in Checks : CollectResult(s, c) \/ DiscardResult(s, c)
    BY <2>2 DEF CollectResult, DiscardResult, DispatchInv
  <2> QED BY <1>5, <2>1, <2>2
<1>6. ASSUME \/ WorkerRelease \/ Refill \/ Tick \/ UNCHANGED vars
             \/ \E s \in Servers, c \in Checks : Answer(s, c)
      PROVE  DispatchInv'
  <2>1. UNCHANGED <<pool, dequeueIdx, poolCanGrow, pass, pc, claimant, inFlight>>
    BY <1>6 DEF WorkerRelease, Refill, Tick, vars, Answer, WorkerSend, poolVars,
                iterationVars
  <2>2. CanGrow' <=> CanGrow
    BY <2>1 DEF CanGrow, IsFull, PoolLen, NumPending
  <2> QED BY <2>1, <2>2 DEF DispatchInv
<1> QED
  BY <1>1, <1>2, <1>3, <1>4, <1>5, <1>6 DEF Next, SchedulerStep, Terminated

\* A busy server gets a further query only while no server can be loaded.
THEOREM BusyServersComeLast == Spec => BusyOnlyWhenPoolCannotGrow
<1>1. Init => DispatchInv
  BY DEF Init, DispatchInv
<1>2. ASSUME Inv, DispatchInv, [Next]_vars, NEW s \in Servers,
             inFlight[s] > 0, inFlight'[s] > inFlight[s]
      PROVE  ~CanGrow
  <2>1. inFlight \in [Servers -> Nat]
    BY <1>2 DEF Inv, Shape, Loose
  <2>2. ASSUME NEW t \in Servers, LaunchQuery(t) PROVE ~CanGrow
    <3>1. pc = "slot" /\ t = claimant /\ inFlight' = [inFlight EXCEPT ![t] = @ + 1]
      BY <2>2 DEF LaunchQuery
    <3>2. t = s
      BY <1>2, <2>1, <3>1
    <3>3. pass = 1
      BY <1>2, <3>1, <3>2 DEF DispatchInv, Inv, Shape, Loose
    <3> QED BY <1>2, <3>1, <3>3 DEF DispatchInv
  <2>3. ASSUME NEW t \in Servers, NEW c \in Checks,
               CollectResult(t, c) \/ DiscardResult(t, c)
        PROVE  FALSE
    <3>1. inFlight' = [inFlight EXCEPT ![t] = Landed(@)]
      BY <2>3 DEF CollectResult, DiscardResult
    <3>2. inFlight'[s] = IF s = t THEN Landed(inFlight[s]) ELSE inFlight[s]
      BY <2>1, <3>1
    <3>3. inFlight[s] \in Nat /\ Landed(inFlight[s]) \in 0 .. inFlight[s]
      BY <2>1 DEF Landed
    <3> QED BY <1>2, <3>2, <3>3
  <2>4. ASSUME \/ EndCollect \/ Snapshot \/ NoFreeSlot \/ EndPass \/ LeaveLoop \/ GrowPool
               \/ Wait \/ WorkerRelease \/ Refill \/ Tick \/ UNCHANGED vars
               \/ \E t \in Servers : SkipServer(t) \/ TakeToken(t)
               \/ \E t \in Servers, c \in Checks : Answer(t, c)
        PROVE  FALSE
    <3>1. inFlight' = inFlight
      BY <2>4 DEF EndCollect, Snapshot, NoFreeSlot, EndVisit, EndPass, LeaveLoop,
                  GrowPool, EndIteration, Wait, WorkerRelease, Refill, Tick, vars,
                  SkipServer, TakeToken, Visit, Answer, WorkerSend
    <3> QED BY <1>2, <2>1, <3>1
  <2> QED BY <1>2, <2>2, <2>3, <2>4 DEF Next, SchedulerStep, Terminated
<1>3. Inv /\ DispatchInv /\ [Next]_vars =>
        [\A s \in Servers :
           inFlight[s] > 0 /\ inFlight'[s] > inFlight[s] => ~CanGrow]_vars
  BY <1>2
<1> QED
  BY <1>1, <1>3, NextDispatchInv, InvHolds, PTL DEF Spec, BusyOnlyWhenPoolCannotGrow

-----------------------------------------------------------------------------
(* The scheduler implements module Verdicts.                               *)

\* The outcomes that the refinement mapping shows to the abstract module.
Outcomes == [s \in Servers |-> [c \in Checks |-> Outcome(srv[s], c)]]

\* The abstract module counts with the same operator.
LEMMA SameCardinality == ASSUME NEW S PROVE Promise!Cardinality(S) = Cardinality(S)
BY DEF Promise!Cardinality, Cardinality

\* Judge on the mapped outcomes, in terms of the two sets of the context.
LEMMA JudgedBySets ==
  ASSUME NEW ctx, ContextInv(ctx)
  PROVE  LET row == [c \in Checks |-> Outcome(ctx, c)]
         IN  Promise!Judge(row) = IF ctx.failed >= DropThreshold THEN "invalid"
                                  ELSE IF ctx.completed = NumChecks THEN "valid"
                                  ELSE "none"
<1> DEFINE row == [c \in Checks |-> Outcome(ctx, c)]
<1>1. Promise!With(row, "failed") = FailedChecks(ctx)
  BY DEF Promise!With, Outcome, FailedChecks, SettledChecks
<1>2. Promise!With(row, "open") = Checks \ SettledChecks(ctx)
  BY DEF Promise!With, Outcome, SettledChecks
<1>3. /\ ctx.failed = Cardinality(FailedChecks(ctx))
      /\ ctx.completed = Cardinality(SettledChecks(ctx))
      /\ SettledChecks(ctx) \in SUBSET Checks
      /\ FailedChecks(ctx) \in SUBSET Checks
  BY DEF ContextInv, SettledChecks, FailedChecks
<1>4. ctx.failed \in Nat /\ (ctx.completed = NumChecks <=> SettledChecks(ctx) = Checks)
  BY <1>3, ChecksFinite
<1>5. ctx.failed > 0 /\ ctx.failed >= MaxFailures <=> ctx.failed >= DropThreshold
  BY <1>4, ContextAssumption DEF DropThreshold
<1>6. Promise!With(row, "open") = {} <=> ctx.completed = NumChecks
  BY <1>2, <1>3, <1>4
<1> HIDE DEF row
<1> QED BY <1>1, <1>3, <1>5, <1>6, SameCardinality DEF Promise!Judge, row

\* Init implies the initial predicate of module Verdicts.
LEMMA InitPromise == Init => Promise!Init
BY DEF Init, Promise!Init, Outcome, Settled, NewServerContext

\* A collected result settles one check, with the verdict it deserves, or is
\* retried and invisible to module Verdicts.
LEMMA CollectKeepsPromise ==
  ASSUME Inv, NEW s \in Servers, NEW c \in Checks, CollectResult(s, c)
  PROVE  Promise!Next \/ UNCHANGED Promise!vars
<1> DEFINE next  == srv'[s]
           a     == job[s][c]
           retry == WillRetry(srv[s], c, a)
           r     == IF Matches(a) THEN "passed" ELSE "failed"
<1>1. /\ ContextInv(srv[s]) /\ ContextInv(next)
      /\ c \notin SettledChecks(srv[s])
      /\ SettledChecks(next) = IF retry THEN SettledChecks(srv[s])
                               ELSE SettledChecks(srv[s]) \cup {c}
      /\ FailedChecks(next) = IF retry \/ Matches(a) THEN FailedChecks(srv[s])
                              ELSE FailedChecks(srv[s]) \cup {c}
      /\ verdict[s] = "none"
      /\ verdict'[s] = IF ~Finished(next) THEN "none"
                       ELSE IF next.disabled THEN "invalid" ELSE "valid"
      /\ retry => ~Finished(next)
      /\ ~Finished(next) => Undecided(next)
      /\ Finished(next) /\ next.disabled => next.failed >= DropThreshold
      /\ Finished(next) /\ ~next.disabled =>
           next.completed = NumChecks /\ next.failed < DropThreshold
      /\ \A t \in Servers \ {s} : srv'[t] = srv[t] /\ verdict'[t] = verdict[t]
  BY CollectedOutcomes
<1>2. verdict \in [Servers -> Verdicts] /\ verdict' \in [Servers -> Verdicts]
  BY DEF CollectResult, VerdictOf, Verdicts, Inv, Shape, Loose
<1> HIDE DEF next, a, retry
\* An outcome reads off the sets of settled and of failed checks.
<1>3. ASSUME NEW ctx, NEW d \in Checks
      PROVE  Outcome(ctx, d) = IF d \notin SettledChecks(ctx) THEN "open"
                               ELSE IF d \in FailedChecks(ctx) THEN "failed" ELSE "passed"
  BY DEF Outcome, SettledChecks, FailedChecks
<1>4. FailedChecks(srv[s]) \subseteq SettledChecks(srv[s])
  BY DEF FailedChecks
<1>5. /\ Outcome(srv[s], c) = "open"
      /\ Outcome(next, c) = IF retry THEN "open" ELSE r
      /\ \A d \in Checks \ {c} : Outcome(next, d) = Outcome(srv[s], d)
  BY <1>1, <1>3, <1>4
<1>6. Outcomes' = [Outcomes EXCEPT ![s] = [d \in Checks |-> Outcome(next, d)]]
  BY <1>1 DEF Outcomes, next
<1>7. [d \in Checks |-> Outcome(next, d)] =
        [Outcomes[s] EXCEPT ![c] = IF retry THEN "open" ELSE r]
  BY <1>5 DEF Outcomes
<1>8. verdict' = [verdict EXCEPT ![s] = Promise!Judge(Outcomes'[s])]
  <2>1. Outcomes'[s] = [d \in Checks |-> Outcome(next, d)]
    BY <1>6 DEF Outcomes
  <2>2. Promise!Judge(Outcomes'[s]) = IF next.failed >= DropThreshold THEN "invalid"
                                      ELSE IF next.completed = NumChecks THEN "valid"
                                      ELSE "none"
    BY <1>1, <2>1, JudgedBySets
  <2>3. next.failed \in Int /\ DropThreshold \in Int
    BY <1>1, ContextAssumption DEF ContextInv, LooseContext, DropThreshold
  <2>4. Promise!Judge(Outcomes'[s]) = verdict'[s]
    BY <1>1, <2>2, <2>3 DEF Undecided
  <2> QED BY <1>1, <1>2, <2>4
<1>9. CASE retry
  <2>1. Outcomes' = Outcomes
    <3>1. \A t \in Servers, d \in Checks : Outcome(srv'[t], d) = Outcome(srv[t], d)
      BY <1>1, <1>5, <1>9 DEF next
    <3> QED BY <3>1 DEF Outcomes
  <2>2. verdict' = verdict
    BY <1>1, <1>2, <1>9
  <2> QED BY <2>1, <2>2 DEF Promise!vars, Outcomes
<1>10. CASE ~retry
  <2>1. Outcomes' = [Outcomes EXCEPT ![s][c] = r]
    BY <1>6, <1>7, <1>10
  <2>2. Outcomes[s][c] = "open" /\ r \in {"passed", "failed"}
    BY <1>5 DEF Outcomes
  <2> HIDE DEF r
  <2>3. Promise!Settle(s, c, r)
    BY <1>1, <1>8, <2>1, <2>2 DEF Promise!Settle, Outcomes
  <2> QED BY <2>2, <2>3 DEF Promise!Next
<1> QED BY <1>9, <1>10

\* Every step of the scheduler is a step of module Verdicts or stutters.
LEMMA NextPromise == Inv /\ [Next]_vars => [Promise!Next]_(Promise!vars)
<1> SUFFICES ASSUME Inv, [Next]_vars PROVE Promise!Next \/ UNCHANGED Promise!vars
  OBVIOUS
<1>1. CASE \E s \in Servers, c \in Checks : CollectResult(s, c)
  BY <1>1, CollectKeepsPromise
<1>2. CASE \A s \in Servers, c \in Checks : ~CollectResult(s, c)
  <2>1. /\ verdict' = verdict
        /\ \A s \in Servers, c \in Checks : Outcome(srv'[s], c) = Outcome(srv[s], c)
    BY <1>2, OtherStepsReportNothing, SameOutcomes
  <2>2. Outcomes' = Outcomes
    BY <2>1 DEF Outcomes
  <2> QED BY <2>1, <2>2 DEF Promise!vars, Outcomes
<1> QED BY <1>1, <1>2

\* The scheduler, with its workers, channels, retries, pool and rate limits,
\* implements module Verdicts: checks settle one at a time and for good, and
\* a server is reported in the very step that decides it, rightly.
THEOREM SchedulerKeepsPromise == Spec => KeepsPromise
BY InitPromise, NextPromise, InvHolds, PTL DEF Spec, KeepsPromise, Promise!Spec
=============================================================================
