--------------------------- MODULE RequestRateProofs ---------------------------
(***************************************************************************)
(* Proofs about the rate of the requests, for every rate, every interval   *)
(* and every length of a second: the average and the peak of all requests, *)
(* the number of those that one server receives within an interval, and    *)
(* the number of requests of the last second that a rendering of the bar   *)
(* counts while no other rendering runs beside it.                         *)
(***************************************************************************)
EXTENDS RequestRate, ListProofs

RateTypes ==
  /\ now \in Times
  /\ tokens \in Tokens
  /\ tickerC \in BOOLEAN
  /\ pc \in {"snapshot", "dispatch", "slot", "stopped", "panicked"}
  /\ batchTime \in 0 .. now
  /\ nextQueryAt \in Nat
  /\ sent \in [Targets -> [Instants -> Nat]]

\* Requests launched before an instant, to the watched server and in all.
Watched(t) == sent["watched"][t]

Launched(t) == sent["watched"][t] + sent["other"][t]

\* Nothing was launched after now.
NoneInFuture ==
  \A t \in Instants : t > now =>
    /\ sent["watched"][t] = sent["watched"][now + 1]
    /\ sent["other"][t] = sent["other"][now + 1]

\* What could still be launched without another tick: the tokens, the one that
\* the scheduler holds, and a refill that the waiting tick promises.
Held == IF pc = "slot" THEN 1 ELSE 0

Promised == IF tickerC THEN MaxTokens ELSE 0

Credit == tokens + Held + Promised

\* The multiples of a second before an instant: 0 counts, though no tick falls
\* on it.
Seconds(t) == (t + Second - 1) \div Second

\* Every token was in the bucket at first or came by a tick.
TokensFromTicks == Launched(now + 1) + Credit <= MaxTokens * (1 + now \div Second)

\* From any instant to now, requests and credit come from what the bucket, the
\* scheduler and the ticker held at that instant, and from the ticks since.
CreditFromTicks ==
  \A t \in 0 .. now + 1 :
    Launched(now + 1) - Launched(t) + Credit
      <= 2 * MaxTokens + 1 + MaxTokens * (Seconds(now + 1) - Seconds(t))

\* Between any two instants, the same of the requests alone.
LaunchesFromTicks ==
  \A from, until \in Instants : from <= until =>
    Launched(until) - Launched(from)
      <= 2 * MaxTokens + 1 + MaxTokens * (Seconds(until) - Seconds(from))

\* A history counts the requests of the past.
HistoryGrows ==
  \A from, until \in Instants : from <= until => Watched(from) <= Watched(until)

\* Each request to the watched server moved its next query by an interval at
\* least, to at most one interval from now.
OneIntervalEach ==
  /\ nextQueryAt >= Interval * Watched(now + 1)
  /\ nextQueryAt <= now + Interval

\* The scheduler is between its snapshot and the end of the iteration.
Dispatching == pc \in {"dispatch", "slot"}

\* While the watched server is due in an iteration, nothing was launched to it
\* after the iteration began.
DueMeansUntouched ==
  Dispatching /\ nextQueryAt <= batchTime => Watched(batchTime + 1) = Watched(now + 1)

\* After two requests since an instant, the next one has to wait until an
\* interval after that instant.
SecondOneWaits ==
  \A t \in 0 .. now + 1 :
    Watched(now + 1) - Watched(t) >= 2 => nextQueryAt >= t + Interval

AtMostTwo ==
  \A from, until \in Instants :
    Within(Interval, from, until) => ToServer(from, until) <= 2

BucketInv == TokensFromTicks /\ CreditFromTicks /\ LaunchesFromTicks

ServerInv ==
  HistoryGrows /\ OneIntervalEach /\ DueMeansUntouched /\ SecondOneWaits /\ AtMostTwo

Inv == RateTypes /\ NoneInFuture /\ BucketInv /\ ServerInv

-----------------------------------------------------------------------------
(* Seconds and refills.                                                    *)

\* The seconds begun before an instant grow by one at each tick, and by one at
\* most within a second.
LEMMA SecondsByTicks ==
  /\ \A t \in Nat : Seconds(t) \in Nat
  /\ \A t \in Nat : Seconds(t + 1) = IF TickDue(t) THEN Seconds(t) + 1 ELSE Seconds(t)
  /\ \A t \in Nat : Seconds(t + 1) = 1 + t \div Second
BY TimeAssumption DEF Seconds, TickDue

\* An interval of at most a second has one tick at most.
LEMMA SecondsOfInterval ==
  ASSUME NEW from \in Nat, NEW until \in Nat, from <= until
  PROVE  /\ Seconds(from) <= Seconds(until)
         /\ Within(Second, from, until) => Seconds(until) <= Seconds(from) + 1
<1>1. Second \in Nat \ {0}
  BY TimeAssumption
<1>2. ASSUME NEW a \in Nat, NEW b \in Nat, a <= b
      PROVE  a \div Second <= b \div Second
  BY <1>1, <1>2
<1>3. ASSUME NEW a \in Nat, NEW b \in Nat, b <= a + Second
      PROVE  b \div Second <= a \div Second + 1
  BY <1>1, <1>3
<1> DEFINE a == from + Second - 1
           b == until + Second - 1
<1>4. /\ a \in Nat /\ b \in Nat /\ a <= b
      /\ Seconds(from) = a \div Second /\ Seconds(until) = b \div Second
  BY <1>1 DEF Seconds
<1>5. Within(Second, from, until) => b <= a + Second
  BY <1>1 DEF Within
<1> HIDE DEF a, b
<1> QED BY <1>2, <1>3, <1>4, <1>5

\* What the ticks of more seconds bring is more.
LEMMA MoreTicks ==
  ASSUME NEW m \in Int, NEW n \in Int
  PROVE  /\ MaxTokens * m \in Int
         /\ m <= n => MaxTokens * m <= MaxTokens * n
         /\ MaxTokens * (n + 1) = MaxTokens * n + MaxTokens
BY BucketAssumption

-----------------------------------------------------------------------------
(* What one step does to the clock, the credit and the history.            *)

\* The invariant holds at first.
LEMMA InitInv == Init => Inv
<1> SUFFICES ASSUME Init PROVE Inv
  OBVIOUS
<1>1. RateTypes
  <2>1. sent \in [Targets -> [Instants -> Nat]]
    BY DEF Init
  <2>2. tickerC \in BOOLEAN
    BY Zenon DEF Init
  <2>3. /\ now \in Times /\ tokens \in Tokens /\ batchTime \in 0 .. now
        /\ nextQueryAt \in Nat /\ pc = "snapshot"
    BY BucketAssumption, TimeAssumption DEF Init, Times, Tokens
  <2> QED BY <2>1, <2>2, <2>3 DEF RateTypes
<1>2. now = 0 /\ 0 \in Instants /\ 1 \in Instants /\ \A t \in Instants : t \in Nat
  BY TimeAssumption DEF Init, Instants
<1>3. \A t \in Instants : Watched(t) = 0 /\ sent["other"][t] = 0 /\ Launched(t) = 0
  BY DEF Init, Watched, Launched, Targets
<1>4. NoneInFuture
  BY <1>2, <1>3 DEF NoneInFuture, Watched
<1>5. Credit = MaxTokens /\ MaxTokens \in Nat
  BY BucketAssumption DEF Init, Credit, Held, Promised
<1>6. TokensFromTicks
  <2>1. 0 \div Second = 0
    BY TimeAssumption
  <2> QED BY <1>2, <1>3, <1>5, <2>1 DEF TokensFromTicks
<1>7. CreditFromTicks
  <2> SUFFICES ASSUME NEW t \in 0 .. 1
               PROVE  Launched(1) - Launched(t) + Credit
                        <= 2 * MaxTokens + 1 + MaxTokens * (Seconds(1) - Seconds(t))
    BY <1>2 DEF CreditFromTicks
  <2>1. t \in Instants /\ t \in Nat /\ t <= 1
    BY <1>2
  <2>2. Seconds(t) <= Seconds(1) /\ Seconds(t) \in Nat /\ Seconds(1) \in Nat
    BY <2>1, SecondsOfInterval, SecondsByTicks
  <2>3. MaxTokens * (Seconds(1) - Seconds(t)) \in Nat
    BY <2>2, <1>5
  <2> QED BY <2>1, <2>3, <1>2, <1>3, <1>5
<1>8. LaunchesFromTicks
  <2> SUFFICES ASSUME NEW from \in Instants, NEW until \in Instants, from <= until
               PROVE  Launched(until) - Launched(from)
                        <= 2 * MaxTokens + 1 + MaxTokens * (Seconds(until) - Seconds(from))
    BY DEF LaunchesFromTicks
  <2>1. Seconds(from) <= Seconds(until) /\ Seconds(from) \in Nat /\ Seconds(until) \in Nat
    BY <1>2, SecondsOfInterval, SecondsByTicks
  <2>2. MaxTokens * (Seconds(until) - Seconds(from)) \in Nat
    BY <2>1, <1>5
  <2> QED BY <2>2, <1>3, <1>5
<1>9. ServerInv
  <2>1. OneIntervalEach /\ DueMeansUntouched
    BY <1>2, <1>3, TimeAssumption DEF OneIntervalEach, DueMeansUntouched, Dispatching, Init
  <2>2. SecondOneWaits
    <3> SUFFICES ASSUME NEW t \in 0 .. 1 PROVE ~ (Watched(1) - Watched(t) >= 2)
      BY <1>2 DEF SecondOneWaits
    <3>1. t \in Instants
      BY <1>2
    <3> QED BY <1>2, <1>3, <3>1
  <2>3. AtMostTwo
    BY <1>2, <1>3 DEF AtMostTwo, ToServer, Watched
  <2>4. HistoryGrows
    BY <1>3 DEF HistoryGrows
  <2> QED BY <2>1, <2>2, <2>3, <2>4 DEF ServerInv
<1> QED BY <1>1, <1>4, <1>6, <1>7, <1>8, <1>9 DEF Inv, BucketInv

\* The history is a natural number at each instant.
LEMMA Histories ==
  ASSUME RateTypes
  PROVE  /\ now \in Nat /\ now \in Instants /\ now + 1 \in Instants
         /\ \A t \in Instants : /\ t \in Nat /\ sent["watched"][t] \in Nat
                                /\ sent["other"][t] \in Nat
                                /\ Watched(t) \in Nat /\ Launched(t) \in Nat
         /\ 0 .. now + 1 \subseteq Instants
         /\ Credit \in Nat /\ MaxTokens \in Nat \ {0}
BY BucketAssumption, TimeAssumption
DEF RateTypes, Times, Instants, Targets, Watched, Launched, Credit, Held, Promised, Tokens

\* A step of Stop or of a rendering.
ReportsOn ==
  \/ StopWithBar
  \/ StopWithoutBar
  \/ StartRedraw
  \/ \E g \in Readers : CountStep(g)
  \/ Terminated

\* It leaves the tokens and the times as they are, and launches nothing.
LEMMA ReportsLeaveTheRate ==
  ASSUME ReportsOn
  PROVE  /\ UNCHANGED <<now, tokens, tickerC, batchTime, nextQueryAt, scheduled, logged, sent>>
         /\ pc' \in {pc, "stopped", "panicked"}
<1>1. CASE StopWithBar \/ StopWithoutBar
  BY <1>1 DEF StopWithBar, StopWithoutBar, Stop, rateVars, loggerVars
<1>2. CASE StartRedraw
  BY <1>2 DEF StartRedraw, rateVars, iteration, loggerVars
<1>3. ASSUME NEW g \in Readers, CountStep(g)
      PROVE  /\ UNCHANGED <<now, tokens, tickerC, batchTime, nextQueryAt, scheduled, logged, sent>>
             /\ pc' \in {pc, "stopped", "panicked"}
  <2>1. CASE ReadHeader(g) \/ DropBatch(g)
    BY <2>1 DEF ReadHeader, DropBatch, rateVars, iteration, loggerVars
  <2>2. CASE KeepBatch(g) \/ EndCount(g)
    BY <2>2 DEF KeepBatch, EndCount, rateVars, iteration
  <2>3. CASE IndexOutOfRange(g)
    BY <2>3 DEF IndexOutOfRange, rateVars, loggerVars
  <2> QED BY <1>3, <2>1, <2>2, <2>3 DEF CountStep
<1>4. CASE Terminated
  BY <1>4 DEF Terminated, vars, rateVars, iteration, loggerVars
<1> QED BY <1>1, <1>2, <1>3, <1>4 DEF ReportsOn

\* Every step keeps the types.
LEMMA TypesNext ==
  ASSUME RateTypes, [Next]_vars
  PROVE  RateTypes'
<1> USE DEF RateTypes
<1>1. CASE PassTime
  <2>1. tickerC' \in BOOLEAN
    BY <1>1, Zenon DEF PassTime, TickDue
  <2>2. now' \in Times /\ now' = now + 1
    BY <1>1, TimeAssumption DEF PassTime, Times
  <2>3. UNCHANGED <<tokens, pc, batchTime, nextQueryAt, sent>>
    BY <1>1 DEF PassTime, iteration
  <2>4. batchTime' \in 0 .. now'
    BY <2>2, <2>3 DEF Times
  <2> QED BY <2>1, <2>2, <2>3, <2>4
<1>2. CASE Refill
  <2>1. tickerC' \in BOOLEAN
    BY <1>2, Zenon DEF Refill
  <2>2. tokens' \in Tokens
    BY <1>2, BucketAssumption DEF Refill, RefillOnce, AtMost, Tokens
  <2> QED BY <1>2, <2>1, <2>2 DEF Refill, iteration
<1>3. CASE Snapshot
  BY <1>3 DEF Snapshot, rateVars, Times
<1>4. CASE TakeToken
  <2>1. tokens' \in Tokens
    BY <1>4, BucketAssumption DEF TakeToken, CanConsume, ConsumeOne, Tokens
  <2> QED BY <1>4, <2>1 DEF TakeToken
<1>5. CASE Launch
  <2>1. PICK target \in Due :
          /\ sent' = [sent EXCEPT ![target] = OneMore(@)]
          /\ nextQueryAt' = IF target = "watched" THEN NextQueryAt ELSE nextQueryAt
    BY <1>5 DEF Launch
  <2>2. pc' = "dispatch" /\ UNCHANGED <<now, tokens, tickerC, batchTime>>
    BY <1>5 DEF Launch, rateVars
  <2>3. nextQueryAt' \in Nat
    BY <2>1, TimeAssumption DEF NextQueryAt, Times
  <2>4. target \in Targets
    BY DEF Due, Targets
  <2>5. OneMore(sent[target]) \in [Instants -> Nat]
    BY <2>4 DEF OneMore
  <2>6. sent' \in [Targets -> [Instants -> Nat]]
    BY <2>1, <2>4, <2>5
  <2> QED BY <2>2, <2>3, <2>6
<1>6. CASE NoFreeSlot
  BY <1>6, BucketAssumption DEF NoFreeSlot, GiveBackOne, Tokens
<1>7. CASE LogRequests
  BY <1>7 DEF LogRequests, rateVars, Times
<1>8. CASE NothingToLog
  BY <1>8 DEF NothingToLog, rateVars, Times
<1>9. CASE ReportsOn
  BY <1>9, ReportsLeaveTheRate
<1>10. CASE UNCHANGED vars
  BY <1>10 DEF vars, rateVars, iteration
<1> QED
  BY <1>1, <1>2, <1>3, <1>4, <1>5, <1>6, <1>7, <1>8, <1>9, <1>10 DEF Next, ReportsOn

\* What the types say of the state after a step.
LEMMA TypesAfter ==
  ASSUME RateTypes, [Next]_vars
  PROVE  now' \in Nat /\ now' + 1 \in Instants /\ Credit' \in Nat
<1>1. RateTypes'
  BY TypesNext
<1>2. PICK time \in Times : time = now'
  BY <1>1 DEF RateTypes
<1>3. time \in Nat /\ time + 1 \in Instants
  BY TimeAssumption DEF Times, Instants
<1>4. tokens' \in Nat /\ Held' \in Nat /\ Promised' \in Nat
  BY <1>1, BucketAssumption DEF RateTypes, Tokens, Held, Promised
<1>5. \A a, b, c \in Nat : a + b + c \in Nat
  OBVIOUS
<1> QED BY <1>2, <1>3, <1>4, <1>5 DEF Credit

\* A step passes time, or launches a request, or only uses or loses credit.
PassesTime ==
  /\ now' = now + 1
  /\ sent' = sent
  /\ Credit' <= IF TickDue(now') THEN Credit + MaxTokens ELSE Credit

Requests(target) ==
  /\ now' = now
  /\ sent' = [sent EXCEPT ![target] = OneMore(@)]

LaunchesTo(target) == Requests(target) /\ Credit' = Credit - 1

UsesCredit ==
  /\ now' = now
  /\ sent' = sent
  /\ Credit' <= Credit

RequestsNothing ==
  /\ now' = now \/ now' = now + 1
  /\ sent' = sent

\* No step of the code does anything else to the clock, the history and the
\* credit.
LEMMA StepsOfTheRate ==
  ASSUME RateTypes, [Next]_vars
  PROVE  PassesTime \/ UsesCredit \/ \E target \in Targets : LaunchesTo(target)
<1>1. RateTypes' /\ MaxTokens \in Nat
  BY TypesNext, BucketAssumption
<1>2. /\ tokens \in Nat /\ tokens' \in Nat /\ tokens <= MaxTokens
      /\ Held \in {0, 1} /\ Held \in Nat /\ Held' \in Nat
      /\ Promised \in {0, MaxTokens} /\ Promised \in Nat /\ Promised' \in Nat
  BY <1>1 DEF RateTypes, Held, Promised, Tokens
<1>3. PICK held \in Nat, promised \in Nat,
           tokensNext \in Nat, heldNext \in Nat, promisedNext \in Nat :
        /\ held = Held /\ promised = Promised
        /\ tokensNext = tokens' /\ heldNext = Held' /\ promisedNext = Promised'
  BY <1>2
<1>4. Credit = tokens + held + promised /\ Credit' = tokensNext + heldNext + promisedNext
  BY <1>3 DEF Credit
<1>5. CASE PassTime
  <2>1. now' = now + 1 /\ sent' = sent /\ tokens' = tokens /\ Held' = Held
    BY <1>5 DEF PassTime, iteration, Held
  <2>2. CASE TickDue(now')
    <3>1. tickerC'
      BY <1>5, <2>2 DEF PassTime
    <3>2. promisedNext = MaxTokens
      BY <3>1, <1>3 DEF Promised
    <3>3. tokensNext + heldNext + promisedNext <= tokens + held + promised + MaxTokens
      <4>1. tokensNext = tokens /\ heldNext = held
        BY <2>1, <1>3
      <4> QED BY <3>2, <4>1, <1>1, <1>2
    <3> QED BY <2>1, <2>2, <3>3, <1>4 DEF PassesTime
  <2>3. CASE ~ TickDue(now')
    <3>1. tickerC' <=> tickerC
      BY <1>5, <2>3 DEF PassTime
    <3>2. promisedNext = promised
      BY <3>1, <1>3 DEF Promised
    <3>3. tokensNext + heldNext + promisedNext <= tokens + held + promised
      <4>1. tokensNext = tokens /\ heldNext = held
        BY <2>1, <1>3
      <4> QED BY <3>2, <4>1, <1>2
    <3> QED BY <2>1, <2>3, <3>3, <1>4 DEF PassesTime
  <2> QED BY <2>2, <2>3
<1>6. CASE Refill
  <2>1. now' = now /\ sent' = sent /\ Held' = Held
    BY <1>6 DEF Refill, iteration, Held
  <2>2. tokensNext <= MaxTokens
    BY <1>1, <1>3 DEF RateTypes, Tokens
  <2>3. Promised = MaxTokens /\ Promised' = 0
    BY <1>6 DEF Refill, Promised
  <2>4. heldNext = held /\ promised = MaxTokens /\ promisedNext = 0
    BY <2>1, <2>3, <1>3
  <2>5. tokensNext + heldNext + promisedNext <= tokens + held + promised
    BY <2>2, <2>4, <1>1, <1>2
  <2> QED BY <2>1, <2>5, <1>4 DEF UsesCredit
<1>7. CASE TakeToken
  <2>1. now' = now /\ sent' = sent /\ Promised' = Promised /\ tokens' = tokens - 1
    BY <1>7 DEF TakeToken, ConsumeOne, Promised
  <2>2. Held = 0 /\ Held' = 1
    BY <1>7 DEF TakeToken, Held
  <2>3. tokensNext = tokens - 1 /\ held = 0 /\ heldNext = 1 /\ promisedNext = promised
    BY <2>1, <2>2, <1>3
  <2>4. tokensNext + heldNext + promisedNext <= tokens + held + promised
    BY <2>3, <1>2
  <2> QED BY <2>1, <2>4, <1>4 DEF UsesCredit
<1>8. CASE Launch
  <2>1. PICK target \in Due : sent' = [sent EXCEPT ![target] = OneMore(@)]
    BY <1>8 DEF Launch
  <2>2. now' = now /\ tokens' = tokens /\ Promised' = Promised
    BY <1>8 DEF Launch, rateVars, Promised
  <2>3. Held = 1 /\ Held' = 0
    BY <1>8 DEF Launch, Held
  <2>4. target \in Targets
    BY DEF Due, Targets
  <2>5. tokensNext = tokens /\ held = 1 /\ heldNext = 0 /\ promisedNext = promised
    BY <2>2, <2>3, <1>3
  <2>6. tokensNext + heldNext + promisedNext = (tokens + held + promised) - 1
    BY <2>5, <1>2
  <2>7. Credit' = Credit - 1
    BY <2>6, <1>4
  <2>8. LaunchesTo(target)
    BY <2>1, <2>2, <2>7 DEF LaunchesTo, Requests
  <2> QED BY <2>4, <2>8
<1>9. CASE NoFreeSlot
  <2>1. now' = now /\ sent' = sent /\ Promised' = Promised
    BY <1>9 DEF NoFreeSlot, Promised
  <2>2. Held = 1 /\ Held' = 0
    BY <1>9 DEF NoFreeSlot, Held
  <2>3. tokensNext <= tokens + 1
    BY <1>1, <1>2, <1>3, <1>9 DEF NoFreeSlot, GiveBackOne
  <2>4. held = 1 /\ heldNext = 0 /\ promisedNext = promised
    BY <2>1, <2>2, <1>3
  <2>5. tokensNext + heldNext + promisedNext <= tokens + held + promised
    BY <2>3, <2>4, <1>2
  <2> QED BY <2>1, <2>5, <1>4 DEF UsesCredit
<1>10. CASE Snapshot \/ LogRequests \/ NothingToLog \/ UNCHANGED vars
  <2>1. now' = now /\ sent' = sent /\ tokens' = tokens /\ Promised' = Promised
    BY <1>10
    DEF Snapshot, LogRequests, NothingToLog, vars, rateVars, Promised
  <2>2. Held' = Held
    BY <1>10
    DEF Snapshot, LogRequests, NothingToLog, vars, iteration, Held
  <2>3. tokensNext = tokens /\ heldNext = held /\ promisedNext = promised
    BY <2>1, <2>2, <1>3
  <2>4. tokensNext + heldNext + promisedNext <= tokens + held + promised
    BY <2>3, <1>2
  <2> QED BY <2>1, <2>4, <1>4 DEF UsesCredit
<1>11. CASE ReportsOn
  <2>1. /\ UNCHANGED <<now, tokens, tickerC, sent>>
        /\ pc' \in {pc, "stopped", "panicked"}
    BY <1>11, ReportsLeaveTheRate
  <2>2. Promised' = Promised /\ (Held' = 1 => Held = 1)
    BY <2>1 DEF Promised, Held
  <2>3. tokensNext = tokens /\ heldNext <= held /\ promisedNext = promised
    <3>1. heldNext \in {0, 1} /\ held \in {0, 1}
      BY <1>3 DEF Held
    <3> QED BY <2>1, <2>2, <3>1, <1>3
  <2>4. tokensNext + heldNext + promisedNext <= tokens + held + promised
    BY <2>3, <1>2
  <2> QED BY <2>1, <2>4, <1>4 DEF UsesCredit
<1> QED BY <1>5, <1>6, <1>7, <1>8, <1>9, <1>10, <1>11 DEF Next, ReportsOn

\* A launch adds one request at every later instant.
LEMMA LaunchHistory ==
  ASSUME RateTypes, NEW target \in Targets, Requests(target), NEW t \in Instants
  PROVE  /\ Launched(t)' = IF t > now THEN Launched(t) + 1 ELSE Launched(t)
         /\ Watched(t)' = IF t > now /\ target = "watched" THEN Watched(t) + 1 ELSE Watched(t)
         /\ sent["other"][t]' = IF t > now /\ target = "other" THEN sent["other"][t] + 1
                                                               ELSE sent["other"][t]
<1>1. sent["watched"][t] \in Nat /\ sent["other"][t] \in Nat
  BY Histories
<1>2. CASE target = "watched"
  <2>1. sent'["watched"] = OneMore(sent["watched"]) /\ sent'["other"] = sent["other"]
    BY <1>2 DEF Requests, RateTypes, Targets
  <2> QED BY <1>1, <1>2, <2>1 DEF OneMore, Launched, Watched
<1>3. CASE target = "other"
  <2>1. sent'["other"] = OneMore(sent["other"]) /\ sent'["watched"] = sent["watched"]
    BY <1>3 DEF Requests, RateTypes, Targets
  <2> QED BY <1>1, <1>3, <2>1 DEF OneMore, Launched, Watched
<1> QED BY <1>2, <1>3 DEF Targets

\* A launch counts from now on, and time goes forward.
LEMMA NoneInFutureNext ==
  ASSUME RateTypes, NoneInFuture, [Next]_vars
  PROVE  NoneInFuture'
<1>1. RateTypes' /\ now \in Nat /\ now + 1 \in Instants /\ \A t \in Instants : t \in Nat
  BY TypesNext, Histories
<1>2. CASE PassesTime
  <2>1. now' + 1 \in Instants /\ now' = now + 1 /\ sent' = sent
    BY <1>1, <1>2, Histories, TimeAssumption DEF PassesTime, RateTypes, Times, Instants
  <2> QED BY <1>1, <2>1 DEF NoneInFuture
<1>3. ASSUME NEW target \in Targets, LaunchesTo(target)
      PROVE  NoneInFuture'
  <2>1. now' = now
    BY <1>3 DEF LaunchesTo, Requests
  <2> SUFFICES ASSUME NEW t \in Instants, t > now
               PROVE  /\ Watched(t)' = Watched(now + 1)'
                      /\ sent["other"][t]' = sent["other"][now + 1]'
    BY <2>1 DEF NoneInFuture, Watched
  <2>2. Watched(t) = Watched(now + 1) /\ sent["other"][t] = sent["other"][now + 1]
    BY DEF NoneInFuture, Watched
  <2>3. PICK u \in Instants : u = now + 1 /\ u > now
    BY <1>1
  <2>4. /\ Watched(u)' = IF target = "watched" THEN Watched(u) + 1 ELSE Watched(u)
        /\ sent["other"][u]' = IF target = "other" THEN sent["other"][u] + 1
                                                   ELSE sent["other"][u]
    BY <1>3, <2>3, LaunchHistory DEF LaunchesTo
  <2>5. /\ Watched(t)' = IF target = "watched" THEN Watched(t) + 1 ELSE Watched(t)
        /\ sent["other"][t]' = IF target = "other" THEN sent["other"][t] + 1
                                                   ELSE sent["other"][t]
    BY <1>3, LaunchHistory DEF LaunchesTo
  <2>6. /\ Watched(t)' = Watched(u)'
        /\ sent["other"][t]' = sent["other"][u]'
    BY <2>2, <2>3, <2>4, <2>5
  <2> QED BY <2>1, <2>3, <2>6 DEF Watched
<1>4. CASE UsesCredit
  BY <1>4 DEF UsesCredit, NoneInFuture
<1> QED BY <1>2, <1>3, <1>4, StepsOfTheRate

\* The requests launched until now grow by launches only.
LEMMA LaunchedSoFar ==
  ASSUME RateTypes, NoneInFuture, [Next]_vars
  PROVE  /\ RequestsNothing => /\ Launched(now + 1)' = Launched(now + 1)
                               /\ Watched(now + 1)' = Watched(now + 1)
         /\ \A target \in Targets : Requests(target) =>
              /\ Launched(now + 1)' = Launched(now + 1) + 1
              /\ Watched(now + 1)' = IF target = "watched" THEN Watched(now + 1) + 1
                                                           ELSE Watched(now + 1)
<1>1. now \in Nat /\ now + 1 \in Instants /\ \A t \in Instants : t \in Nat
  BY Histories
<1>2. ASSUME RequestsNothing
      PROVE  Launched(now + 1)' = Launched(now + 1) /\ Watched(now + 1)' = Watched(now + 1)
  <2>1. PICK u \in Instants : u = now' + 1 /\ u > now
    <3>1. now' + 1 \in Instants /\ (now' = now \/ now' = now + 1)
      BY <1>2, TypesAfter DEF RequestsNothing
    <3>2. now + 1 > now /\ (now + 1) + 1 > now
      BY <1>1
    <3> QED BY <3>1, <3>2
  <2>2. /\ sent["watched"][u] = sent["watched"][now + 1]
        /\ sent["other"][u] = sent["other"][now + 1]
    BY <2>1 DEF NoneInFuture
  <2> QED BY <1>2, <2>1, <2>2 DEF RequestsNothing, Launched, Watched
<1>3. ASSUME NEW target \in Targets, Requests(target)
      PROVE  /\ Launched(now + 1)' = Launched(now + 1) + 1
             /\ Watched(now + 1)' = IF target = "watched" THEN Watched(now + 1) + 1
                                                          ELSE Watched(now + 1)
  <2>1. PICK u \in Instants : u = now + 1 /\ u > now
    BY <1>1
  <2>2. Launched(now + 1)' = Launched(u)' /\ Watched(now + 1)' = Watched(u)'
    BY <1>3, <2>1 DEF Requests, Launched, Watched
  <2>3. /\ Launched(u)' = Launched(u) + 1
        /\ Watched(u)' = IF target = "watched" THEN Watched(u) + 1 ELSE Watched(u)
    BY <1>3, <2>1, LaunchHistory DEF LaunchesTo
  <2> QED BY <2>1, <2>2, <2>3
<1> QED BY <1>2, <1>3

\* A tick brings its refill when the second begins, and nothing else does.
LEMMA TokensFromTicksNext ==
  ASSUME RateTypes, NoneInFuture, TokensFromTicks, [Next]_vars
  PROVE  TokensFromTicks'
<1>1. PICK total \in Nat, credit \in Nat, time \in Nat, seconds \in Nat :
        /\ total = Launched(now + 1) /\ credit = Credit
        /\ time = now /\ seconds = now \div Second
  <2>1. now \in Nat /\ Launched(now + 1) \in Nat /\ Credit \in Nat
    BY Histories
  <2>2. now \div Second \in Nat
    BY <2>1, TimeAssumption
  <2> QED BY <2>1, <2>2
<1>2. PICK max \in Nat : max = MaxTokens
  BY BucketAssumption
<1>3. total + credit <= max * (1 + seconds)
  BY <1>1, <1>2 DEF TokensFromTicks
<1>4. PICK creditNext \in Nat : creditNext = Credit'
  BY TypesAfter
<1>5. CASE PassesTime
  <2>1. Launched(now + 1)' = total /\ now' = time + 1
    BY <1>1, <1>5, LaunchedSoFar DEF PassesTime, RequestsNothing
  <2>2. (time + 1) \div Second = IF TickDue(time + 1) THEN seconds + 1 ELSE seconds
    BY <1>1, TimeAssumption DEF TickDue
  <2>3. CASE TickDue(time + 1)
    <3>1. creditNext <= credit + max
      BY <1>1, <1>2, <1>4, <1>5, <2>1, <2>3 DEF PassesTime
    <3>2. max * (1 + (seconds + 1)) = max * (1 + seconds) + max
      BY <1>2, MoreTicks
    <3>3. total + creditNext <= max * (1 + (seconds + 1))
      BY <1>3, <3>1, <3>2
    <3> QED BY <1>2, <1>4, <2>1, <2>2, <2>3, <3>3 DEF TokensFromTicks
  <2>4. CASE ~ TickDue(time + 1)
    <3>1. creditNext <= credit
      BY <1>1, <1>4, <1>5, <2>1, <2>4 DEF PassesTime
    <3>2. total + creditNext <= max * (1 + seconds)
      BY <1>3, <3>1
    <3> QED BY <1>2, <1>4, <2>1, <2>2, <2>4, <3>2 DEF TokensFromTicks
  <2> QED BY <2>3, <2>4
<1>6. ASSUME NEW target \in Targets, LaunchesTo(target)
      PROVE  TokensFromTicks'
  <2>1. Launched(now + 1)' = total + 1 /\ now' = time /\ creditNext = credit - 1
    BY <1>1, <1>4, <1>6, LaunchedSoFar DEF LaunchesTo, Requests
  <2>2. (total + 1) + creditNext <= max * (1 + seconds)
    BY <1>3, <2>1
  <2> QED BY <1>1, <1>2, <1>4, <2>1, <2>2 DEF TokensFromTicks
<1>7. CASE UsesCredit
  <2>1. Launched(now + 1)' = total /\ now' = time /\ creditNext <= credit
    BY <1>1, <1>4, <1>7, LaunchedSoFar DEF UsesCredit, RequestsNothing
  <2>2. total + creditNext <= max * (1 + seconds)
    BY <1>3, <2>1
  <2> QED BY <1>1, <1>2, <1>4, <2>1, <2>2 DEF TokensFromTicks
<1> QED BY <1>5, <1>6, <1>7, StepsOfTheRate

\* The same from any instant: a new one starts with what is held at most.
LEMMA CreditFromTicksNext ==
  ASSUME RateTypes, NoneInFuture, CreditFromTicks, [Next]_vars
  PROVE  CreditFromTicks'
<1>1. PICK total \in Nat, credit \in Nat, time \in Nat, seconds \in Nat :
        /\ total = Launched(now + 1) /\ credit = Credit
        /\ time = now /\ seconds = Seconds(now + 1)
  BY Histories, SecondsByTicks
<1>2. PICK max \in Nat : max = MaxTokens
  BY BucketAssumption
<1>3. PICK creditNext \in Nat : creditNext = Credit'
  BY TypesAfter
<1>4. ASSUME NEW t \in 0 .. time + 1
      PROVE  /\ t \in Instants /\ t \in Nat
             /\ Launched(t) \in Nat /\ Seconds(t) \in Nat
             /\ max * (seconds - Seconds(t)) \in Int
             /\ (total - Launched(t)) + credit
                  <= 2 * max + 1 + max * (seconds - Seconds(t))
  <2>1. t \in 0 .. now + 1
    BY <1>1
  <2>2. t \in Instants /\ t \in Nat /\ Launched(t) \in Nat
    BY <2>1, Histories
  <2>3. Seconds(t) \in Nat
    BY <2>2, SecondsByTicks
  <2>4. max * (seconds - Seconds(t)) \in Int
    BY <2>3
  <2>5. (Launched(now + 1) - Launched(t)) + Credit
          <= 2 * MaxTokens + 1 + MaxTokens * (Seconds(now + 1) - Seconds(t))
    BY <2>1 DEF CreditFromTicks
  <2> QED BY <2>2, <2>3, <2>4, <2>5, <1>1, <1>2
<1>5. CASE PassesTime
  <2>1. Launched(now + 1)' = total /\ now' = time + 1 /\ sent' = sent
    BY <1>1, <1>5, LaunchedSoFar DEF PassesTime, RequestsNothing
  <2>2. PICK secondsNext \in Nat :
          /\ secondsNext = Seconds((time + 1) + 1)
          /\ secondsNext = IF TickDue(time + 1) THEN seconds + 1 ELSE seconds
    BY <1>1, SecondsByTicks
  <2>3. creditNext <= IF TickDue(time + 1) THEN credit + max ELSE credit
    BY <1>1, <1>2, <1>3, <1>5, <2>1 DEF PassesTime
  <2>4. ASSUME NEW t \in 0 .. time + 1
        PROVE  (total - Launched(t)) + creditNext
                 <= 2 * max + 1 + max * (secondsNext - Seconds(t))
    <3>1. PICK before \in Nat, start \in Nat : before = Launched(t) /\ start = Seconds(t)
      BY <1>4
    <3>2. /\ max * (seconds - start) \in Int
          /\ (total - before) + credit <= 2 * max + 1 + max * (seconds - start)
      BY <1>4, <3>1
    <3>3. CASE TickDue(time + 1)
      <4>1. max * ((seconds - start) + 1) = max * (seconds - start) + max
        BY <1>2, MoreTicks
      <4>2. secondsNext - start = (seconds - start) + 1
        BY <2>2, <3>3
      <4>3. creditNext <= credit + max
        BY <2>3, <3>3
      <4> QED BY <3>1, <3>2, <4>1, <4>2, <4>3
    <3>4. CASE ~ TickDue(time + 1)
      <4>1. secondsNext = seconds /\ creditNext <= credit
        BY <2>2, <2>3, <3>4
      <4> QED BY <3>1, <3>2, <4>1
    <3> QED BY <3>3, <3>4
  <2>5. PICK u \in Instants : u = (time + 1) + 1
    BY <2>1, TypesAfter
  <2>6. Launched(u) = total
    <3>1. u > now
      BY <1>1, <2>5
    <3> QED BY <1>1, <3>1 DEF NoneInFuture, Launched
  <2>7. (total - Launched(u)) + creditNext
          <= 2 * max + 1 + max * (secondsNext - Seconds(u))
    <3>1. creditNext <= 2 * max + 1
      <4>1. RateTypes'
        BY TypesNext
      <4>2. PICK tokensNext \in Nat, heldNext \in Nat, promisedNext \in Nat :
              /\ tokensNext = tokens' /\ heldNext = Held' /\ promisedNext = Promised'
              /\ tokensNext <= max /\ heldNext <= 1 /\ promisedNext <= max
        BY <4>1, <1>2 DEF RateTypes, Tokens, Held, Promised
      <4>3. creditNext = tokensNext + heldNext + promisedNext
        BY <4>2, <1>3 DEF Credit
      <4>4. \A a, b, c \in Nat : a <= max /\ b <= 1 /\ c <= max => a + b + c <= 2 * max + 1
        OBVIOUS
      <4> QED BY <4>2, <4>3, <4>4
    <3>2. secondsNext - Seconds(u) = 0 /\ total - Launched(u) = 0
      BY <2>2, <2>5, <2>6
    <3>3. max * 0 = 0
      OBVIOUS
    <3> QED BY <3>1, <3>2, <3>3
  <2>8. ASSUME NEW t \in 0 .. (time + 1) + 1
        PROVE  (total - Launched(t)) + creditNext
                 <= 2 * max + 1 + max * (secondsNext - Seconds(t))
    <3>1. t \in 0 .. time + 1 \/ t = u
      BY <2>5
    <3> QED BY <3>1, <2>4, <2>7
  <2> QED BY <1>2, <1>3, <2>1, <2>2, <2>8 DEF CreditFromTicks, Launched
<1>6. ASSUME NEW target \in Targets, LaunchesTo(target)
      PROVE  CreditFromTicks'
  <2>1. Launched(now + 1)' = total + 1 /\ now' = time /\ creditNext = credit - 1
    BY <1>1, <1>3, <1>6, LaunchedSoFar DEF LaunchesTo, Requests
  <2>2. ASSUME NEW t \in 0 .. time + 1
        PROVE  ((total + 1) - Launched(t)') + creditNext
                 <= 2 * max + 1 + max * (seconds - Seconds(t))
    <3>1. PICK before \in Nat, after \in Nat :
            /\ before = Launched(t) /\ after = Launched(t)'
            /\ after >= before
      <4>1. t \in Instants /\ Launched(t) \in Nat
        BY <1>4
      <4>2. Launched(t)' = IF t > now THEN Launched(t) + 1 ELSE Launched(t)
        BY <4>1, <1>6, LaunchHistory DEF LaunchesTo
      <4> QED BY <4>1, <4>2
    <3>2. PICK bound \in Int : bound = max * (seconds - Seconds(t))
      BY <1>4
    <3>3. (total - before) + credit <= 2 * max + 1 + bound
      BY <1>4, <3>1, <3>2
    <3>4. ((total + 1) - after) + creditNext <= 2 * max + 1 + bound
      BY <2>1, <3>1, <3>3
    <3> QED BY <3>1, <3>2, <3>4
  <2> QED BY <1>1, <1>2, <1>3, <2>1, <2>2 DEF CreditFromTicks
<1>7. CASE UsesCredit
  <2>1. Launched(now + 1)' = total /\ now' = time /\ creditNext <= credit /\ sent' = sent
    BY <1>1, <1>3, <1>7, LaunchedSoFar DEF UsesCredit, RequestsNothing
  <2>2. ASSUME NEW t \in 0 .. time + 1
        PROVE  (total - Launched(t)) + creditNext
                 <= 2 * max + 1 + max * (seconds - Seconds(t))
    <3>1. PICK before \in Nat, bound \in Int :
            before = Launched(t) /\ bound = max * (seconds - Seconds(t))
      BY <1>4
    <3>2. (total - before) + credit <= 2 * max + 1 + bound
      BY <1>4, <3>1
    <3>3. (total - before) + creditNext <= 2 * max + 1 + bound
      BY <2>1, <3>2
    <3> QED BY <3>1, <3>3
  <2> QED BY <1>1, <1>2, <1>3, <2>1, <2>2 DEF CreditFromTicks, Launched
<1> QED BY <1>5, <1>6, <1>7, StepsOfTheRate

\* Between two instants in the past nothing changes; until an instant that is
\* still to come, the credit bounds what is launched.
LEMMA LaunchesFromTicksNext ==
  ASSUME RateTypes, NoneInFuture, CreditFromTicks, LaunchesFromTicks, [Next]_vars
  PROVE  LaunchesFromTicks'
<1>1. CASE sent' = sent
  BY <1>1 DEF LaunchesFromTicks, Launched
<1>2. ASSUME NEW target \in Targets, LaunchesTo(target)
      PROVE  LaunchesFromTicks'
  <2> SUFFICES ASSUME NEW from \in Instants, NEW until \in Instants, from <= until
               PROVE  Launched(until)' - Launched(from)'
                        <= 2 * MaxTokens + 1 + MaxTokens * (Seconds(until) - Seconds(from))
    BY DEF LaunchesFromTicks
  <2>1. PICK time \in Nat, max \in Nat : time = now /\ max = MaxTokens
    BY Histories
  <2>2. from \in Nat /\ until \in Nat
    BY Histories
  <2>3. PICK start \in Nat, end \in Nat :
          start = Seconds(from) /\ end = Seconds(until) /\ start <= end
    BY <2>2, SecondsByTicks, SecondsOfInterval
  <2>4. PICK bound \in Nat : bound = max * (end - start)
    <3>1. end - start \in Nat
      BY <2>3
    <3> QED BY <3>1
  <2>5. PICK first \in Nat, last \in Nat : first = Launched(from) /\ last = Launched(until)
    BY Histories
  <2>6. PICK firstNext \in Nat, lastNext \in Nat :
          /\ firstNext = Launched(from)' /\ lastNext = Launched(until)'
          /\ firstNext = IF from > time THEN first + 1 ELSE first
          /\ lastNext = IF until > time THEN last + 1 ELSE last
    BY <1>2, <2>1, <2>5, LaunchHistory DEF LaunchesTo
  <2>7. lastNext - firstNext <= 2 * max + 1 + bound
    <3>1. CASE until <= time \/ from > time
      <4>1. last - first <= 2 * max + 1 + bound
        BY <2>1, <2>3, <2>4, <2>5 DEF LaunchesFromTicks
      <4>2. lastNext - firstNext = last - first
        BY <2>2, <2>6, <3>1
      <4> QED BY <4>1, <4>2
    <3>2. CASE until > time /\ from <= time
      <4>1. CreditFromTicks'
        BY CreditFromTicksNext
      <4>2. now' = time
        BY <1>2, <2>1 DEF LaunchesTo, Requests
      <4>3. PICK total \in Nat, credit \in Nat, seconds \in Nat :
              /\ total = Launched(time + 1)' /\ credit = Credit'
              /\ seconds = Seconds(time + 1)
        <5>1. Launched(now + 1)' = Launched(now + 1) + 1
          BY <1>2, LaunchedSoFar DEF LaunchesTo
        <5>2. Launched(now + 1) \in Nat
          BY Histories
        <5>3. Launched(time + 1)' \in Nat
          BY <2>1, <4>2, <5>1, <5>2 DEF Launched
        <5> QED BY <5>3, TypesAfter, SecondsByTicks
      <4>4. (total - firstNext) + credit <= 2 * max + 1 + max * (seconds - start)
        <5>1. from \in 0 .. time + 1
          BY <2>2, <3>2
        <5> QED BY <2>1, <2>3, <2>6, <4>1, <4>2, <4>3, <5>1 DEF CreditFromTicks, Launched
      <4>5. max * (seconds - start) <= bound
        <5>1. seconds <= end
          BY <2>2, <2>3, <3>2, <4>3, SecondsOfInterval
        <5> QED BY <2>1, <2>4, <5>1, MoreTicks
      <4>6. max * (seconds - start) \in Int
        OBVIOUS
      <4>7. total = lastNext
        <5>1. NoneInFuture'
          BY NoneInFutureNext
        <5> QED BY <2>1, <2>2, <2>6, <3>2, <4>2, <4>3, <5>1 DEF NoneInFuture, Launched
      <4> QED BY <4>4, <4>5, <4>6, <4>7
    <3> QED BY <2>2, <3>1, <3>2
  <2> QED BY <2>1, <2>3, <2>4, <2>6, <2>7
<1> QED BY <1>1, <1>2, StepsOfTheRate DEF PassesTime, UsesCredit

\* Every step keeps what is known of the bucket.
LEMMA BucketNext ==
  ASSUME RateTypes, NoneInFuture, BucketInv, [Next]_vars
  PROVE  BucketInv'
BY TokensFromTicksNext, CreditFromTicksNext, LaunchesFromTicksNext DEF BucketInv

-----------------------------------------------------------------------------
(* The watched server.                                                     *)

\* A step moves its next query only when it launches a request to it, in an
\* iteration in which it is due.
LaunchesToServer ==
  /\ Requests("watched")
  /\ pc = "slot" /\ nextQueryAt <= batchTime
  /\ nextQueryAt' = batchTime + Interval
  /\ batchTime' = batchTime

LaunchesToOther ==
  /\ Requests("other")
  /\ pc = "slot"
  /\ UNCHANGED <<nextQueryAt, batchTime>>

Begins ==
  /\ UNCHANGED <<now, sent, nextQueryAt>>
  /\ batchTime' = now

Ends ==
  /\ UNCHANGED <<now, sent, nextQueryAt>>
  /\ ~ Dispatching'

GoesOn ==
  /\ RequestsNothing
  /\ UNCHANGED <<nextQueryAt, batchTime>>
  /\ Dispatching' => Dispatching

\* No step of the code does anything else to the watched server.
LEMMA StepsOfTheServer ==
  ASSUME [Next]_vars
  PROVE  LaunchesToServer \/ LaunchesToOther \/ Begins \/ Ends \/ GoesOn
<1>1. CASE Launch
  <2>1. PICK target \in Due :
          /\ sent' = [sent EXCEPT ![target] = OneMore(@)]
          /\ nextQueryAt' = IF target = "watched" THEN NextQueryAt ELSE nextQueryAt
    BY <1>1 DEF Launch
  <2>2. pc = "slot" /\ now' = now /\ batchTime' = batchTime
    BY <1>1 DEF Launch
  <2>3. CASE target = "watched"
    <3>1. nextQueryAt <= batchTime
      BY <2>3 DEF Due
    <3> QED BY <2>1, <2>2, <2>3, <3>1 DEF LaunchesToServer, Requests, NextQueryAt
  <2>4. CASE target = "other"
    BY <2>1, <2>2, <2>4 DEF LaunchesToOther, Requests
  <2> QED BY <2>3, <2>4 DEF Due, Targets
<1>2. CASE Snapshot
  BY <1>2 DEF Snapshot, Begins
<1>3. CASE LogRequests \/ NothingToLog
  BY <1>3 DEF LogRequests, NothingToLog, Ends, Dispatching
<1>4. CASE PassTime \/ Refill \/ UNCHANGED vars
  BY <1>4 DEF PassTime, Refill, vars, iteration, GoesOn, RequestsNothing, Dispatching
<1>5. CASE TakeToken \/ NoFreeSlot
  BY <1>5 DEF TakeToken, NoFreeSlot, GoesOn, RequestsNothing, Dispatching
<1>6. CASE ReportsOn
  <2>1. /\ UNCHANGED <<now, batchTime, nextQueryAt, sent>>
        /\ pc' \in {pc, "stopped", "panicked"}
    BY <1>6, ReportsLeaveTheRate
  <2> QED BY <2>1 DEF GoesOn, RequestsNothing, Dispatching
<1> QED BY <1>1, <1>2, <1>3, <1>4, <1>5, <1>6 DEF Next, ReportsOn

\* A launch moves the next query by an interval from a time at which it was
\* due, which is not later than now.
LEMMA OneIntervalEachNext ==
  ASSUME RateTypes, NoneInFuture, OneIntervalEach, [Next]_vars
  PROVE  OneIntervalEach'
<1>1. PICK total \in Nat, time \in Nat, batch \in Nat, next \in Nat, interval \in Nat :
        /\ total = Watched(now + 1) /\ time = now /\ batch = batchTime
        /\ next = nextQueryAt /\ interval = Interval
        /\ batch <= time
  BY Histories, TimeAssumption DEF RateTypes
<1>2. next >= interval * total /\ next <= time + interval
  BY <1>1 DEF OneIntervalEach
<1>3. CASE LaunchesToServer
  <2>1. Watched(now + 1)' = total + 1 /\ now' = time /\ nextQueryAt' = batch + interval
    BY <1>1, <1>3, LaunchedSoFar DEF LaunchesToServer, Requests, Targets
  <2>2. next <= batch
    BY <1>1, <1>3 DEF LaunchesToServer
  <2>3. interval * (total + 1) = interval * total + interval /\ interval * total \in Nat
    OBVIOUS
  <2>4. batch + interval >= interval * (total + 1) /\ batch + interval <= time + interval
    BY <1>1, <1>2, <2>2, <2>3
  <2> QED BY <1>1, <2>1, <2>4 DEF OneIntervalEach
<1>4. CASE LaunchesToOther
  <2>1. Watched(now + 1)' = total /\ now' = time /\ nextQueryAt' = next
    BY <1>1, <1>4, LaunchedSoFar DEF LaunchesToOther, Requests, Targets
  <2> QED BY <1>1, <1>2, <2>1 DEF OneIntervalEach
<1>5. CASE Begins \/ Ends \/ GoesOn
  <2>1. RequestsNothing /\ nextQueryAt' = next
    BY <1>1, <1>5 DEF Begins, Ends, GoesOn, RequestsNothing
  <2>2. Watched(now + 1)' = total
    BY <1>1, <2>1, LaunchedSoFar
  <2>3. PICK later \in Nat : later = now' /\ later >= time
    BY <1>1, <2>1 DEF RequestsNothing
  <2>4. next <= later + interval
    <3>1. later >= time
      BY <2>3
    <3> QED BY <1>2, <3>1
  <2> QED BY <1>1, <1>2, <2>1, <2>2, <2>3, <2>4 DEF OneIntervalEach
<1> QED BY <1>3, <1>4, <1>5, StepsOfTheServer

\* A launch ends the turn of the server in its iteration.
LEMMA DueMeansUntouchedNext ==
  ASSUME RateTypes, NoneInFuture, DueMeansUntouched, [Next]_vars
  PROVE  DueMeansUntouched'
<1>1. PICK batch \in Nat : batch = batchTime /\ batch <= now /\ batch + 1 \in Instants
  BY TimeAssumption DEF RateTypes, Times, Instants
<1>2. CASE LaunchesToServer
  <2>1. nextQueryAt' = batch + Interval /\ batchTime' = batch
    BY <1>1, <1>2 DEF LaunchesToServer
  <2>2. ~ (batch + Interval <= batch)
    BY <1>1, TimeAssumption
  <2> QED BY <2>1, <2>2 DEF DueMeansUntouched
<1>3. CASE LaunchesToOther
  <2>1. ASSUME nextQueryAt <= batch
        PROVE  Watched(batch + 1) = Watched(now + 1)
    BY <1>1, <1>3, <2>1 DEF DueMeansUntouched, LaunchesToOther, Dispatching
  <2>2. sent'["watched"] = sent["watched"] /\ now' = now
    BY <1>3 DEF LaunchesToOther, Requests, RateTypes, Targets
  <2>3. nextQueryAt' = nextQueryAt /\ batchTime' = batch
    BY <1>1, <1>3 DEF LaunchesToOther
  <2> QED BY <2>1, <2>2, <2>3 DEF DueMeansUntouched, Watched
<1>4. CASE Begins
  BY <1>4 DEF Begins, DueMeansUntouched
<1>5. CASE Ends
  BY <1>5 DEF Ends, DueMeansUntouched
<1>6. CASE GoesOn
  <2> SUFFICES ASSUME Dispatching', nextQueryAt' <= batchTime'
               PROVE  Watched(batchTime + 1)' = Watched(now + 1)'
    BY DEF DueMeansUntouched
  <2>1. Dispatching /\ nextQueryAt <= batchTime /\ batchTime' = batchTime /\ sent' = sent
    BY <1>6 DEF GoesOn, RequestsNothing
  <2>2. Watched(batchTime + 1) = Watched(now + 1)
    BY <2>1 DEF DueMeansUntouched
  <2>3. Watched(now + 1)' = Watched(now + 1)
    BY <1>6, LaunchedSoFar DEF GoesOn
  <2> QED BY <2>1, <2>2, <2>3 DEF Watched
<1> QED BY <1>2, <1>3, <1>4, <1>5, <1>6, StepsOfTheServer

\* Launches only add to the history.
LEMMA HistoryGrowsNext ==
  ASSUME RateTypes, HistoryGrows, [Next]_vars
  PROVE  HistoryGrows'
<1>1. ASSUME NEW target \in Targets, Requests(target)
      PROVE  HistoryGrows'
  <2> SUFFICES ASSUME NEW from \in Instants, NEW until \in Instants, from <= until
               PROVE  Watched(from)' <= Watched(until)'
    BY DEF HistoryGrows
  <2>1. PICK first \in Nat, last \in Nat, time \in Nat :
          first = Watched(from) /\ last = Watched(until) /\ time = now /\ first <= last
    BY Histories DEF HistoryGrows
  <2>2. /\ Watched(from)' = IF from > time /\ target = "watched" THEN first + 1 ELSE first
        /\ Watched(until)' = IF until > time /\ target = "watched" THEN last + 1 ELSE last
    BY <1>1, <2>1, LaunchHistory
  <2>3. from \in Nat /\ until \in Nat
    BY Histories
  <2> QED BY <2>1, <2>2, <2>3
<1>2. CASE sent' = sent
  BY <1>2 DEF HistoryGrows, Watched
<1>3. "watched" \in Targets /\ "other" \in Targets
  BY DEF Targets
<1> QED BY <1>1, <1>2, <1>3, StepsOfTheServer
        DEF LaunchesToServer, LaunchesToOther, Begins, Ends, GoesOn, RequestsNothing

\* The second request since an instant is launched in an iteration that began
\* after the first, so not before that instant.
LEMMA SecondOneWaitsNext ==
  ASSUME RateTypes, NoneInFuture, HistoryGrows, DueMeansUntouched, SecondOneWaits,
         [Next]_vars
  PROVE  SecondOneWaits'
<1>1. PICK total \in Nat, time \in Nat, batch \in Nat, next \in Nat, interval \in Nat :
        /\ total = Watched(now + 1) /\ time = now /\ batch = batchTime
        /\ next = nextQueryAt /\ interval = Interval
        /\ batch <= time /\ batch + 1 \in Instants
  BY Histories, TimeAssumption DEF RateTypes, Times, Instants
<1>2. ASSUME NEW t \in 0 .. time + 1
      PROVE  /\ t \in Instants /\ t \in Nat /\ Watched(t) \in Nat
             /\ total - Watched(t) >= 2 => next >= t + interval
  BY <1>1, Histories DEF SecondOneWaits
<1>3. CASE LaunchesToServer
  <2>1. Watched(now + 1)' = total + 1 /\ now' = time /\ nextQueryAt' = batch + interval
    BY <1>1, <1>3, LaunchedSoFar DEF LaunchesToServer, Requests, Targets
  <2>2. Watched(batch + 1) = total
    BY <1>1, <1>3 DEF LaunchesToServer, DueMeansUntouched, Dispatching
  <2>3. ASSUME NEW t \in 0 .. time + 1, (total + 1) - Watched(t)' >= 2
        PROVE  batch + interval >= t + interval
    <3>1. PICK before \in Nat, after \in Nat :
            before = Watched(t) /\ after = Watched(t)' /\ before <= after
      <4>1. t \in Instants /\ Watched(t) \in Nat
        BY <1>2
      <4>2. Watched(t)' = IF t > now THEN Watched(t) + 1 ELSE Watched(t)
        BY <1>3, <4>1, LaunchHistory DEF LaunchesToServer, Targets
      <4> QED BY <4>1, <4>2
    <3>2. before < total
      BY <2>3, <3>1
    <3>3. ~ (batch + 1 <= t)
      <4>1. t \in Instants
        BY <1>2
      <4> QED BY <1>1, <2>2, <3>1, <3>2, <4>1 DEF HistoryGrows
    <3> QED BY <1>2, <3>3
  <2> QED BY <1>1, <2>1, <2>3 DEF SecondOneWaits
<1>4. CASE LaunchesToOther
  <2>1. sent'["watched"] = sent["watched"] /\ now' = now /\ nextQueryAt' = nextQueryAt
    BY <1>4 DEF LaunchesToOther, Requests, RateTypes, Targets
  <2> QED BY <2>1 DEF SecondOneWaits, Watched
<1>5. CASE Begins \/ Ends \/ GoesOn
  <2>1. RequestsNothing /\ nextQueryAt' = next
    BY <1>1, <1>5 DEF Begins, Ends, GoesOn, RequestsNothing
  <2>2. Watched(now + 1)' = total /\ sent' = sent
    BY <1>1, <2>1, LaunchedSoFar DEF RequestsNothing
  <2>3. ASSUME NEW t \in 0 .. now' + 1, total - Watched(t) >= 2
        PROVE  next >= t + interval
    <3>1. CASE t \in 0 .. time + 1
      BY <1>2, <2>3, <3>1
    <3>2. CASE t \notin 0 .. time + 1
      <4>1. t \in Instants /\ t > now
        BY <1>1, <2>1, <3>2, TypesAfter DEF RequestsNothing, Instants
      <4>2. Watched(t) = total
        BY <1>1, <4>1 DEF NoneInFuture, Watched
      <4> QED BY <2>3, <4>2
    <3> QED BY <3>1, <3>2
  <2> QED BY <1>1, <2>1, <2>2, <2>3 DEF SecondOneWaits, Watched
<1> QED BY <1>3, <1>4, <1>5, StepsOfTheServer

\* Hence a third request within the interval is not due.
LEMMA AtMostTwoNext ==
  ASSUME RateTypes, NoneInFuture, SecondOneWaits, AtMostTwo, [Next]_vars
  PROVE  AtMostTwo'
<1>1. CASE sent'["watched"] = sent["watched"]
  BY <1>1 DEF AtMostTwo, ToServer
<1>2. CASE LaunchesToServer
  <2> SUFFICES ASSUME NEW from \in Instants, NEW until \in Instants,
                      Within(Interval, from, until)
               PROVE  ToServer(from, until)' <= 2
    BY DEF AtMostTwo
  <2>1. PICK first \in Nat, last \in Nat, total \in Nat,
             time \in Nat, batch \in Nat, interval \in Nat :
          /\ first = Watched(from) /\ last = Watched(until) /\ total = Watched(now + 1)
          /\ time = now /\ batch = batchTime /\ interval = Interval
          /\ batch <= time
    <3>1. /\ Watched(from) \in Nat /\ Watched(until) \in Nat /\ Watched(now + 1) \in Nat
          /\ now \in Nat
      BY Histories
    <3>2. batchTime \in Nat /\ batchTime <= now /\ Interval \in Nat
      BY <3>1, TimeAssumption DEF RateTypes
    <3> QED
      BY <3>1, <3>2
  <2>2. from \in Nat /\ until \in Nat /\ from <= until /\ until <= from + interval
    BY <2>1, Histories DEF Within
  <2>3. last - first <= 2
    BY <2>1 DEF AtMostTwo, ToServer, Watched
  <2>4. /\ Watched(from)' = IF from > time THEN first + 1 ELSE first
        /\ Watched(until)' = IF until > time THEN last + 1 ELSE last
    BY <1>2, <2>1, LaunchHistory DEF LaunchesToServer, Targets
  <2>5. ToServer(from, until)' = Watched(until)' - Watched(from)'
    BY DEF ToServer, Watched
  <2>6. CASE until <= time \/ from > time
    BY <2>2, <2>3, <2>4, <2>5, <2>6, <2>1
  <2>7. CASE until > time /\ from <= time
    <3>1. last = total
      BY <2>1, <2>7 DEF NoneInFuture, Watched
    <3>2. from \in 0 .. now + 1
      BY <2>1, <2>2, <2>7
    <3>3. total - first >= 2 => batch >= from + interval
      <4>1. PICK next \in Nat : next = nextQueryAt /\ next <= batch
        BY <1>2, <2>1 DEF LaunchesToServer, RateTypes
      <4>2. total - first >= 2 => next >= from + interval
        BY <2>1, <3>2, <4>1 DEF SecondOneWaits
      <4> QED BY <2>2, <4>1, <4>2
    <3>4. ~ (batch >= from + interval)
      BY <2>1, <2>2, <2>7
    <3>5. (last + 1) - first <= 2
      BY <3>1, <3>3, <3>4
    <3> QED BY <2>4, <2>5, <2>7, <3>5, <2>2
  <2> QED BY <2>1, <2>2, <2>6, <2>7
<1>3. LaunchesToOther => sent'["watched"] = sent["watched"]
  BY DEF LaunchesToOther, Requests, RateTypes, Targets
<1> QED BY <1>1, <1>2, <1>3, StepsOfTheServer DEF Begins, Ends, GoesOn, RequestsNothing

\* Every step keeps what is known of the watched server.
LEMMA ServerNext ==
  ASSUME RateTypes, NoneInFuture, ServerInv, [Next]_vars
  PROVE  ServerInv'
BY HistoryGrowsNext, OneIntervalEachNext, DueMeansUntouchedNext, SecondOneWaitsNext,
   AtMostTwoNext DEF ServerInv

-----------------------------------------------------------------------------
(* The theorems.                                                           *)

\* Every step keeps the invariant.
LEMMA NextInv == Inv /\ [Next]_vars => Inv'
BY TypesNext, NoneInFutureNext, BucketNext, ServerNext DEF Inv

\* The invariant holds in every state.
LEMMA InvHolds == Spec => []Inv
BY InitInv, NextInv, PTL DEF Spec

\* The average rate is kept however late the refiller and the scheduler are.
THEOREM AverageIsKept == Spec => []AverageRateKept
<1>1. Inv => AverageRateKept
  <2> SUFFICES ASSUME Inv PROVE AverageRateKept
    OBVIOUS
  <2>1. RateTypes /\ TokensFromTicks
    BY DEF Inv, BucketInv
  <2>2. PICK total \in Nat, credit \in Nat, max \in Nat, seconds \in Nat :
          /\ total = Launched(now + 1) /\ credit = Credit /\ max = MaxTokens
          /\ seconds = now \div Second
    <3>1. Launched(now + 1) \in Nat /\ Credit \in Nat /\ MaxTokens \in Nat /\ now \in Nat
      BY <2>1, Histories
    <3>2. now \div Second \in Nat
      BY <3>1, TimeAssumption
    <3> QED
      BY <3>1, <3>2
  <2>3. total + credit <= max * (1 + seconds)
    BY <2>1, <2>2 DEF TokensFromTicks
  <2>4. total <= max * (1 + seconds)
    BY <2>3
  <2>5. PICK before \in Nat, beforeOther \in Nat, until \in Nat, untilOther \in Nat :
          /\ before = sent["watched"][0] /\ beforeOther = sent["other"][0]
          /\ until = sent["watched"][now + 1] /\ untilOther = sent["other"][now + 1]
    <3>1. 0 \in Instants
      BY TimeAssumption DEF Instants
    <3> QED BY <2>1, <3>1, Histories
  <2>6. /\ SentIn(0, now + 1) = ((until - before) + untilOther) - beforeOther
        /\ total = until + untilOther
    BY <2>2, <2>5 DEF SentIn, ToServer, Launched
  <2>7. SentIn(0, now + 1) <= max * (1 + seconds)
    <3>1. max * (1 + seconds) \in Nat
      OBVIOUS
    <3>2. ((until - before) + untilOther) - beforeOther <= until + untilOther
      BY <2>5
    <3> QED BY <2>4, <2>6, <3>1, <3>2
  <2> QED BY <2>2, <2>7, BucketAssumption DEF AverageRateKept
<1> QED BY <1>1, InvHolds, PTL

\* No interval of a second sees more requests than a full bucket, a late
\* refill, the refill of that second, and a token taken before.
THEOREM PeakIsBounded == Spec => []PeakBounded
<1>1. Inv => PeakBounded
  <2> SUFFICES ASSUME Inv,
                      NEW from \in Instants, NEW until \in Instants,
                      Within(Second, from, until)
               PROVE  SentIn(from, until) <= 3 * MaxTokens + 1
    BY DEF PeakBounded
  <2>1. RateTypes /\ LaunchesFromTicks
    BY DEF Inv, BucketInv
  <2>2. from \in Nat /\ until \in Nat /\ from <= until
    BY <2>1, Histories DEF Within
  <2>3. PICK max \in Nat, start \in Nat, end \in Nat :
          /\ max = MaxTokens /\ start = Seconds(from) /\ end = Seconds(until)
          /\ start <= end /\ end <= start + 1
    BY <2>1, <2>2, Histories, SecondsByTicks, SecondsOfInterval
  <2>4. max * (end - start) <= max
    <3>1. end - start = 0 \/ end - start = 1
      BY <2>3
    <3> QED BY <3>1
  <2>5. PICK first \in Nat, firstOther \in Nat, last \in Nat, lastOther \in Nat :
          /\ first = sent["watched"][from] /\ firstOther = sent["other"][from]
          /\ last = sent["watched"][until] /\ lastOther = sent["other"][until]
    BY <2>1, Histories
  <2>6. (last + lastOther) - (first + firstOther) <= 2 * max + 1 + max * (end - start)
    BY <2>1, <2>2, <2>3, <2>5 DEF LaunchesFromTicks, Launched
  <2>7. SentIn(from, until) = ((last - first) + lastOther) - firstOther
    BY <2>5 DEF SentIn, ToServer
  <2>8. ((last - first) + lastOther) - firstOther <= 3 * max + 1
    <3>1. max * (end - start) \in Int
      OBVIOUS
    <3> QED BY <2>4, <2>6, <3>1
  <2> QED BY <2>3, <2>7, <2>8
<1> QED BY <1>1, InvHolds, PTL

\* What -ratelimit promises of one server.
THEOREM ServerRateIsKept == Spec => []ServerRateKept
<1>1. Inv => ServerRateKept
  <2> SUFFICES ASSUME Inv PROVE ServerRateKept
    OBVIOUS
  <2>1. RateTypes /\ OneIntervalEach /\ AtMostTwo
    BY DEF Inv, ServerInv
  <2>2. PICK total \in Nat, time \in Nat, next \in Nat, interval \in Nat \ {0} :
          /\ total = Watched(now + 1) /\ time = now /\ next = nextQueryAt
          /\ interval = Interval
    BY <2>1, Histories, TimeAssumption DEF RateTypes
  <2>3. interval * total <= time + interval
    <3>1. next >= interval * total /\ next <= time + interval
      BY <2>1, <2>2 DEF OneIntervalEach
    <3>2. interval * total \in Nat
      OBVIOUS
    <3> QED BY <3>1, <3>2
  <2>4. total <= 1 + time \div interval
    <3>1. PICK quotient \in Nat : quotient = time \div interval
      OBVIOUS
    <3>2. time < interval * quotient + interval
      BY <3>1
    <3>3. interval * (quotient + 2) = interval * quotient + interval + interval
      OBVIOUS
    <3>4. interval * total < interval * (quotient + 2)
      BY <2>3, <3>2, <3>3
    <3>5. quotient + 2 <= total => interval * (quotient + 2) <= interval * total
      OBVIOUS
    <3>6. ~ (quotient + 2 <= total)
      BY <3>4, <3>5
    <3> QED BY <3>1, <3>6
  <2>5. ToServer(0, now + 1) <= 1 + now \div Interval
    <3>1. PICK before \in Nat : before = sent["watched"][0]
      <4>1. 0 \in Instants
        BY TimeAssumption DEF Instants
      <4> QED BY <2>1, <4>1, Histories
    <3>2. ToServer(0, now + 1) = total - before
      BY <2>2, <3>1 DEF ToServer, Watched
    <3>3. PICK quotient \in Nat : quotient = time \div interval
      OBVIOUS
    <3>4. total - before <= 1 + quotient
      BY <2>4, <3>3
    <3> QED BY <2>2, <3>2, <3>3, <3>4
  <2> QED BY <2>1, <2>5 DEF ServerRateKept, AtMostTwo
<1> QED BY <1>1, InvHolds, PTL

-----------------------------------------------------------------------------
(* The window of the requests logger.                                      *)

Batches == [timestamp : Times, count : Nat]

\* The counts of the batches with a later time, as weights.
CountAfter(time) ==
  [batch \in Batches |-> IF batch.timestamp > time THEN batch.count ELSE 0]

\* Requests in the batches with a later time.
Recent(bs, time) == TotalWeight(bs, CountAfter(time))

\* The same of some positions of an array, up to the n-th.
WeightsAt(bs, positions, n, time) ==
  [k \in 1 .. n |-> IF k \in positions THEN CountAfter(time)[bs[k]] ELSE 0]

RecentAt(bs, positions, n, time) == Total(WeightsAt(bs, positions, n, time), n)

\* What was logged with a later time, instant by instant.
LoggedAt(log, time) ==
  [k \in 1 .. MaxTime + 1 |-> IF k - 1 > time THEN log[k - 1] ELSE 0]

LoggedAfter(log, time) == Total(LoggedAt(log, time), MaxTime + 1)

-----------------------------------------------------------------------------
(* The rounds of a count.                                                  *)

\* The batches that a count has kept, and those that it has not looked at.
Left(i, keep, n) == {k \in 1 .. n : k <= keep \/ i <= k}

\* The batches of some positions have all that was logged since a time.
Window(bs, positions, n, log, since) ==
  \A time \in Int : time >= since =>
    RecentAt(bs, positions, n, time) = LoggedAfter(log, time)

\* A weight is a number.
LEMMA CountsAreWeights ==
  ASSUME NEW time \in Int
  PROVE  /\ CountAfter(time) \in [Batches -> Nat]
         /\ \A batch \in Batches : CountAfter(time)[batch] =
              IF batch.timestamp > time THEN batch.count ELSE 0
<1>1. \A batch \in Batches : batch.count \in Nat
  BY DEF Batches
<1> QED
  BY <1>1 DEF CountAfter

\* An array of batches whose first n have been looked at, or will be.
IsArray(bs, n) == bs \in Seq(Batches) /\ n \in Nat /\ n <= Len(bs)

\* Its weights are numbers.
LEMMA WeightsOfArray ==
  ASSUME NEW bs, NEW n, IsArray(bs, n), NEW positions, NEW time \in Int
  PROVE  \A k \in 1 .. n :
           /\ bs[k] \in Batches /\ CountAfter(time)[bs[k]] \in Nat
           /\ WeightsAt(bs, positions, n, time)[k] =
                IF k \in positions THEN CountAfter(time)[bs[k]] ELSE 0
<1>1. \A k \in 1 .. n : bs[k] \in Batches
  BY DEF IsArray
<1>2. \A k \in 1 .. n : CountAfter(time)[bs[k]] \in Nat
  BY <1>1, CountsAreWeights
<1> QED
  BY <1>1, <1>2 DEF WeightsAt

\* A round that keeps a batch puts it behind those that were kept before.
Kept(bs, i, keep) == [bs EXCEPT ![keep + 1] = bs[i]]

\* The array stays one.
LEMMA KeptArray ==
  ASSUME NEW bs, NEW n, IsArray(bs, n), NEW i \in 1 .. n, NEW keep \in Nat, keep < i
  PROVE  /\ IsArray(Kept(bs, i, keep), n)
         /\ \A k \in 1 .. n : Kept(bs, i, keep)[k] = IF k = keep + 1 THEN bs[i] ELSE bs[k]
<1>1. bs \in Seq(Batches) /\ bs[i] \in Batches /\ n \in Nat /\ n <= Len(bs)
  BY DEF IsArray
<1>2. Kept(bs, i, keep) \in Seq(Batches) /\ Len(Kept(bs, i, keep)) = Len(bs)
  BY <1>1 DEF Kept
<1>3. \A k \in 1 .. n : Kept(bs, i, keep)[k] = IF k = keep + 1 THEN bs[i] ELSE bs[k]
  BY <1>1 DEF Kept
<1> QED
  BY <1>1, <1>2, <1>3 DEF IsArray

\* No request is lost in the round, and what is kept has the batch's more.
LEMMA KeepRound ==
  ASSUME NEW bs, NEW n, IsArray(bs, n), NEW i \in 1 .. n, NEW keep \in Nat, keep < i,
         NEW time \in Int
  PROVE  /\ RecentAt(Kept(bs, i, keep), Left(i + 1, keep + 1, n), n, time)
              = RecentAt(bs, Left(i, keep, n), n, time)
         /\ RecentAt(Kept(bs, i, keep), 1 .. keep + 1, n, time)
              = RecentAt(bs, 1 .. keep, n, time) + CountAfter(time)[bs[i]]
<1> DEFINE bs2 == Kept(bs, i, keep)
           w == CountAfter(time)[bs[i]]
           f == WeightsAt(bs, Left(i, keep, n), n, time)
           g == WeightsAt(bs2, Left(i + 1, keep + 1, n), n, time)
           h == WeightsAt(bs, Left(i + 1, keep, n), n, time)
           p == WeightsAt(bs, 1 .. keep, n, time)
           q == WeightsAt(bs2, 1 .. keep + 1, n, time)
<1>1. n \in Nat /\ i \in Nat /\ i <= n /\ keep + 1 \in 1 .. n /\ w \in Nat
  <2>1. n \in Nat
    BY DEF IsArray
  <2>2. w \in Nat
    BY WeightsOfArray
  <2> HIDE DEF w
  <2> QED
    BY <2>1, <2>2
<1>2. IsArray(bs2, n) /\ \A k \in 1 .. n : bs2[k] = IF k = keep + 1 THEN bs[i] ELSE bs[k]
  BY KeptArray
<1>3. \A k \in 1 .. n : /\ k \in Left(i, keep, n) <=> k <= keep \/ i <= k
                        /\ k \in Left(i + 1, keep + 1, n) <=> k <= keep + 1 \/ i + 1 <= k
                        /\ k \in Left(i + 1, keep, n) <=> k <= keep \/ i + 1 <= k
                        /\ k \in 1 .. keep <=> k <= keep
                        /\ k \in 1 .. keep + 1 <=> k <= keep + 1
  BY <1>1 DEF Left
<1>4. ASSUME NEW k \in 1 .. n
      PROVE  /\ CountAfter(time)[bs[k]] \in Nat
             /\ f[k] = IF k \in Left(i, keep, n) THEN CountAfter(time)[bs[k]] ELSE 0
             /\ h[k] = IF k \in Left(i + 1, keep, n) THEN CountAfter(time)[bs[k]] ELSE 0
             /\ p[k] = IF k \in 1 .. keep THEN CountAfter(time)[bs[k]] ELSE 0
             /\ g[k] = IF k \in Left(i + 1, keep + 1, n) THEN CountAfter(time)[bs2[k]] ELSE 0
             /\ q[k] = IF k \in 1 .. keep + 1 THEN CountAfter(time)[bs2[k]] ELSE 0
  <2> HIDE DEF bs2
  <2> QED
    BY <1>2, WeightsOfArray
<1> HIDE DEF f, g, h, p, q, bs2
<1>5. ASSUME NEW k \in 1 .. n
      PROVE  /\ h[k] \in Nat /\ p[k] \in Nat
             /\ f[k] = IF k = i THEN h[k] + w ELSE h[k]
             /\ g[k] = IF k = keep + 1 THEN h[k] + w ELSE h[k]
             /\ q[k] = IF k = keep + 1 THEN p[k] + w ELSE p[k]
  <2> DEFINE v == CountAfter(time)[bs[k]]
  <2>1. CountAfter(time)[bs2[k]] = IF k = keep + 1 THEN w ELSE v
    BY <1>2
  <2>2. k = i => v = w
    OBVIOUS
  <2>3. v \in Nat
    BY <1>4
  <2>4. /\ f[k] = IF k <= keep \/ i <= k THEN v ELSE 0
        /\ h[k] = IF k <= keep \/ i + 1 <= k THEN v ELSE 0
        /\ p[k] = IF k <= keep THEN v ELSE 0
    BY <1>3, <1>4
  <2>5. /\ g[k] = IF k <= keep + 1 \/ i + 1 <= k THEN IF k = keep + 1 THEN w ELSE v ELSE 0
        /\ q[k] = IF k <= keep + 1 THEN IF k = keep + 1 THEN w ELSE v ELSE 0
    BY <1>3, <1>4, <2>1
  <2> HIDE DEF v, w
  <2> QED
    BY <1>1, <2>2, <2>3, <2>4, <2>5
<1>6. LargerAt(i, w, h, f, n) /\ LargerAt(keep + 1, w, h, g, n) /\ LargerAt(keep + 1, w, p, q, n)
  BY <1>5 DEF LargerAt
<1> HIDE DEF w
<1>7. /\ Total(f, n) = Total(h, n) + w
      /\ Total(g, n) = Total(h, n) + w
      /\ Total(q, n) = Total(p, n) + w
  BY <1>1, <1>6, TotalOneLarger
<1> QED
  BY <1>7 DEF RecentAt, f, g, p, q, bs2, w

\* A round that drops a batch loses no request of a later time.
LEMMA DropRound ==
  ASSUME NEW bs, NEW n, IsArray(bs, n), NEW i \in 1 .. n, NEW keep \in Nat,
         NEW time \in Int, ~ (bs[i].timestamp > time)
  PROVE  RecentAt(bs, Left(i + 1, keep, n), n, time) = RecentAt(bs, Left(i, keep, n), n, time)
<1> DEFINE f == WeightsAt(bs, Left(i, keep, n), n, time)
           g == WeightsAt(bs, Left(i + 1, keep, n), n, time)
<1>1. n \in Nat /\ i \in Nat /\ bs[i] \in Batches
  BY WeightsOfArray DEF IsArray
<1>2. CountAfter(time)[bs[i]] = 0
  BY <1>1, CountsAreWeights
<1>3. ASSUME NEW k \in 1 .. n PROVE f[k] = g[k]
  <2>1. /\ f[k] = IF k \in Left(i, keep, n) THEN CountAfter(time)[bs[k]] ELSE 0
        /\ g[k] = IF k \in Left(i + 1, keep, n) THEN CountAfter(time)[bs[k]] ELSE 0
    BY WeightsOfArray
  <2>2. k # i => (k \in Left(i, keep, n) <=> k \in Left(i + 1, keep, n))
    BY <1>1 DEF Left
  <2> HIDE DEF f, g
  <2> QED
    BY <1>2, <2>1, <2>2
<1> HIDE DEF f, g
<1>4. Total(f, n) = Total(g, n)
  BY <1>1, <1>3, TotalSame
<1> QED
  BY <1>4 DEF RecentAt, f, g

\* When there is no next batch, what was kept is what is left, and the slice
\* that ends there has all of it.
LEMMA LastRound ==
  ASSUME NEW bs, NEW n, IsArray(bs, n), NEW keep \in Nat, keep <= n, NEW time \in Int
  PROVE  /\ Left(n + 1, keep, n) = 1 .. keep
         /\ RecentAt(bs, 1 .. keep, keep, time) = RecentAt(bs, 1 .. keep, n, time)
<1> DEFINE f == WeightsAt(bs, 1 .. keep, n, time)
           g == WeightsAt(bs, 1 .. keep, keep, time)
<1>1. n \in Nat /\ IsArray(bs, keep)
  BY DEF IsArray
<1>2. Left(n + 1, keep, n) = 1 .. keep
  BY <1>1 DEF Left
<1>3. \A k \in 1 .. keep : f[k] = g[k] /\ f[k] \in Nat
  <2>1. \A k \in 1 .. keep : k \in 1 .. n
    BY <1>1
  <2> QED
    BY <2>1, WeightsOfArray DEF WeightsAt
<1>4. \A k \in keep + 1 .. n : f[k] = 0
  BY <1>1 DEF WeightsAt
<1> HIDE DEF f, g
<1>5. Total(f, n) = Total(f, keep)
  BY <1>1, <1>3, <1>4, TotalPrefix
<1>6. Total(f, keep) = Total(g, keep)
  BY <1>3, TotalSame
<1> QED
  BY <1>2, <1>5, <1>6 DEF RecentAt, f, g

\* Before the first round all is left, and nothing is kept.
LEMMA FirstRound ==
  ASSUME NEW bs, NEW n, IsArray(bs, n), NEW time \in Int
  PROVE  /\ Left(1, 0, n) = 1 .. n
         /\ RecentAt(bs, 1 .. 0, n, time) = 0
<1>1. n \in Nat
  BY DEF IsArray
<1>2. Left(1, 0, n) = 1 .. n
  BY <1>1 DEF Left
<1> DEFINE f == WeightsAt(bs, 1 .. 0, n, time)
<1>3. \A k \in 1 .. n : f[k] = 0
  BY <1>1 DEF WeightsAt
<1> HIDE DEF f
<1>4. Total(f, n) = 0
  BY <1>1, <1>3, TotalOfZeros
<1> QED
  BY <1>2, <1>4 DEF RecentAt, f

-----------------------------------------------------------------------------
(* The steps of a count.                                                   *)

Stages == {"away", "called", "header", "scan", "done", "gone"}

Scans == [at : Nat, n : Nat, i : Nat, keep : Nat, sum : Nat]

\* Nothing was logged with a later time.
NothingAfter(log, time) == \A t \in Times : t > time => log[t] = 0

Idle(stage) == stage \notin {"header", "scan"}

\* Where a count is in its rounds over an array.
InRounds(s, bs, n, log) ==
  /\ s.n = n
  /\ s.keep < s.i
  /\ s.i <= n + 1
  /\ Window(bs, Left(s.i, s.keep, n), n, log, s.at - Second)
  /\ s.sum = RecentAt(bs, 1 .. s.keep, n, s.at - Second)

\* What a goroutine knows of the array, at each stage of its rendering.
Knows(stage, s, bs, n, log, clock) ==
  /\ stage \in Stages
  /\ s \in Scans
  /\ stage # "scan" => s.i = 1 /\ s.keep = 0 /\ s.sum = 0
  /\ ~ Idle(stage) => s.at <= clock /\ NothingAfter(log, s.at)
  /\ stage = "header" => Window(bs, 1 .. n, n, log, s.at - Second)
  /\ stage = "scan" => InRounds(s, bs, n, log)

\* Who does not render knows nothing that could change.
LEMMA IdleKnows ==
  ASSUME NEW stage, NEW s, NEW bs, NEW n, NEW log, NEW clock,
         Knows(stage, s, bs, n, log, clock), Idle(stage),
         NEW next \in Stages, Idle(next),
         NEW bs2, NEW n2, NEW log2, NEW clock2
  PROVE  Knows(next, s, bs2, n2, log2, clock2)
BY DEF Knows, Idle

\* Nor does the clock change it.
LEMMA KnowsLater ==
  ASSUME NEW stage, NEW s, NEW bs, NEW n, NEW log, NEW clock \in Nat, NEW clock2 \in Nat,
         Knows(stage, s, bs, n, log, clock), clock <= clock2
  PROVE  Knows(stage, s, bs, n, log, clock2)
<1>1. ~ Idle(stage) => s.at <= clock2
  <2>1. s.at \in Nat
    BY DEF Knows, Scans
  <2> QED
    BY <2>1 DEF Knows
<1> QED
  BY <1>1 DEF Knows

\* The scan that begins at a time.
Begun(s, time) == [s EXCEPT !.at = time]

\* A count begins with the batches of the second before.
LEMMA CountBegins ==
  ASSUME NEW stage, NEW s, NEW bs, NEW n, NEW log, NEW clock \in Nat,
         Knows(stage, s, bs, n, log, clock), Idle(stage),
         NothingAfter(log, clock), Window(bs, 1 .. n, n, log, clock - Second)
  PROVE  Knows("header", Begun(s, clock), bs, n, log, clock)
<1> DEFINE t == Begun(s, clock)
<1>1. s \in Scans /\ s.i = 1 /\ s.keep = 0 /\ s.sum = 0
  BY DEF Knows, Idle
<1>2. t \in Scans /\ t.at = clock /\ t.i = 1 /\ t.keep = 0 /\ t.sum = 0
  BY <1>1 DEF Scans, Begun
<1> HIDE DEF t
<1>3. Knows("header", t, bs, n, log, clock)
  BY <1>2 DEF Knows, Stages
<1> QED
  BY <1>3 DEF t

\* The scan of an array of n batches.
Ranging(s, n) == [s EXCEPT !.n = n]

\* All of the slice is left before the first round.
LEMMA RoundsBegin ==
  ASSUME NEW s, NEW bs, NEW n, NEW log, NEW clock,
         Knows("header", s, bs, n, log, clock), IsArray(bs, n)
  PROVE  Knows("scan", Ranging(s, n), bs, n, log, clock)
<1> DEFINE t == Ranging(s, n)
<1>1. s \in Scans /\ s.i = 1 /\ s.keep = 0 /\ s.sum = 0 /\ n \in Nat
  BY DEF Knows, IsArray
<1>2. t \in Scans /\ t.at = s.at /\ t.i = 1 /\ t.keep = 0 /\ t.sum = 0 /\ t.n = n
  BY <1>1 DEF Scans, Ranging
<1>3. s.at - Second \in Int
  BY <1>1, TimeAssumption DEF Scans
<1>4. Left(1, 0, n) = 1 .. n /\ RecentAt(bs, 1 .. 0, n, s.at - Second) = 0
  BY <1>3, FirstRound
<1>5. /\ s.at <= clock /\ NothingAfter(log, s.at)
      /\ Window(bs, 1 .. n, n, log, s.at - Second)
  BY DEF Knows, Idle
<1> HIDE DEF t
<1>6. InRounds(t, bs, n, log)
  BY <1>1, <1>2, <1>4, <1>5 DEF InRounds
<1>7. Knows("scan", t, bs, n, log, clock)
  BY <1>2, <1>5, <1>6 DEF Knows, Stages
<1> QED
  BY <1>7 DEF t

\* The scan after a round that keeps a batch, and after one that drops it.
AfterKeep(s, count) == [s EXCEPT !.i = @ + 1, !.keep = @ + 1, !.sum = @ + count]

AfterDrop(s) == [s EXCEPT !.i = @ + 1]

\* What the round does to the numbers of the scan.
LEMMA ScanAfterKeep ==
  ASSUME NEW s \in Scans, NEW count \in Nat
  PROVE  LET t == AfterKeep(s, count) IN
           /\ t \in Scans /\ t.n = s.n /\ t.at = s.at
           /\ t.i = s.i + 1 /\ t.keep = s.keep + 1 /\ t.sum = s.sum + count
<1> DEFINE t == AfterKeep(s, count)
<1>1. /\ s.at \in Nat /\ s.n \in Nat /\ s.i + 1 \in Nat /\ s.keep + 1 \in Nat
      /\ s.sum + count \in Nat
  BY DEF Scans
<1>2. PICK i \in Nat, keep \in Nat, sum \in Nat :
        i = s.i + 1 /\ keep = s.keep + 1 /\ sum = s.sum + count
  BY <1>1
<1>3. t = [s EXCEPT !.i = i, !.keep = keep, !.sum = sum]
  BY <1>2 DEF AfterKeep
<1>4. t \in Scans
  BY <1>3 DEF Scans
<1>5. /\ t.n = s.n /\ t.at = s.at
      /\ t.i = i /\ t.keep = keep /\ t.sum = sum
  BY <1>3 DEF Scans
<1> QED
  BY <1>2, <1>4, <1>5

\* A count in its rounds, by its numbers.
LEMMA RoundNumbers ==
  ASSUME NEW s, NEW bs, NEW n, NEW log, NEW clock,
         Knows("scan", s, bs, n, log, clock), IsArray(bs, n)
  PROVE  /\ n \in Nat /\ s.at \in Nat /\ s.i \in Nat /\ s.keep \in Nat /\ s.sum \in Nat
         /\ s \in Scans /\ s.n = n /\ s.keep < s.i /\ s.i <= n + 1
         /\ s.at - Second \in Int
         /\ s.at <= clock /\ NothingAfter(log, s.at) /\ InRounds(s, bs, n, log)
<1>1. /\ s \in Scans /\ InRounds(s, bs, n, log) /\ n \in Nat
      /\ s.at <= clock /\ NothingAfter(log, s.at)
  BY DEF Knows, Idle, IsArray
<1>2. s.at \in Nat /\ s.i \in Nat /\ s.keep \in Nat /\ s.sum \in Nat
  BY <1>1 DEF Scans
<1>3. s.at - Second \in Int
  BY <1>2, TimeAssumption
<1> QED
  BY <1>1, <1>2, <1>3 DEF InRounds

\* A batch of the second before is kept, and counted.
LEMMA RoundKeeps ==
  ASSUME NEW s, NEW bs, NEW n, NEW log, NEW clock,
         Knows("scan", s, bs, n, log, clock), IsArray(bs, n),
         s.i <= n, InLastSecond(bs[s.i], s.at)
  PROVE  /\ s.keep < n
         /\ IsArray(Kept(bs, s.i, s.keep), n)
         /\ Knows("scan", AfterKeep(s, bs[s.i].count), Kept(bs, s.i, s.keep), n, log, clock)
<1> DEFINE since == s.at - Second
           bs2 == Kept(bs, s.i, s.keep)
           t == AfterKeep(s, bs[s.i].count)
<1>1. /\ n \in Nat /\ s.at \in Nat /\ s.i \in Nat /\ s.keep \in Nat /\ s.sum \in Nat
      /\ s \in Scans /\ s.n = n /\ s.keep < s.i /\ s.i <= n + 1
      /\ since \in Int
      /\ s.at <= clock /\ NothingAfter(log, s.at) /\ InRounds(s, bs, n, log)
  BY RoundNumbers
<1>2. s.i \in 1 .. n /\ s.keep < n
  BY <1>1
<1>3. bs[s.i] \in Batches /\ bs[s.i].count \in Nat
  <2>1. since \in Int
    BY <1>1
  <2>2. bs[s.i] \in Batches
    BY <1>2, <2>1, WeightsOfArray
  <2> QED
    BY <2>2 DEF Batches
<1>4. IsArray(bs2, n)
  BY <1>1, <1>2, KeptArray
<1>5. CountAfter(since)[bs[s.i]] = bs[s.i].count
  BY <1>1, <1>3, CountsAreWeights DEF InLastSecond
<1>6. \A time \in Int :
        RecentAt(bs2, Left(s.i + 1, s.keep + 1, n), n, time)
          = RecentAt(bs, Left(s.i, s.keep, n), n, time)
  BY <1>1, <1>2, KeepRound
<1>7. RecentAt(bs2, 1 .. s.keep + 1, n, since)
        = RecentAt(bs, 1 .. s.keep, n, since) + CountAfter(since)[bs[s.i]]
  BY <1>1, <1>2, KeepRound
<1>8. /\ t \in Scans /\ t.n = n /\ t.at = s.at
      /\ t.i = s.i + 1 /\ t.keep = s.keep + 1 /\ t.sum = s.sum + bs[s.i].count
  BY <1>1, <1>3, ScanAfterKeep
<1>9. /\ Window(bs, Left(s.i, s.keep, n), n, log, since)
      /\ s.sum = RecentAt(bs, 1 .. s.keep, n, since)
  BY <1>1 DEF InRounds
<1> HIDE DEF bs2
<1>10. Window(bs2, Left(s.i + 1, s.keep + 1, n), n, log, since)
  BY <1>6, <1>9 DEF Window
<1>11. s.sum + bs[s.i].count = RecentAt(bs2, 1 .. s.keep + 1, n, since)
  BY <1>5, <1>7, <1>9
<1> HIDE DEF t
<1>12. t.keep < t.i /\ t.i <= n + 1
  BY <1>1, <1>2, <1>8
<1>13. InRounds(t, bs2, n, log)
  BY <1>8, <1>10, <1>11, <1>12 DEF InRounds
<1>14. Knows("scan", t, bs2, n, log, clock)
  BY <1>1, <1>8, <1>13 DEF Knows, Stages, Idle
<1> QED
  BY <1>2, <1>4, <1>14 DEF t, bs2

\* An older batch is dropped, and is missed by nobody.
LEMMA RoundDrops ==
  ASSUME NEW s, NEW bs, NEW n, NEW log, NEW clock,
         Knows("scan", s, bs, n, log, clock), IsArray(bs, n),
         s.i <= n, ~ InLastSecond(bs[s.i], s.at)
  PROVE  Knows("scan", AfterDrop(s), bs, n, log, clock)
<1> DEFINE since == s.at - Second
           t == AfterDrop(s)
<1>1. /\ n \in Nat /\ s.at \in Nat /\ s.i \in Nat /\ s.keep \in Nat /\ s.sum \in Nat
      /\ s \in Scans /\ s.n = n /\ s.keep < s.i /\ s.i <= n + 1
      /\ since \in Int
      /\ s.at <= clock /\ NothingAfter(log, s.at) /\ InRounds(s, bs, n, log)
  BY RoundNumbers
<1>2. s.i \in 1 .. n
  BY <1>1
<1>3. bs[s.i].timestamp \in Int
  <2>1. bs[s.i] \in Batches
    BY <1>1, <1>2, WeightsOfArray
  <2> QED
    BY <2>1, TimeAssumption DEF Batches, Times
<1>4. ASSUME NEW time \in Int, time >= since PROVE ~ (bs[s.i].timestamp > time)
  <2>1. ~ (bs[s.i].timestamp > since)
    BY DEF InLastSecond
  <2> HIDE DEF since
  <2> QED
    BY <1>1, <1>3, <1>4, <2>1
<1>5. \A time \in Int : time >= since =>
        RecentAt(bs, Left(s.i + 1, s.keep, n), n, time)
          = RecentAt(bs, Left(s.i, s.keep, n), n, time)
  BY <1>1, <1>2, <1>4, DropRound
<1>6. /\ t \in Scans /\ t.n = n /\ t.at = s.at
      /\ t.i = s.i + 1 /\ t.keep = s.keep /\ t.sum = s.sum
  BY <1>1 DEF AfterDrop, Scans
<1>7. /\ Window(bs, Left(s.i, s.keep, n), n, log, since)
      /\ s.sum = RecentAt(bs, 1 .. s.keep, n, since)
  BY <1>1 DEF InRounds
<1>8. Window(bs, Left(s.i + 1, s.keep, n), n, log, since)
  BY <1>5, <1>7 DEF Window
<1> HIDE DEF t
<1>9. t.keep < t.i /\ t.i <= n + 1
  BY <1>1, <1>2, <1>6
<1>10. InRounds(t, bs, n, log)
  BY <1>6, <1>7, <1>8, <1>9 DEF InRounds
<1>11. Knows("scan", t, bs, n, log, clock)
  BY <1>1, <1>6, <1>10 DEF Knows, Stages, Idle
<1> QED
  BY <1>11 DEF t

\* At the end, the slice has what was kept, and the sum is what was logged.
LEMMA RoundsEnd ==
  ASSUME NEW s, NEW bs, NEW n, NEW log, NEW clock,
         Knows("scan", s, bs, n, log, clock), IsArray(bs, n), s.i > n
  PROVE  /\ IsArray(bs, s.keep)
         /\ Window(bs, 1 .. s.keep, s.keep, log, s.at - Second)
         /\ s.sum = LoggedAfter(log, s.at - Second)
<1> DEFINE since == s.at - Second
<1>1. /\ n \in Nat /\ s.at \in Nat /\ s.i \in Nat /\ s.keep \in Nat /\ s.sum \in Nat
      /\ s.n = n /\ s.keep < s.i /\ s.i <= n + 1
      /\ since \in Int /\ InRounds(s, bs, n, log)
  BY RoundNumbers
<1>2. s.i = n + 1 /\ s.keep <= n
  BY <1>1
<1>3. Left(n + 1, s.keep, n) = 1 .. s.keep
  BY <1>1, <1>2, LastRound
<1>4. \A time \in Int :
        RecentAt(bs, 1 .. s.keep, s.keep, time) = RecentAt(bs, 1 .. s.keep, n, time)
  BY <1>1, <1>2, LastRound
<1>5. /\ Window(bs, 1 .. s.keep, n, log, since)
      /\ s.sum = RecentAt(bs, 1 .. s.keep, n, since)
  BY <1>1, <1>2, <1>3 DEF InRounds
<1>6. Window(bs, 1 .. s.keep, s.keep, log, since)
  BY <1>4, <1>5 DEF Window
<1>7. s.sum = LoggedAfter(log, since)
  <2>1. since >= since
    BY <1>1
  <2> HIDE DEF since
  <2> QED
    BY <1>1, <1>5, <2>1 DEF Window
<1>8. IsArray(bs, s.keep)
  BY <1>1, <1>2 DEF IsArray
<1> QED
  BY <1>6, <1>7, <1>8

-----------------------------------------------------------------------------
(* The invariant of the window.                                            *)

WindowTypes ==
  /\ IsArray(batches, used)
  /\ scheduled \in Nat
  /\ logged \in [Times -> Nat]
  /\ reader \in [Readers -> Stages]
  /\ scan \in [Readers -> Scans]

\* Stop renders after the scheduler, and not beside loop().
OneReader ==
  /\ ~ (Rendering("loop") /\ Rendering("main"))
  /\ Rendering("main") => pc = "stopped"

\* Between the renderings, the slice has what was logged within the last
\* second: what a prune by an earlier time leaves too many is older.
RestWindow ==
  ~ Rendering("loop") /\ ~ Rendering("main") =>
    Window(batches, 1 .. used, used, logged, now - Second)

KnowsNow(g) == Knows(reader[g], scan[g], batches, used, logged, now)

LoneWindow ==
  /\ WindowTypes
  /\ NothingAfter(logged, now)
  /\ OneReader
  /\ RestWindow
  /\ \A g \in Readers : KnowsNow(g)

WindowInv == ~ raced => LoneWindow

\* The other goroutine.
Other(g) == IF g = "loop" THEN "main" ELSE "loop"

\* The slice of a whole list of batches has what the list has.
LEMMA WholeSlice ==
  ASSUME NEW bs \in Seq(Batches), NEW time \in Int
  PROVE  /\ IsArray(bs, Len(bs))
         /\ RecentAt(bs, 1 .. Len(bs), Len(bs), time) = Recent(bs, time)
<1> DEFINE n == Len(bs)
           f == WeightsAt(bs, 1 .. n, n, time)
           g == [k \in 1 .. n |-> CountAfter(time)[bs[k]]]
<1>1. n \in Nat /\ IsArray(bs, n)
  BY DEF IsArray
<1>2. \A k \in 1 .. n : f[k] = g[k]
  BY DEF WeightsAt
<1>3. Recent(bs, time) = Total(g, n)
  BY DEF Recent, TotalWeight
<1> HIDE DEF f, g
<1>4. Total(f, n) = Total(g, n)
  BY <1>1, <1>2, TotalSame
<1> QED
  BY <1>1, <1>3, <1>4 DEF RecentAt, f

\* So has the list of what a slice of an array has.
LEMMA ListOfSlice ==
  ASSUME NEW bs, NEW n, IsArray(bs, n), NEW time \in Int
  PROVE  /\ SubSeq(bs, 1, n) \in Seq(Batches)
         /\ Recent(SubSeq(bs, 1, n), time) = RecentAt(bs, 1 .. n, n, time)
<1> DEFINE list == SubSeq(bs, 1, n)
           f == WeightsAt(bs, 1 .. n, n, time)
           g == WeightsAt(list, 1 .. n, n, time)
<1>1. bs \in Seq(Batches) /\ n \in Nat /\ n <= Len(bs)
  BY DEF IsArray
<1>2. list \in Seq(Batches) /\ Len(list) = n /\ \A k \in 1 .. n : list[k] = bs[k]
  <2>1. Len(list) = n /\ \A k \in 1 .. n : list[k] = bs[k]
    BY <1>1
  <2>2. list \in Seq(Batches)
    BY <1>1
  <2> QED
    BY <2>1, <2>2
<1>3. \A k \in 1 .. n : f[k] = g[k]
  BY <1>2 DEF WeightsAt
<1> HIDE DEF f, g, list
<1>4. Total(f, n) = Total(g, n)
  BY <1>1, <1>3, TotalSame
<1>5. Recent(list, time) = RecentAt(list, 1 .. n, n, time)
  BY <1>2, WholeSlice
<1> QED
  BY <1>2, <1>4, <1>5 DEF RecentAt, f, g, list

\* To prune by a time leaves the batches of the second before it.
LEMMA PruneKeeps ==
  ASSUME NEW bs \in Seq(Batches), NEW prunedAt \in Int, NEW time \in Int,
         time >= prunedAt - Second
  PROVE  /\ Pruned(bs, prunedAt) \in Seq(Batches)
         /\ Recent(Pruned(bs, prunedAt), time) = Recent(bs, time)
<1> DEFINE n == Len(bs)
           kept == {k \in DOMAIN bs : InLastSecond(bs[k], prunedAt)}
           f == ChosenWeights(bs, kept, CountAfter(time))
           g == [k \in 1 .. n |-> CountAfter(time)[bs[k]]]
<1>1. n \in Nat /\ DOMAIN bs = 1 .. n /\ \A k \in 1 .. n : bs[k] \in Batches
  OBVIOUS
<1>2. Pruned(bs, prunedAt) = Chosen(bs, kept)
  BY DEF Pruned
<1>3. CountAfter(time) \in [Batches -> Nat]
  BY CountsAreWeights
<1>4. Recent(Pruned(bs, prunedAt), time) = Total(f, n)
  <2> HIDE DEF kept
  <2>1. TotalWeight(Chosen(bs, kept), CountAfter(time)) = Total(f, n)
    BY <1>3, TotalOfChosen
  <2> QED
    BY <1>2, <2>1 DEF Recent
<1>5. Recent(bs, time) = Total(g, n)
  BY DEF Recent, TotalWeight
<1>6. ASSUME NEW k \in 1 .. n PROVE f[k] = g[k]
  <2>0. f[k] = IF k \in kept THEN CountAfter(time)[bs[k]] ELSE 0
    <3> HIDE DEF kept
    <3> QED
      BY DEF ChosenWeights
  <2>1. CASE k \in kept
    <3> HIDE DEF kept, f
    <3> QED
      BY <2>0, <2>1
  <2>2. CASE k \notin kept
    <3>1. bs[k] \in Batches /\ ~ (bs[k].timestamp > prunedAt - Second)
      BY <1>1, <2>2 DEF InLastSecond
    <3>2. PICK stamp \in Int, second \in Nat :
            stamp = bs[k].timestamp /\ second = Second
      BY <3>1, TimeAssumption DEF Batches, Times
    <3>3. ~ (stamp > time)
      BY <3>1, <3>2
    <3>4. CountAfter(time)[bs[k]] = 0
      BY <3>1, <3>2, <3>3, CountsAreWeights
    <3> HIDE DEF kept, f
    <3> QED
      BY <2>0, <2>2, <3>4
  <2> QED
    BY <2>1, <2>2
<1>7. Total(f, n) = Total(g, n)
  <2> HIDE DEF f, g, n
  <2> QED
    BY <1>1, <1>6, TotalSame
<1>8. Pruned(bs, prunedAt) \in Seq(Batches)
  <2> HIDE DEF kept
  <2> QED
    BY <1>1, <1>2, ChosenType
<1> QED
  BY <1>4, <1>5, <1>7, <1>8

\* A batch of a time, and a log with more requests of that time.
BatchOf(stamp, count) == [timestamp |-> stamp, count |-> count]

WithLogged(log, stamp, count) == [log EXCEPT ![stamp] = @ + count]

\* The last batch that is logged counts as what is logged with its time.
LEMMA OneMoreBatch ==
  ASSUME NEW bs \in Seq(Batches), NEW log \in [Times -> Nat],
         NEW stamp \in Times, NEW count \in Nat, NEW time \in Int,
         Recent(bs, time) = LoggedAfter(log, time)
  PROVE  Recent(Append(bs, BatchOf(stamp, count)), time) =
           LoggedAfter(WithLogged(log, stamp, count), time)
<1> DEFINE batch == BatchOf(stamp, count)
           n == MaxTime + 1
           more == WithLogged(log, stamp, count)
           f == LoggedAt(log, time)
           g == LoggedAt(more, time)
           d == IF stamp > time THEN count ELSE 0
           j == stamp + 1
<1>1. n \in Nat /\ stamp \in Int /\ j \in 1 .. n /\ \A k \in 1 .. n : k - 1 \in Times
  BY TimeAssumption DEF Times
<1>2. batch \in Batches /\ batch.timestamp = stamp /\ batch.count = count
  BY DEF Batches, BatchOf
<1>3. Recent(Append(bs, batch), time) = Recent(bs, time) + d
  <2>1. CountAfter(time)[batch] = d
    BY <1>2, CountsAreWeights
  <2> HIDE DEF batch, d
  <2> QED
    BY <1>2, <2>1, TotalOfAppend DEF Recent
<1>4. d \in Nat
  OBVIOUS
<1>5. ASSUME NEW k \in 1 .. n
      PROVE  f[k] \in Nat /\ g[k] = IF k = j THEN f[k] + d ELSE f[k]
  <2>1. k - 1 \in Times /\ log[k - 1] \in Nat /\ (k = j <=> k - 1 = stamp)
    BY <1>1
  <2>2. more[k - 1] = IF k - 1 = stamp THEN log[k - 1] + count ELSE log[k - 1]
    BY <2>1 DEF WithLogged
  <2> HIDE DEF more
  <2>3. /\ f[k] = IF k - 1 > time THEN log[k - 1] ELSE 0
        /\ g[k] = IF k - 1 > time THEN more[k - 1] ELSE 0
    BY DEF LoggedAt
  <2> QED
    BY <2>1, <2>2, <2>3
<1>6. Total(g, n) = Total(f, n) + d
  <2>1. LargerAt(j, d, f, g, n)
    BY <1>5 DEF LargerAt
  <2> HIDE DEF f, g, d, n, j
  <2> QED
    BY <1>1, <1>4, <2>1, TotalOneLarger
<1> QED
  BY <1>3, <1>6 DEF LoggedAfter

-----------------------------------------------------------------------------
(* The steps of the model.                                                 *)

\* The window holds at first.
LEMMA InitWindow == Init => WindowInv
<1> SUFFICES ASSUME Init PROVE LoneWindow
  BY DEF WindowInv
<1>1. <<>> \in Seq(Batches) /\ Len(<<>>) = 0
  OBVIOUS
<1>2. IsArray(batches, used)
  <2>1. IsArray(<<>>, 0)
    BY <1>1 DEF IsArray
  <2> QED
    BY <2>1 DEF Init
<1>3. \A g \in Readers : reader[g] = "away" /\ scan[g] = NoScan
  BY DEF Init
<1>4. NoScan \in Scans /\ NoScan.i = 1 /\ NoScan.keep = 0 /\ NoScan.sum = 0
  BY DEF NoScan, Scans
<1>5. WindowTypes
  <2>1. reader \in [Readers -> Stages] /\ scan \in [Readers -> Scans]
    BY <1>4 DEF Init, Stages
  <2>2. scheduled \in Nat /\ logged \in [Times -> Nat]
    BY DEF Init
  <2> QED
    BY <1>2, <2>1, <2>2 DEF WindowTypes
<1>6. OneReader /\ \A g \in Readers : KnowsNow(g)
  <2>1. \A g \in Readers : KnowsNow(g)
    BY <1>3, <1>4 DEF KnowsNow, Knows, Idle, Stages
  <2> QED
    BY <1>3, <2>1 DEF OneReader, Rendering, Readers
<1>7. NothingAfter(logged, now)
  BY DEF Init, NothingAfter
<1>8. ASSUME NEW time \in Int
      PROVE  RecentAt(batches, 1 .. used, used, time) = 0 /\ LoggedAfter(logged, time) = 0
  <2>1. RecentAt(<<>>, 1 .. 0, 0, time) = 0
    BY TotalStep DEF RecentAt
  <2>2. MaxTime + 1 \in Nat /\ \A k \in 1 .. MaxTime + 1 : k - 1 \in Times
    BY TimeAssumption DEF Times
  <2>3. \A k \in 1 .. MaxTime + 1 : LoggedAt(logged, time)[k] = 0
    BY <2>2 DEF LoggedAt, Init
  <2>4. LoggedAfter(logged, time) = 0
    BY <2>2, <2>3, TotalOfZeros DEF LoggedAfter
  <2> QED
    BY <2>1, <2>4 DEF Init
<1>9. RestWindow
  BY <1>8 DEF RestWindow, Window
<1> QED
  BY <1>5, <1>6, <1>7, <1>9 DEF LoneWindow

\* Two renderings that have overlapped have done so for good.
LEMMA RacedForGood ==
  ASSUME [Next]_vars, raced
  PROVE  raced'
<1>1. CASE StopWithBar \/ StartRedraw
  BY <1>1, Zenon DEF StopWithBar, StartRedraw, StartCount
<1>2. CASE StopWithoutBar \/ Terminated \/ UNCHANGED vars
  BY <1>2 DEF StopWithoutBar, Terminated, vars, readerVars
<1>3. CASE \E g \in Readers : CountStep(g)
  BY <1>3 DEF CountStep, ReadHeader, KeepBatch, DropBatch, IndexOutOfRange, EndCount
<1>4. CASE PassTime \/ Refill \/ Snapshot \/ TakeToken
  BY <1>4 DEF PassTime, Refill, Snapshot, TakeToken, readerVars
<1>5. CASE Launch \/ NoFreeSlot \/ LogRequests \/ NothingToLog
  BY <1>5 DEF Launch, NoFreeSlot, LogRequests, NothingToLog, readerVars
<1> QED
  BY <1>1, <1>2, <1>3, <1>4, <1>5 DEF Next

\* What one goroutine does while the other does not render.
LoneStep(g, h) ==
  /\ UNCHANGED <<now, scheduled, logged>>
  /\ Idle(reader[h]) /\ Idle(reader'[h]) /\ scan'[h] = scan[h]
  /\ Knows(reader'[g], scan'[g], batches', used', logged, now)
  /\ g = "main" /\ ~ Idle(reader'[g]) => pc' = "stopped"
  /\ Idle(reader'[g]) => Window(batches', 1 .. used', used', logged, now - Second)

\* It keeps the window.
LEMMA LoneStepKeeps ==
  ASSUME LoneWindow, WindowTypes', NEW g \in Readers, LoneStep(g, Other(g))
  PROVE  LoneWindow'
<1> DEFINE h == Other(g)
<1>1. h \in Readers /\ h # g /\ \A k \in Readers : k = g \/ k = h
  BY DEF Readers, Other
<1>2. reader'[h] \in Stages
  BY <1>1 DEF WindowTypes
<1>3. Knows(reader[h], scan[h], batches, used, logged, now)
  BY <1>1 DEF LoneWindow, KnowsNow
<1>4. /\ now' = now /\ scheduled' = scheduled /\ logged' = logged
      /\ Idle(reader[h]) /\ Idle(reader'[h]) /\ scan'[h] = scan[h]
      /\ Knows(reader'[g], scan'[g], batches', used', logged, now)
      /\ g = "main" /\ ~ Idle(reader'[g]) => pc' = "stopped"
      /\ Idle(reader'[g]) => Window(batches', 1 .. used', used', logged, now - Second)
  BY DEF LoneStep
<1> HIDE DEF h
<1>5. Knows(reader'[h], scan'[h], batches', used', logged', now')
  <2>1. PICK r, bs, n : r = reader'[h] /\ bs = batches' /\ n = used'
    OBVIOUS
  <2>2. Knows(r, scan[h], bs, n, logged, now)
    BY <1>2, <1>3, <1>4, <2>1, IdleKnows
  <2> QED
    BY <1>4, <2>1, <2>2
<1>6. \A k \in Readers : KnowsNow(k)'
  BY <1>1, <1>4, <1>5 DEF KnowsNow
<1>7. \A k \in Readers : Rendering(k)' <=> ~ Idle(reader'[k])
  BY DEF Rendering, Idle
<1>8. "loop" \in Readers /\ "main" \in Readers
  BY DEF Readers
<1>9. OneReader'
  BY <1>1, <1>4, <1>7, <1>8 DEF OneReader
<1>10. RestWindow'
  BY <1>1, <1>4, <1>7, <1>8 DEF RestWindow
<1>11. NothingAfter(logged, now)'
  BY <1>4 DEF LoneWindow
<1> QED
  BY <1>6, <1>9, <1>10, <1>11 DEF LoneWindow

\* Nothing of the window moves.
Quiet ==
  /\ UNCHANGED <<now, batches, used, logged, scan>>
  /\ scheduled' \in Nat
  /\ \A g \in Readers : reader'[g] = reader[g] \/ (Idle(reader[g]) /\ Idle(reader'[g]))
  /\ reader' \in [Readers -> Stages]
  /\ pc = "stopped" => pc' = "stopped"

\* The window stays as it is.
LEMMA QuietKeeps ==
  ASSUME LoneWindow, Quiet
  PROVE  LoneWindow'
<1>1. /\ now' = now /\ batches' = batches /\ used' = used
      /\ logged' = logged /\ scan' = scan
      /\ scheduled' \in Nat /\ reader' \in [Readers -> Stages]
      /\ pc = "stopped" => pc' = "stopped"
  BY DEF Quiet
<1>2. ASSUME NEW g \in Readers
      PROVE  Knows(reader'[g], scan[g], batches, used, logged, now)
             /\ (Idle(reader'[g]) <=> Idle(reader[g]))
  <2>1. Knows(reader[g], scan[g], batches, used, logged, now)
    BY DEF LoneWindow, KnowsNow
  <2>2. CASE reader'[g] = reader[g]
    BY <2>1, <2>2
  <2>3. CASE Idle(reader[g]) /\ Idle(reader'[g])
    <3>1. PICK r \in Stages : r = reader'[g]
      BY <1>1
    <3>2. Knows(r, scan[g], batches, used, logged, now)
      BY <2>1, <2>3, <3>1, IdleKnows
    <3> QED
      BY <2>3, <3>1, <3>2
  <2> QED
    BY <2>2, <2>3 DEF Quiet
<1>3. \A g \in Readers : KnowsNow(g)'
  BY <1>1, <1>2 DEF KnowsNow
<1>4. \A g \in Readers : Rendering(g)' <=> Rendering(g)
  BY <1>2 DEF Rendering, Idle
<1>5. "loop" \in Readers /\ "main" \in Readers
  BY DEF Readers
<1>6. OneReader' /\ RestWindow'
  BY <1>1, <1>4, <1>5 DEF LoneWindow, OneReader, RestWindow
<1>7. WindowTypes' /\ NothingAfter(logged, now)'
  BY <1>1 DEF LoneWindow, WindowTypes
<1> QED
  BY <1>3, <1>6, <1>7 DEF LoneWindow

\* Only what is older leaves the window with time.
LEMMA PassTimeKeeps ==
  ASSUME RateTypes, LoneWindow, PassTime
  PROVE  LoneWindow'
<1>1. PICK time \in Nat, later \in Nat, second \in Nat :
        time = now /\ later = now' /\ later = time + 1 /\ second = Second
  BY TimeAssumption DEF RateTypes, Times, PassTime
<1>2. UNCHANGED <<batches, used, logged, scan, reader, scheduled, pc>>
  BY DEF PassTime, loggerVars, readerVars, iteration
<1>3. \A g \in Readers : KnowsNow(g)'
  <2> TAKE g \in Readers
  <2>1. Knows(reader[g], scan[g], batches, used, logged, time)
    BY <1>1 DEF LoneWindow, KnowsNow
  <2>2. Knows(reader[g], scan[g], batches, used, logged, later)
    BY <1>1, <2>1, KnowsLater
  <2> QED
    BY <1>1, <1>2, <2>2 DEF KnowsNow
<1>4. NothingAfter(logged, later)
  <2>1. \A t \in Times : t > later => t > time
    BY <1>1 DEF Times
  <2> QED
    BY <1>1, <2>1 DEF LoneWindow, NothingAfter
<1>5. RestWindow'
  <2>1. \A t \in Int : t >= later - second => t >= time - second
    BY <1>1
  <2>2. Window(batches, 1 .. used, used, logged, time - second)
          => Window(batches, 1 .. used, used, logged, later - second)
    BY <2>1 DEF Window
  <2>3. Rendering("loop")' <=> Rendering("loop")
    BY <1>2 DEF Rendering
  <2>4. Rendering("main")' <=> Rendering("main")
    BY <1>2 DEF Rendering
  <2> QED
    BY <1>1, <1>2, <2>2, <2>3, <2>4 DEF LoneWindow, RestWindow
<1>6. OneReader'
  BY <1>2 DEF LoneWindow, OneReader, Rendering
<1>7. WindowTypes'
  BY <1>2 DEF LoneWindow, WindowTypes
<1> QED
  BY <1>1, <1>2, <1>3, <1>4, <1>5, <1>6, <1>7 DEF LoneWindow

\* The scheduler logs while nobody renders: loop() does not hold the mutex, and
\* Stop has not been called.
LEMMA LogKeeps ==
  ASSUME RateTypes, LoneWindow, LogRequests
  PROVE  LoneWindow'
<1>1. PICK time \in Nat, second \in Nat, batchedAt \in Times :
        /\ time = now /\ second = Second /\ batchedAt = batchTime
        /\ batchedAt \in Nat /\ batchedAt <= time
  BY TimeAssumption DEF RateTypes, Times
<1> DEFINE list == SubSeq(batches, 1, used)
           longer == Append(list, BatchOf(batchedAt, scheduled))
           left == Pruned(longer, batchedAt)
           more == WithLogged(logged, batchedAt, scheduled)
<1>2. /\ IsArray(batches, used) /\ scheduled \in Nat /\ logged \in [Times -> Nat]
  BY DEF LoneWindow, WindowTypes
<1>3. /\ batches' = left /\ used' = Len(left) /\ logged' = more
      /\ scheduled' = 0 /\ now' = time
      /\ reader' = reader /\ scan' = scan
  <2>1. batches' = Pruned(Append(list, Batch(scheduled)), batchTime)
    BY DEF LogRequests
  <2>2. Batch(scheduled) = BatchOf(batchedAt, scheduled)
    BY <1>1 DEF Batch, BatchOf
  <2>3. used' = Len(batches') /\ logged' = [logged EXCEPT ![batchTime] = @ + scheduled]
    BY DEF LogRequests
  <2>4. scheduled' = 0 /\ now' = now /\ reader' = reader /\ scan' = scan
    BY DEF LogRequests, readerVars
  <2> HIDE DEF list
  <2> QED
    BY <1>1, <2>1, <2>2, <2>3, <2>4 DEF WithLogged
<1>4. ~ Rendering("loop") /\ ~ Rendering("main")
  <2>1. ~ Rendering("loop")
    BY DEF LogRequests, MutexFree, Rendering
  <2>2. ~ Rendering("main")
    BY DEF LogRequests, LoneWindow, OneReader
  <2> QED
    BY <2>1, <2>2
<1>5. Window(batches, 1 .. used, used, logged, time - second)
  BY <1>1, <1>4 DEF LoneWindow, RestWindow
<1>6. list \in Seq(Batches) /\ BatchOf(batchedAt, scheduled) \in Batches
  <2>1. list \in Seq(Batches)
    BY <1>2, ListOfSlice, 0 \in Int
  <2> QED
    BY <1>1, <1>2, <2>1 DEF Batches, BatchOf
<1>7. longer \in Seq(Batches)
  <2> HIDE DEF list
  <2> QED
    BY <1>6
<1>8. batchedAt \in Int /\ \A t \in Int : t >= time - second => t >= batchedAt - Second
  BY <1>1
<1>9. left \in Seq(Batches)
  <2>1. batchedAt - Second \in Int /\ batchedAt - Second >= batchedAt - Second
    BY <1>1
  <2> HIDE DEF longer
  <2> QED
    BY <1>7, <1>8, <2>1, PruneKeeps
<1>10. ASSUME NEW t \in Int, t >= time - second
       PROVE  RecentAt(left, 1 .. Len(left), Len(left), t) = LoggedAfter(more, t)
  <2>1. Recent(list, t) = LoggedAfter(logged, t)
    <3>1. Recent(list, t) = RecentAt(batches, 1 .. used, used, t)
      BY <1>2, ListOfSlice
    <3> HIDE DEF list
    <3> QED
      BY <1>5, <1>10, <3>1 DEF Window
  <2>2. Recent(longer, t) = LoggedAfter(more, t)
    <3> HIDE DEF list
    <3> QED
      BY <1>2, <1>6, <2>1, OneMoreBatch
  <2>3. t >= batchedAt - Second
    BY <1>8, <1>10
  <2> HIDE DEF longer
  <2>4. Recent(left, t) = Recent(longer, t)
    BY <1>7, <1>8, <2>3, PruneKeeps
  <2> HIDE DEF left
  <2>5. RecentAt(left, 1 .. Len(left), Len(left), t) = Recent(left, t)
    BY <1>9, WholeSlice
  <2> QED
    BY <2>2, <2>4, <2>5
<1>11. more \in [Times -> Nat] /\ NothingAfter(more, time)
  <2>1. more \in [Times -> Nat]
    BY <1>1, <1>2 DEF WithLogged
  <2>2. \A t \in Times : t > time => t # batchedAt
    BY <1>1 DEF Times
  <2> QED
    BY <1>1, <1>2, <2>1, <2>2 DEF LoneWindow, NothingAfter, WithLogged
<1> HIDE DEF left, more
<1>12. IsArray(left, Len(left))
  BY <1>9, WholeSlice, 0 \in Int
<1>13. WindowTypes'
  BY <1>3, <1>11, <1>12 DEF LoneWindow, WindowTypes
<1>14. RestWindow'
  <2>1. Window(left, 1 .. Len(left), Len(left), more, time - second)
    BY <1>10 DEF Window
  <2> QED
    BY <1>1, <1>3, <2>1 DEF RestWindow
<1>15. ASSUME NEW g \in Readers PROVE KnowsNow(g)'
  <2>1. Idle(reader[g]) /\ reader[g] \in Stages
    BY <1>4 DEF Rendering, Idle, Readers, LoneWindow, WindowTypes
  <2>2. Knows(reader[g], scan[g], batches, used, logged, now)
    BY DEF LoneWindow, KnowsNow
  <2>3. Knows(reader[g], scan[g], left, Len(left), more, time)
    BY <2>1, <2>2, IdleKnows
  <2> QED
    BY <1>3, <2>3 DEF KnowsNow
<1>16. OneReader'
  BY <1>3, <1>4 DEF OneReader, Rendering
<1>17. NothingAfter(logged, now)'
  BY <1>3, <1>11
<1> QED
  BY <1>13, <1>14, <1>15, <1>16, <1>17 DEF LoneWindow

\* A rendering begins beside no other.
LEMMA BeginKeeps ==
  ASSUME RateTypes, LoneWindow, StartRedraw \/ StopWithBar, ~ raced'
  PROVE  LoneWindow'
<1> DEFINE g == IF StartRedraw THEN "loop" ELSE "main"
           h == Other(g)
<1>1. g \in Readers /\ h \in Readers /\ h # g
  BY DEF Readers, Other
<1>2. /\ StartCount(g)
      /\ UNCHANGED <<now, scheduled, batches, used, logged>>
      /\ reader'[g] = "header" /\ reader' \in [Readers -> Stages]
      /\ reader'[h] = reader[h] \/ (reader[h] = "away" /\ reader'[h] = "called")
      /\ Idle(reader[g])
      /\ g = "main" => pc' = "stopped"
  <2>1. reader \in [Readers -> Stages]
    BY DEF LoneWindow, WindowTypes
  <2>2. CASE StartRedraw
    <3>1. /\ StartCount("loop") /\ UNCHANGED <<now, scheduled, batches, used, logged>>
          /\ reader' = [reader EXCEPT !["loop"] = "header"]
          /\ reader["loop"] \in {"away", "called"}
      BY <2>2 DEF StartRedraw, iteration, loggerVars
    <3> QED
      BY <2>1, <2>2, <3>1 DEF Readers, Other, Stages, Idle
  <2>3. CASE ~ StartRedraw
    <3>1. StopWithBar /\ g = "main" /\ h = "loop"
      BY <2>3 DEF Other
    <3>2. /\ StartCount("main") /\ UNCHANGED <<now, scheduled, batches, used, logged>>
          /\ pc = "snapshot" /\ pc' = "stopped"
      BY <3>1 DEF StopWithBar, Stop, loggerVars
    <3>3. PICK tick \in BOOLEAN :
            reader' = [loop |-> IF tick /\ reader["loop"] = "away" THEN "called"
                                                                 ELSE reader["loop"],
                       main |-> "header"]
      BY <3>1 DEF StopWithBar
    <3>4. /\ reader'["main"] = "header"
          /\ reader'["loop"] = reader["loop"]
               \/ (reader["loop"] = "away" /\ reader'["loop"] = "called")
      BY <3>3
    <3>5. reader' \in [Readers -> Stages]
      <4>1. DOMAIN reader' = Readers
        BY <3>3 DEF Readers
      <4>2. \A k \in Readers : reader'[k] \in Stages
        BY <2>1, <3>4 DEF Readers, Stages
      <4>3. reader' = [k \in DOMAIN reader' |-> reader'[k]]
        BY <3>3
      <4> QED
        BY <4>1, <4>2, <4>3
    <3>6. Idle(reader["main"])
      BY <3>2 DEF LoneWindow, OneReader, Rendering, Idle
    <3> QED
      BY <3>1, <3>2, <3>4, <3>5, <3>6
  <2> QED
    BY <2>2, <2>3
<1> HIDE DEF g
<1>3. Idle(reader[h]) /\ Idle(reader'[h])
  <2>1. ~ Rendering(h)
    BY <1>1, <1>2 DEF StartCount
  <2> QED
    BY <1>2, <2>1 DEF Rendering, Idle
<1>4. scan' = [scan EXCEPT ![g] = Begun(@, now)] /\ scan \in [Readers -> Scans]
  BY <1>2 DEF StartCount, Begun, LoneWindow, WindowTypes
<1>5. scan'[g] = Begun(scan[g], now) /\ scan'[h] = scan[h]
  BY <1>1, <1>4
<1>6. /\ now \in Nat
      /\ Knows(reader[g], scan[g], batches, used, logged, now)
      /\ NothingAfter(logged, now)
      /\ Window(batches, 1 .. used, used, logged, now - Second)
  <2>1. now \in Nat
    BY TimeAssumption DEF RateTypes, Times
  <2>2. ~ Rendering(g) /\ ~ Rendering(h)
    BY <1>2, <1>3 DEF Rendering, Idle
  <2>3. ~ Rendering("loop") /\ ~ Rendering("main")
    BY <1>1, <2>2 DEF Readers
  <2> QED
    BY <1>1, <2>1, <2>3 DEF LoneWindow, KnowsNow, RestWindow
<1>7. Knows("header", Begun(scan[g], now), batches, used, logged, now)
  BY <1>2, <1>6, CountBegins
<1>8. LoneStep(g, h)
  BY <1>2, <1>3, <1>5, <1>7 DEF LoneStep, Idle
<1>9. WindowTypes'
  <2>1. Begun(scan[g], now) \in Scans
    BY <1>7 DEF Knows
  <2>2. scan' \in [Readers -> Scans]
    BY <1>4, <2>1
  <2> QED
    BY <1>2, <2>2 DEF LoneWindow, WindowTypes
<1> QED
  BY <1>1, <1>8, <1>9, LoneStepKeeps

\* Who counts, counts alone.
LEMMA CountsAlone ==
  ASSUME LoneWindow, NEW g \in Readers, Rendering(g)
  PROVE  /\ Idle(reader[Other(g)])
         /\ Other(g) \in Readers /\ Other(g) # g
         /\ g = "main" => pc = "stopped"
         /\ Knows(reader[g], scan[g], batches, used, logged, now)
         /\ IsArray(batches, used)
         /\ scan \in [Readers -> Scans] /\ reader \in [Readers -> Stages]
<1>1. Other(g) \in Readers /\ Other(g) # g
  BY DEF Other, Readers
<1>2. ~ Rendering(Other(g))
  BY <1>1 DEF LoneWindow, OneReader, Readers
<1>3. g = "main" => pc = "stopped"
  BY DEF LoneWindow, OneReader
<1> QED
  BY <1>1, <1>2, <1>3 DEF LoneWindow, WindowTypes, KnowsNow, Rendering, Idle

\* No step of a count loses a request of the window.
LEMMA CountKeeps ==
  ASSUME RateTypes, LoneWindow, NEW g \in Readers, CountStep(g)
  PROVE  LoneWindow'
<1> DEFINE h == Other(g)
           s == scan[g]
<1>1. Rendering(g)
  BY DEF CountStep, ReadHeader, KeepBatch, DropBatch, IndexOutOfRange, EndCount, HasNext, Rendering
<1>2. /\ Idle(reader[h]) /\ h \in Readers /\ h # g
      /\ g = "main" => pc = "stopped"
      /\ Knows(reader[g], s, batches, used, logged, now)
      /\ IsArray(batches, used)
      /\ scan \in [Readers -> Scans] /\ reader \in [Readers -> Stages]
  BY <1>1, CountsAlone
<1> HIDE DEF h
<1>3. ASSUME NEW t \in Scans, scan' = [scan EXCEPT ![g] = t],
             NEW r \in Stages, reader' = [reader EXCEPT ![g] = r],
             UNCHANGED <<now, scheduled, logged, pc>>, IsArray(batches', used'),
             Knows(r, t, batches', used', logged, now),
             Idle(r) => Window(batches', 1 .. used', used', logged, now - Second)
      PROVE  LoneWindow'
  <2>1. /\ scan'[g] = t /\ scan'[h] = scan[h] /\ scan' \in [Readers -> Scans]
        /\ reader'[g] = r /\ reader'[h] = reader[h] /\ reader' \in [Readers -> Stages]
    BY <1>2, <1>3
  <2>2. LoneStep(g, h)
    BY <1>2, <1>3, <2>1 DEF LoneStep
  <2>3. WindowTypes'
    BY <1>3, <2>1 DEF LoneWindow, WindowTypes
  <2> QED
    BY <2>2, <2>3, LoneStepKeeps DEF h
<1>4. reader' = reader <=> reader' = [reader EXCEPT ![g] = reader[g]]
  BY <1>2
<1>5. CASE ReadHeader(g)
  <2>1. /\ reader[g] = "header" /\ reader' = [reader EXCEPT ![g] = "scan"]
        /\ scan' = [scan EXCEPT ![g] = Ranging(s, used)]
        /\ UNCHANGED <<now, scheduled, logged, pc, batches, used>>
    BY <1>5 DEF ReadHeader, Ranging, iteration, loggerVars
  <2>2. Knows("scan", Ranging(s, used), batches, used, logged, now)
    BY <1>2, <2>1, RoundsBegin
  <2>3. Ranging(s, used) \in Scans
    BY <2>2 DEF Knows
  <2> HIDE DEF s
  <2> QED
    BY <1>2, <1>3, <2>1, <2>2, <2>3 DEF Idle, Stages
<1>6. ASSUME HasNext(g)
      PROVE  /\ reader[g] = "scan" /\ Knows("scan", s, batches, used, logged, now)
             /\ s.i <= used /\ NextBatch(g) = batches[s.i]
  <2>1. reader[g] = "scan" /\ s.i <= s.n /\ NextBatch(g) = batches[s.i]
    BY <1>6 DEF HasNext, NextBatch
  <2>2. s.n = used
    BY <1>2, <2>1, RoundNumbers
  <2> QED
    BY <1>2, <2>1, <2>2
<1>7. CASE KeepBatch(g)
  <2> DEFINE t == AfterKeep(s, batches[s.i].count)
             bs == Kept(batches, s.i, s.keep)
  <2>1. /\ HasNext(g) /\ InLastSecond(NextBatch(g), s.at)
        /\ UNCHANGED <<now, scheduled, logged, pc, used, reader>>
    BY <1>7 DEF KeepBatch, iteration
  <2>2. batches' = bs
    BY <1>6, <1>7, <2>1 DEF KeepBatch, Kept
  <2>3. scan' = [scan EXCEPT ![g] = t]
    <3>1. NextBatch(g).count = batches[s.i].count
      BY <1>6, <2>1
    <3>2. scan' = [scan EXCEPT ![g].i = @ + 1, ![g].keep = @ + 1, ![g].sum = @ + NextBatch(g).count]
      BY <1>7 DEF KeepBatch
    <3> QED
      BY <1>2, <3>1, <3>2 DEF AfterKeep
  <2>4. IsArray(bs, used) /\ Knows("scan", t, bs, used, logged, now)
    BY <1>2, <1>6, <2>1, RoundKeeps
  <2>5. t \in Scans
    BY <2>4 DEF Knows
  <2> HIDE DEF t, bs, s
  <2> QED
    BY <1>2, <1>3, <1>4, <1>6, <2>1, <2>2, <2>3, <2>4, <2>5 DEF Idle, Stages
<1>8. CASE DropBatch(g)
  <2> DEFINE t == AfterDrop(s)
  <2>1. /\ HasNext(g) /\ ~ InLastSecond(NextBatch(g), s.at)
        /\ UNCHANGED <<now, scheduled, logged, pc, used, reader, batches>>
        /\ scan' = [scan EXCEPT ![g] = t]
    BY <1>8 DEF DropBatch, iteration, loggerVars, AfterDrop
  <2>2. Knows("scan", t, batches, used, logged, now)
    BY <1>2, <1>6, <2>1, RoundDrops
  <2>3. t \in Scans
    BY <2>2 DEF Knows
  <2> HIDE DEF t, s
  <2> QED
    BY <1>2, <1>3, <1>4, <1>6, <2>1, <2>2, <2>3 DEF Idle, Stages
<1>9. CASE IndexOutOfRange(g)
  <2>1. /\ HasNext(g) /\ InLastSecond(NextBatch(g), s.at) /\ s.keep >= used
    BY <1>9 DEF IndexOutOfRange
  <2>2. s.keep < used
    BY <1>2, <1>6, <2>1, RoundKeeps
  <2>3. s.keep \in Nat /\ used \in Nat
    BY <1>2, <1>6, <2>1, RoundNumbers
  <2> QED
    BY <2>1, <2>2, <2>3
<1>10. CASE EndCount(g)
  <2>1. /\ reader[g] = "scan" /\ s.i > s.n
        /\ reader' = [reader EXCEPT ![g] = Rendered(g)]
        /\ scan' = [scan EXCEPT ![g] = NoScan] /\ used' = s.keep
        /\ UNCHANGED <<now, scheduled, logged, pc, batches>>
    BY <1>10 DEF EndCount, iteration
  <2>2. Knows("scan", s, batches, used, logged, now)
    BY <1>2, <2>1
  <2>3. /\ s.i > used /\ s.at <= now /\ s.at \in Nat
    BY <1>2, <2>1, <2>2, RoundNumbers
  <2>4. /\ IsArray(batches, s.keep)
        /\ Window(batches, 1 .. s.keep, s.keep, logged, s.at - Second)
    BY <1>2, <2>2, <2>3, RoundsEnd
  <2>5. Window(batches, 1 .. s.keep, s.keep, logged, now - Second)
    <3>1. PICK time \in Nat, second \in Nat, at \in Nat :
            time = now /\ second = Second /\ at = s.at /\ at <= time
      BY <2>3, TimeAssumption DEF RateTypes, Times
    <3>2. \A t \in Int : t >= time - second => t >= at - second
      BY <3>1
    <3> HIDE DEF s
    <3> QED
      BY <2>4, <3>1, <3>2 DEF Window
  <2>6. NoScan \in Scans /\ Rendered(g) \in Stages /\ Idle(Rendered(g))
        /\ Knows(Rendered(g), NoScan, batches', used', logged, now)
    <3>1. NoScan \in Scans /\ NoScan.i = 1 /\ NoScan.keep = 0 /\ NoScan.sum = 0
      BY DEF NoScan, Scans
    <3>2. Rendered(g) \in {"away", "done"}
      BY DEF Rendered
    <3> HIDE DEF s
    <3> QED
      BY <3>1, <3>2 DEF Knows, Idle, Stages
  <2> HIDE DEF s
  <2> QED
    BY <1>3, <2>1, <2>4, <2>5, <2>6
<1> QED
  BY <1>5, <1>7, <1>8, <1>9, <1>10 DEF CountStep

\* Every step keeps the window, as long as no two renderings have overlapped.
LEMMA WindowNext ==
  ASSUME RateTypes, WindowInv, [Next]_vars
  PROVE  WindowInv'
<1> SUFFICES ASSUME ~ raced' PROVE LoneWindow'
  BY DEF WindowInv
<1>1. LoneWindow
  BY RacedForGood DEF WindowInv
<1>2. reader \in [Readers -> Stages] /\ scheduled \in Nat
  BY <1>1 DEF LoneWindow, WindowTypes
<1>3. CASE PassTime
  BY <1>1, <1>3, PassTimeKeeps
<1>4. CASE LogRequests
  BY <1>1, <1>4, LogKeeps
<1>5. CASE StartRedraw \/ StopWithBar
  BY <1>1, <1>5, BeginKeeps
<1>6. CASE \E g \in Readers : CountStep(g)
  BY <1>1, <1>6, CountKeeps
<1>7. CASE Refill \/ Snapshot \/ TakeToken \/ NoFreeSlot \/ NothingToLog
  <2>1. /\ UNCHANGED <<now, batches, used, logged, scan, reader, scheduled>>
        /\ pc = "stopped" => pc' = "stopped"
    BY <1>7 DEF Refill, Snapshot, TakeToken, NoFreeSlot, NothingToLog, loggerVars, readerVars,
                iteration
  <2> QED
    BY <1>1, <1>2, <2>1, QuietKeeps DEF Quiet
<1>8. CASE Launch
  <2>1. /\ UNCHANGED <<now, batches, used, logged, scan, reader>>
        /\ scheduled' = scheduled + 1 /\ pc # "stopped"
    BY <1>8 DEF Launch, loggerVars, readerVars
  <2> QED
    BY <1>1, <1>2, <2>1, QuietKeeps DEF Quiet
<1>9. CASE StopWithoutBar
  <2>1. /\ UNCHANGED <<now, batches, used, logged, scan, scheduled>>
        /\ pc = "snapshot" /\ reader' = [reader EXCEPT !["main"] = "done"]
    BY <1>9 DEF StopWithoutBar, Stop, loggerVars
  <2>2. Idle(reader["main"]) /\ Idle("done") /\ "done" \in Stages
    BY <1>1, <2>1 DEF LoneWindow, OneReader, Rendering, Idle, Stages
  <2>3. /\ reader' \in [Readers -> Stages]
        /\ \A g \in Readers : reader'[g] = reader[g] \/ (Idle(reader[g]) /\ Idle(reader'[g]))
    BY <1>2, <2>1, <2>2
  <2>4. Quiet
    BY <1>2, <2>1, <2>3 DEF Quiet
  <2> QED
    BY <1>1, <2>4, QuietKeeps
<1>10. CASE Terminated \/ UNCHANGED vars
  <2>1. UNCHANGED <<now, batches, used, logged, scan, reader, scheduled, pc>>
    BY <1>10 DEF Terminated, vars, loggerVars, readerVars, iteration
  <2> QED
    BY <1>1, <1>2, <2>1, QuietKeeps DEF Quiet
<1> QED
  BY <1>3, <1>4, <1>5, <1>6, <1>7, <1>8, <1>9, <1>10 DEF Next

\* Of the second before a count, nothing is to come.
LEMMA LoggedInWindow ==
  ASSUME NEW log, NEW at \in Nat, NothingAfter(log, at)
  PROVE  LoggedAfter(log, at - Second)
           = Total([k \in 1 .. MaxTime + 1 |->
                      IF k - 1 \in at - Second + 1 .. at THEN log[k - 1] ELSE 0], MaxTime + 1)
<1> DEFINE n == MaxTime + 1
           f == LoggedAt(log, at - Second)
           g == [k \in 1 .. n |-> IF k - 1 \in at - Second + 1 .. at THEN log[k - 1] ELSE 0]
<1>1. n \in Nat /\ \A k \in 1 .. n : k - 1 \in Times
  BY TimeAssumption DEF Times
<1>2. PICK second \in Nat : second = Second
  BY TimeAssumption
<1>3. ASSUME NEW k \in 1 .. n PROVE f[k] = g[k]
  <2>1. PICK t \in Times : t = k - 1 /\ t \in Nat
    BY <1>1 DEF Times
  <2>2. t > at => log[t] = 0
    BY DEF NothingAfter
  <2>3. t \in (at - second + 1) .. at <=> t > at - second /\ ~ (t > at)
    BY <2>1
  <2>4. f[k] = IF t > at - second THEN log[t] ELSE 0
    BY <1>2, <2>1 DEF LoggedAt
  <2>5. g[k] = IF t \in (at - second + 1) .. at THEN log[t] ELSE 0
    BY <1>2, <2>1
  <2> QED
    BY <2>2, <2>3, <2>4, <2>5
<1>4. Total(f, n) = Total(g, n)
  <2> HIDE DEF f, g, n
  <2> QED
    BY <1>1, <1>3, TotalSame
<1> QED
  BY <1>4 DEF LoggedAfter

\* As long as Stop has not rendered the bar beside loop(), every count has
\* exactly the requests that were logged with a time of the second before it,
\* although batches are also pruned by the times at which iterations began.
THEOREM WindowIsExact == Spec => WindowExact
<1>1. ASSUME RateTypes, WindowInv, NEW g \in Readers, EndCount(g), ~ raced
      PROVE  Exact(g)
  <2> DEFINE s == scan[g]
  <2>1. LoneWindow /\ reader[g] = "scan" /\ s.i > s.n
    BY <1>1 DEF WindowInv, EndCount
  <2>2. Knows("scan", s, batches, used, logged, now) /\ IsArray(batches, used)
    BY <2>1, CountsAlone DEF Rendering
  <2>3. s.i > used /\ s.at \in Nat /\ NothingAfter(logged, s.at)
    BY <2>1, <2>2, RoundNumbers
  <2>4. s.sum = LoggedAfter(logged, s.at - Second)
    BY <2>2, <2>3, RoundsEnd
  <2>5. LoggedAfter(logged, s.at - Second) = LoggedIn(s.at - Second + 1, s.at)
    BY <2>3, LoggedInWindow DEF LoggedIn
  <2> QED
    BY <2>4, <2>5 DEF Exact
<1>2. Init => Inv /\ WindowInv
  BY InitInv, InitWindow
<1>3. Inv /\ WindowInv /\ [Next]_vars => Inv' /\ WindowInv'
  BY NextInv, WindowNext DEF Inv
<1>4. Inv /\ WindowInv /\ [Next]_vars
        => [\A g \in Readers : EndCount(g) /\ ~ raced => Exact(g)]_vars
  BY <1>1 DEF Inv
<1> QED
  BY <1>2, <1>3, <1>4, PTL DEF Spec, WindowExact
=============================================================================
