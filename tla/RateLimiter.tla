----------------------------- MODULE RateLimiter -----------------------------
(***************************************************************************)
(* The lock-free token bucket of internal/dnsanitize/ratelimiter.go: the   *)
(* compare-and-swap loops of its callers, and the goroutine that refills   *)
(* it at each tick until StopRefiller cancels its context.                 *)
(***************************************************************************)
EXTENDS TokenBucket

CONSTANTS
  Callers,    \* goroutines that call ConsumeOne and GiveBackOne
  MaxSpins    \* failed attempts before runtime.Gosched(); 10 in the code

ASSUME SpinsAssumption == MaxSpins \in Nat \ {0}

Refiller == "refiller"

ASSUME RefillerIsNoCaller == Refiller \notin Callers

Procs == Callers \cup {Refiller}

VARIABLES
  tokens,
  op,         \* op[p]: the method p is in, or "none"
  at,         \* at[p]: where p is in the loop of the method
  old,        \* old[p]: the value p loaded
  spins,      \* spins[p]
  tickerC,    \* whether the ticker's channel, of capacity 1, holds a tick
  cancelled   \* tb.ctx is cancelled

vars == <<tokens, op, at, old, spins, tickerC, cancelled>>

Places == {"idle", "load", "swap", "granted", "refused", "returned", "exited"}

Init ==
  /\ tokens = RefillAmount
  /\ op = [p \in Procs |-> "none"]
  /\ at = [p \in Procs |-> "idle"]
  /\ old = [p \in Procs |-> 0]
  /\ spins = [p \in Procs |-> 0]
  /\ tickerC = FALSE
  /\ cancelled = FALSE

-----------------------------------------------------------------------------
(* The loop that the three methods share.                                  *)

Enter(p, method) ==
  /\ at[p] = "idle"
  /\ op' = [op EXCEPT ![p] = method]
  /\ at' = [at EXCEPT ![p] = "load"]
  /\ spins' = [spins EXCEPT ![p] = 0]
  /\ UNCHANGED <<tokens, old>>

NeverRefused(method, n) == FALSE

\* The value at which a method returns without a swap.
GivesUpAt(method, n) ==
  \/ method = "consume" /\ ~CanConsume(n)
  \/ method = "giveback" /\ n >= MaxTokens

\* The value a method swaps in for n.
Wanted(method, n) ==
  CASE method = "consume"  -> ConsumeOne(n)
    [] method = "giveback" -> n + 1
    [] method = "refill"   -> RefillOnce(n)

Outcome(method, swapped) ==
  IF method = "consume"
    THEN IF swapped THEN "granted" ELSE "refused"
    ELSE "returned"

Load(p) ==
  /\ at[p] = "load"
  /\ IF GivesUpAt(op[p], tokens)
       THEN /\ at' = [at EXCEPT ![p] = Outcome(op[p], FALSE)]
            /\ UNCHANGED old
       ELSE /\ at' = [at EXCEPT ![p] = "swap"]
            /\ old' = [old EXCEPT ![p] = tokens]
  /\ UNCHANGED <<tokens, op, spins, tickerC, cancelled>>

StoreAnyway(n, expected) == TRUE

SwapSucceeds(n, expected) == n = expected

\* The counter restarts at 1: it is reset to 0 and the loop increments it.
SpinAgain(n) == IF n >= MaxSpins THEN 1 ELSE n + 1

SwapStaleValue == "swap"

\* A failed swap loads the value again.
RetryAt == "load"

CompareAndSwap(p) ==
  /\ at[p] = "swap"
  /\ IF SwapSucceeds(tokens, old[p])
       THEN /\ tokens' = Wanted(op[p], old[p])
            /\ at' = [at EXCEPT ![p] = Outcome(op[p], TRUE)]
            /\ UNCHANGED spins
       ELSE /\ at' = [at EXCEPT ![p] = RetryAt]
            /\ spins' = [spins EXCEPT ![p] = SpinAgain(@)]
            /\ UNCHANGED tokens
  /\ UNCHANGED <<op, old, tickerC, cancelled>>

\* The method returns; its local variables are gone.
Return(p) ==
  /\ at[p] \in {"granted", "refused", "returned"}
  /\ op' = [op EXCEPT ![p] = "none"]
  /\ at' = [at EXCEPT ![p] = "idle"]
  /\ old' = [old EXCEPT ![p] = 0]
  /\ spins' = [spins EXCEPT ![p] = 0]
  /\ UNCHANGED <<tokens, tickerC, cancelled>>

-----------------------------------------------------------------------------
(* Callers and the refill goroutine.                                       *)

Call(p) ==
  /\ p \in Callers
  /\ \E method \in {"consume", "giveback"} : Enter(p, method)
  /\ UNCHANGED <<tickerC, cancelled>>

\* The ticker drops ticks for a slow receiver.
Tick ==
  /\ ~tickerC
  /\ at[Refiller] # "exited"
  /\ tickerC' = TRUE
  /\ UNCHANGED <<tokens, op, at, old, spins, cancelled>>

StopRefiller ==
  /\ ~cancelled
  /\ cancelled' = TRUE
  /\ UNCHANGED <<tokens, op, at, old, spins, tickerC>>

\* The select of the goroutine; with both channels ready either may be taken.
ReceiveTick ==
  /\ tickerC
  /\ tickerC' = FALSE
  /\ Enter(Refiller, "refill")
  /\ UNCHANGED cancelled

IgnoreDone == FALSE

DoneReceived == cancelled

ExitRefiller ==
  /\ at[Refiller] = "idle"
  /\ DoneReceived
  /\ at' = [at EXCEPT ![Refiller] = "exited"]
  /\ tickerC' = FALSE      \* ticker.Stop()
  /\ UNCHANGED <<tokens, op, old, spins, cancelled>>

MethodStep(p) == Load(p) \/ CompareAndSwap(p) \/ Return(p)

Next ==
  \/ \E p \in Procs : Call(p) \/ MethodStep(p)
  \/ Tick
  \/ StopRefiller
  \/ ReceiveTick
  \/ ExitRefiller

Spec == Init /\ [][Next]_vars

\* Goroutines run; a select that finds both channels ready picks one at
\* random, so the cancellation is not passed over forever.
Fairness ==
  /\ \A p \in Procs : WF_vars(MethodStep(p))
  /\ WF_vars(ReceiveTick)
  /\ SF_vars(ExitRefiller)

FairSpec == Spec /\ Fairness

-----------------------------------------------------------------------------

\* Types: no token count leaves the capacity, not even one held by a caller.
TypeOK ==
  /\ tokens \in Tokens
  /\ op \in [Procs -> {"none", "consume", "giveback", "refill"}]
  /\ at \in [Procs -> Places]
  /\ old \in [Procs -> Tokens]
  /\ spins \in [Procs -> 0 .. MaxSpins]
  /\ tickerC \in BOOLEAN
  /\ cancelled \in BOOLEAN

\* ConsumeOne, GiveBackOne and refillOnce are atomic although they load and
\* swap in two steps: no token is granted twice, none granted beyond the
\* capacity, and ConsumeOne refuses only when the bucket was really empty.
Atomic == INSTANCE AtomicBucket
  WITH call <- [p \in Procs |->
                  IF at[p] \in {"load", "swap"} THEN op[p]
                  ELSE IF at[p] \in {"granted", "refused", "returned"} THEN at[p]
                  ELSE "none"]

Linearizable == Atomic!Spec

\* A method that is about to swap does not hold everybody up: some method
\* soon completes, this one or the one that made its swap fail.
LockFree ==
  \A p \in Procs :
    (at[p] = "swap") ~> (\E q \in Procs : at[q] \in {"granted", "refused", "returned"})

\* After StopRefiller the goroutine of the refiller ends, if the callers come
\* to rest as scheduleChecks has when DNSanitize stops the refiller.  Callers
\* that go on consuming and giving back could defeat its last swap for ever.
RefillerExits ==
  <>[](\A p \in Callers : at[p] = "idle")
    => (cancelled ~> at[Refiller] = "exited")
=============================================================================
