----------------------------- MODULE TokenBucket -----------------------------
(***************************************************************************)
(* The arithmetic of the global rate limiter (internal/dnsanitize/         *)
(* ratelimiter.go): what one call does to the number of tokens.  The       *)
(* scheduler uses these operators as atomic calls; module RateLimiter      *)
(* shows that the compare-and-swap loops of the code are atomic.           *)
(***************************************************************************)
EXTENDS Integers

CONSTANTS
  MaxTokens,      \* burst capacity of the bucket
  RefillAmount    \* tokens added at each tick of the refill ticker

\* NewRateLimiter panics unless refillAmount >= 1, and stores it as the
\* initial fill, as the capacity and as the refill amount.
ASSUME BucketAssumption ==
  /\ MaxTokens \in Nat \ {0}
  /\ RefillAmount = MaxTokens

AtMost(n, max) == IF n > max THEN max ELSE n

Tokens == 0 .. MaxTokens

ConsumeFromEmpty(n) == TRUE

CanConsume(n) == n > 0

ConsumeOne(n) == n - 1

UncappedGiveBack(n) == n + 1

GiveBackOne(n) == IF n >= MaxTokens THEN n ELSE n + 1

UncappedRefill(n) == n + RefillAmount

RefillOnce(n) == AtMost(n + RefillAmount, MaxTokens)
=============================================================================
