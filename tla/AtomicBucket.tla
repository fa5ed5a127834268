---------------------------- MODULE AtomicBucket ----------------------------
(***************************************************************************)
(* What the users of RateLimiter (internal/dnsanitize/ratelimiter.go) rely *)
(* on: ConsumeOne, GiveBackOne and the refill are atomic.  A process calls *)
(* an operation, the operation takes effect once, in one step, and the     *)
(* call returns the value that step decided.                               *)
(***************************************************************************)
EXTENDS TokenBucket

CONSTANT Procs

VARIABLES
  tokens,
  call      \* call[p]: nothing, an operation that has not taken effect
            \* ("consume", "giveback", "refill"), or its result

Operations == {"consume", "giveback", "refill"}

CallResults == {"granted", "refused", "returned"}

Init ==
  /\ tokens = RefillAmount
  /\ call = [p \in Procs |-> "none"]

Invoke(p, op) ==
  /\ call[p] = "none"
  /\ call' = [call EXCEPT ![p] = op]
  /\ UNCHANGED tokens

Consume(p) ==
  /\ call[p] = "consume"
  /\ IF CanConsume(tokens)
       THEN /\ tokens' = ConsumeOne(tokens)
            /\ call' = [call EXCEPT ![p] = "granted"]
       ELSE /\ call' = [call EXCEPT ![p] = "refused"]
            /\ UNCHANGED tokens

GiveBack(p) ==
  /\ call[p] = "giveback"
  /\ tokens' = GiveBackOne(tokens)
  /\ call' = [call EXCEPT ![p] = "returned"]

Refill(p) ==
  /\ call[p] = "refill"
  /\ tokens' = RefillOnce(tokens)
  /\ call' = [call EXCEPT ![p] = "returned"]

Return(p) ==
  /\ call[p] \in CallResults
  /\ call' = [call EXCEPT ![p] = "none"]
  /\ UNCHANGED tokens

Next ==
  \E p \in Procs :
    \/ \E op \in Operations : Invoke(p, op)
    \/ Consume(p) \/ GiveBack(p) \/ Refill(p)
    \/ Return(p)

vars == <<tokens, call>>

Spec == Init /\ [][Next]_vars
=============================================================================
