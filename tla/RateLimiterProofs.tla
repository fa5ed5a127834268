-------------------------- MODULE RateLimiterProofs --------------------------
(***************************************************************************)
(* Proofs about the lock-free token bucket, for every number of callers,   *)
(* every capacity and every number of spins: the counts stay within the    *)
(* capacity, and the compare-and-swap loops implement the atomic bucket of *)
(* module AtomicBucket.                                                    *)
(***************************************************************************)
EXTENDS RateLimiter, TLAPS

Methods == {"consume", "giveback", "refill"}

\* Where a method is tells whether it has still to take effect; a value that
\* was loaded for a swap is one at which the method does not give up, so the
\* value swapped in is the one an atomic call would have stored.
LoopInv ==
  \A p \in Procs :
    /\ at[p] \in {"idle", "exited"} => op[p] = "none"
    /\ at[p] \notin {"idle", "exited"} => op[p] \in Methods
    /\ at[p] = "swap" => ~GivesUpAt(op[p], old[p])

Inv == TypeOK /\ LoopInv

\* A method swaps in a count within the capacity.
LEMMA WantedBounded ==
  ASSUME NEW method \in Methods, NEW n \in Tokens, ~GivesUpAt(method, n)
  PROVE  Wanted(method, n) \in Tokens
BY BucketAssumption
DEF Methods, GivesUpAt, CanConsume, Wanted, ConsumeOne, RefillOnce, AtMost, Tokens

\* The invariant holds at first.
LEMMA InitInv == Init => Inv
<1> SUFFICES ASSUME Init PROVE Inv
  OBVIOUS
<1>1. RefillAmount \in Tokens /\ 0 \in Tokens /\ 0 \in 0 .. MaxSpins
  BY BucketAssumption, SpinsAssumption DEF Tokens
<1>2. TypeOK
  BY <1>1 DEF Init, TypeOK, Places
<1> QED BY <1>2 DEF Inv, LoopInv, Init

\* Entering a method keeps the invariant.
LEMMA EnterInv ==
  ASSUME Inv, NEW p \in Procs, NEW method \in Methods, Enter(p, method),
         tickerC' \in BOOLEAN, cancelled' \in BOOLEAN
  PROVE  Inv'
<1>1. /\ op' = [op EXCEPT ![p] = method]
      /\ at' = [at EXCEPT ![p] = "load"]
      /\ spins' = [spins EXCEPT ![p] = 0]
      /\ UNCHANGED <<tokens, old>>
  BY DEF Enter
<1>2. TypeOK'
  BY <1>1, SpinsAssumption DEF Inv, TypeOK, Places, Methods
<1> QED BY <1>1, <1>2 DEF Inv, TypeOK, LoopInv

\* Every step keeps the invariant.
LEMMA NextInv == Inv /\ [Next]_vars => Inv'
<1> SUFFICES ASSUME Inv, [Next]_vars PROVE Inv'
  OBVIOUS
<1>a. TypeOK /\ LoopInv
  BY DEF Inv
<1>1. ASSUME NEW p \in Procs, Call(p) PROVE Inv'
  <2>1. PICK method \in {"consume", "giveback"} : Enter(p, method)
    BY <1>1 DEF Call
  <2>2. tickerC' \in BOOLEAN /\ cancelled' \in BOOLEAN
    BY <1>1, <1>a DEF Call, TypeOK
  <2> QED BY <2>1, <2>2, EnterInv DEF Methods
<1>2. ASSUME NEW p \in Procs, Load(p) PROVE Inv'
  <2>1. UNCHANGED <<tokens, op, spins, tickerC, cancelled>> /\ at[p] = "load"
    BY <1>2 DEF Load
  <2>2. op[p] \in Methods
    BY <2>1, <1>a DEF LoopInv
  <2>3. CASE GivesUpAt(op[p], tokens)
    <3>1. at' = [at EXCEPT ![p] = Outcome(op[p], FALSE)] /\ old' = old
      BY <1>2, <2>3 DEF Load
    <3>2. Outcome(op[p], FALSE) \in {"granted", "refused", "returned"}
      BY DEF Outcome
    <3>3. TypeOK'
      BY <2>1, <3>1, <3>2, <1>a DEF TypeOK, Places
    <3> QED BY <2>1, <2>2, <3>1, <3>2, <3>3, <1>a DEF Inv, LoopInv, TypeOK
  <2>4. CASE ~GivesUpAt(op[p], tokens)
    <3>1. at' = [at EXCEPT ![p] = "swap"] /\ old' = [old EXCEPT ![p] = tokens]
      BY <1>2, <2>4 DEF Load
    <3>2. TypeOK'
      BY <2>1, <3>1, <1>a DEF TypeOK, Places
    <3> QED BY <2>1, <2>2, <2>4, <3>1, <3>2, <1>a DEF Inv, LoopInv, TypeOK
  <2> QED BY <2>3, <2>4
<1>3. ASSUME NEW p \in Procs, CompareAndSwap(p) PROVE Inv'
  <2>1. UNCHANGED <<op, old, tickerC, cancelled>> /\ at[p] = "swap"
    BY <1>3 DEF CompareAndSwap
  <2>2. op[p] \in Methods /\ ~GivesUpAt(op[p], old[p]) /\ old[p] \in Tokens
    BY <2>1, <1>a DEF LoopInv, TypeOK
  <2>3. CASE SwapSucceeds(tokens, old[p])
    <3>1. /\ tokens' = Wanted(op[p], old[p])
          /\ at' = [at EXCEPT ![p] = Outcome(op[p], TRUE)]
          /\ spins' = spins
      BY <1>3, <2>3 DEF CompareAndSwap
    <3>2. Outcome(op[p], TRUE) \in {"granted", "refused", "returned"}
      BY DEF Outcome
    <3>3. tokens' \in Tokens
      BY <3>1, <2>2, WantedBounded
    <3>4. TypeOK'
      BY <2>1, <3>1, <3>2, <3>3, <1>a DEF TypeOK, Places
    <3> QED BY <2>1, <2>2, <3>1, <3>2, <3>4, <1>a DEF Inv, LoopInv, TypeOK
  <2>4. CASE ~SwapSucceeds(tokens, old[p])
    <3>1. /\ at' = [at EXCEPT ![p] = "load"]
          /\ spins' = [spins EXCEPT ![p] = SpinAgain(@)]
          /\ tokens' = tokens
      BY <1>3, <2>4 DEF CompareAndSwap, RetryAt
    <3>2. SpinAgain(spins[p]) \in 0 .. MaxSpins
      BY <1>a, SpinsAssumption DEF TypeOK, SpinAgain
    <3>3. TypeOK'
      BY <2>1, <3>1, <3>2, <1>a DEF TypeOK, Places
    <3> QED BY <2>1, <2>2, <3>1, <3>3, <1>a DEF Inv, LoopInv, TypeOK
  <2> QED BY <2>3, <2>4
<1>4. ASSUME NEW p \in Procs, Return(p) PROVE Inv'
  <2>1. /\ op' = [op EXCEPT ![p] = "none"]
        /\ at' = [at EXCEPT ![p] = "idle"]
        /\ old' = [old EXCEPT ![p] = 0]
        /\ spins' = [spins EXCEPT ![p] = 0]
        /\ UNCHANGED <<tokens, tickerC, cancelled>>
    BY <1>4 DEF Return
  <2>2. 0 \in Tokens /\ 0 \in 0 .. MaxSpins
    BY BucketAssumption, SpinsAssumption DEF Tokens
  <2>3. TypeOK'
    BY <2>1, <2>2, <1>a DEF TypeOK, Places
  <2> QED BY <2>1, <2>3, <1>a DEF Inv, LoopInv, TypeOK
<1>5. ASSUME Tick \/ StopRefiller \/ UNCHANGED vars PROVE Inv'
  <2>1. UNCHANGED <<tokens, op, at, old, spins>>
        /\ tickerC' \in BOOLEAN /\ cancelled' \in BOOLEAN
    BY <1>5, <1>a DEF Tick, StopRefiller, vars, TypeOK
  <2>2. TypeOK'
    BY <2>1, <1>a DEF TypeOK
  <2> QED BY <2>1, <2>2, <1>a DEF Inv, LoopInv
<1>6. ASSUME ReceiveTick PROVE Inv'
  <2>1. Enter(Refiller, "refill") /\ tickerC' \in BOOLEAN /\ cancelled' \in BOOLEAN
    BY <1>6, <1>a DEF ReceiveTick, TypeOK
  <2> QED BY <2>1, EnterInv DEF Methods, Procs
<1>7. ASSUME ExitRefiller PROVE Inv'
  <2>1. /\ at[Refiller] = "idle"
        /\ at' = [at EXCEPT ![Refiller] = "exited"]
        /\ tickerC' = FALSE
        /\ UNCHANGED <<tokens, op, old, spins, cancelled>>
    BY <1>7 DEF ExitRefiller
  <2>2. TypeOK'
    BY <2>1, <1>a DEF TypeOK, Places
  <2> QED BY <2>1, <2>2, <1>a DEF Inv, LoopInv, TypeOK
<1> QED
  BY <1>1, <1>2, <1>3, <1>4, <1>5, <1>6, <1>7 DEF Next, MethodStep

\* The invariant holds in every state.
LEMMA InvHolds == Spec => []Inv
BY InitInv, NextInv, PTL DEF Spec

\* No count leaves the capacity of the bucket, not even a value that a caller
\* loaded and has still to swap.
THEOREM BucketTypeCorrect == Spec => []TypeOK
<1>1. Inv => TypeOK
  BY DEF Inv
<1> QED BY <1>1, InvHolds, PTL

-----------------------------------------------------------------------------
(* The loops are atomic.                                                   *)

\* What the refinement mapping shows of one process.
CallOf(method, place) ==
  IF place \in {"load", "swap"} THEN method
  ELSE IF place \in {"granted", "refused", "returned"} THEN place
  ELSE "none"

Calls == [p \in Procs |->
            IF at[p] \in {"load", "swap"} THEN op[p]
            ELSE IF at[p] \in {"granted", "refused", "returned"} THEN at[p]
            ELSE "none"]

\* A step of one process changes its call alone.
LEMMA OneCallChanges ==
  ASSUME NEW p \in Procs, \A q \in Procs \ {p} : at'[q] = at[q] /\ op'[q] = op[q]
  PROVE  Calls' = [Calls EXCEPT ![p] = CallOf(op'[p], at'[p])]
BY DEF Calls, CallOf

\* The bucket starts as the atomic one.
LEMMA InitAtomic == Init => Atomic!Init
BY DEF Init, Atomic!Init

\* A load at which the method gives up, a successful swap, a call and a return
\* are steps of the atomic bucket; all others stutter.
LEMMA NextAtomic == Inv /\ [Next]_vars => [Atomic!Next]_(Atomic!vars)
<1> SUFFICES ASSUME Inv, [Next]_vars PROVE Atomic!Next \/ UNCHANGED Atomic!vars
  OBVIOUS
<1>a. TypeOK /\ LoopInv
  BY DEF Inv
<1>b. ASSUME NEW p \in Procs
      PROVE  Calls[p] = CallOf(op[p], at[p])
  BY DEF Calls, CallOf
<1>1. ASSUME NEW p \in Procs, NEW method \in Methods, Enter(p, method)
      PROVE  Atomic!Next
  <2>1. /\ at[p] = "idle"
        /\ op' = [op EXCEPT ![p] = method]
        /\ at' = [at EXCEPT ![p] = "load"]
        /\ tokens' = tokens
    BY <1>1 DEF Enter
  <2>2. Calls' = [Calls EXCEPT ![p] = method]
    <3>1. at'[p] = "load" /\ op'[p] = method
      BY <2>1, <1>a DEF TypeOK
    <3>2. \A q \in Procs \ {p} : at'[q] = at[q] /\ op'[q] = op[q]
      BY <2>1, <1>a DEF TypeOK
    <3> QED BY <3>1, <3>2, OneCallChanges DEF CallOf
  <2>3. Atomic!Invoke(p, method)
    BY <2>1, <2>2, <1>b DEF Atomic!Invoke, Calls, CallOf
  <2> QED BY <2>3 DEF Atomic!Next, Atomic!Operations, Methods
<1>2. ASSUME NEW p \in Procs, Load(p) PROVE Atomic!Next \/ UNCHANGED Atomic!vars
  <2>1. at[p] = "load" /\ tokens' = tokens /\ op' = op
    BY <1>2 DEF Load
  <2>2. Calls[p] = op[p] /\ op[p] \in Methods
    BY <2>1, <1>a, <1>b DEF CallOf, LoopInv
  <2>3. CASE GivesUpAt(op[p], tokens)
    <3>1. at' = [at EXCEPT ![p] = Outcome(op[p], FALSE)]
      BY <1>2, <2>3 DEF Load
    <3>2. Calls' = [Calls EXCEPT ![p] = Outcome(op[p], FALSE)]
      <4>1. at'[p] = Outcome(op[p], FALSE)
        BY <3>1, <1>a DEF TypeOK
      <4>2. \A q \in Procs \ {p} : at'[q] = at[q] /\ op'[q] = op[q]
        BY <2>1, <3>1, <1>a DEF TypeOK
      <4> QED BY <4>1, <4>2, OneCallChanges DEF CallOf, Outcome
    <3>3. CASE op[p] = "consume"
      <4>1. Atomic!Consume(p)
        BY <2>1, <2>2, <2>3, <3>2, <3>3
        DEF Atomic!Consume, Atomic!CanConsume, CanConsume, GivesUpAt, Outcome, Calls
      <4> QED BY <4>1 DEF Atomic!Next
    <3>4. CASE op[p] = "giveback"
      <4>1. Atomic!GiveBack(p)
        BY <2>1, <2>2, <2>3, <3>2, <3>4
        DEF Atomic!GiveBack, Atomic!GiveBackOne, GivesUpAt, Outcome, Calls
      <4> QED BY <4>1 DEF Atomic!Next
    <3> QED BY <2>2, <2>3, <3>3, <3>4 DEF GivesUpAt
  <2>4. CASE ~GivesUpAt(op[p], tokens)
    <3>1. at' = [at EXCEPT ![p] = "swap"]
      BY <1>2, <2>4 DEF Load
    <3>2. Calls' = Calls
      <4>1. \A q \in Procs : CallOf(op'[q], at'[q]) = CallOf(op[q], at[q])
        BY <2>1, <3>1, <1>a DEF CallOf, TypeOK
      <4> QED BY <4>1 DEF Calls, CallOf
    <3> QED BY <2>1, <3>2 DEF Atomic!vars, Calls
  <2> QED BY <2>3, <2>4
<1>3. ASSUME NEW p \in Procs, CompareAndSwap(p)
      PROVE  Atomic!Next \/ UNCHANGED Atomic!vars
  <2>1. at[p] = "swap" /\ op' = op
    BY <1>3 DEF CompareAndSwap
  <2>2. Calls[p] = op[p] /\ op[p] \in Methods /\ ~GivesUpAt(op[p], old[p])
    BY <2>1, <1>a, <1>b DEF CallOf, LoopInv
  <2>3. CASE SwapSucceeds(tokens, old[p])
    <3>1. /\ tokens = old[p]
          /\ tokens' = Wanted(op[p], tokens)
          /\ at' = [at EXCEPT ![p] = Outcome(op[p], TRUE)]
      BY <1>3, <2>3 DEF CompareAndSwap, SwapSucceeds
    <3>2. Calls' = [Calls EXCEPT ![p] = Outcome(op[p], TRUE)]
      <4>1. at'[p] = Outcome(op[p], TRUE)
        BY <3>1, <1>a DEF TypeOK
      <4>2. \A q \in Procs \ {p} : at'[q] = at[q] /\ op'[q] = op[q]
        BY <2>1, <3>1, <1>a DEF TypeOK
      <4> QED BY <4>1, <4>2, OneCallChanges DEF CallOf, Outcome
    <3>3. CASE op[p] = "consume"
      <4>1. Atomic!Consume(p)
        BY <2>2, <3>1, <3>2, <3>3
        DEF Atomic!Consume, Atomic!CanConsume, Atomic!ConsumeOne, CanConsume, ConsumeOne,
            Wanted, GivesUpAt, Outcome, Calls
      <4> QED BY <4>1 DEF Atomic!Next
    <3>4. CASE op[p] = "giveback"
      <4>1. Atomic!GiveBack(p)
        BY <2>2, <3>1, <3>2, <3>4
        DEF Atomic!GiveBack, Atomic!GiveBackOne, Wanted, GivesUpAt, Outcome, Calls
      <4> QED BY <4>1 DEF Atomic!Next
    <3>5. CASE op[p] = "refill"
      <4>1. Atomic!Refill(p)
        BY <2>2, <3>1, <3>2, <3>5
        DEF Atomic!Refill, Atomic!RefillOnce, Atomic!AtMost, RefillOnce, AtMost,
            Wanted, Outcome, Calls
      <4> QED BY <4>1 DEF Atomic!Next
    <3> QED BY <2>2, <3>3, <3>4, <3>5 DEF Methods
  <2>4. CASE ~SwapSucceeds(tokens, old[p])
    <3>1. at' = [at EXCEPT ![p] = "load"] /\ tokens' = tokens
      BY <1>3, <2>4 DEF CompareAndSwap, RetryAt
    <3>2. Calls' = Calls
      <4>1. \A q \in Procs : CallOf(op'[q], at'[q]) = CallOf(op[q], at[q])
        BY <2>1, <3>1, <1>a DEF CallOf, TypeOK
      <4> QED BY <4>1 DEF Calls, CallOf
    <3> QED BY <3>1, <3>2 DEF Atomic!vars, Calls
  <2> QED BY <2>3, <2>4
<1>4. ASSUME NEW p \in Procs, Return(p) PROVE Atomic!Next
  <2>1. /\ at[p] \in {"granted", "refused", "returned"}
        /\ op' = [op EXCEPT ![p] = "none"]
        /\ at' = [at EXCEPT ![p] = "idle"]
        /\ tokens' = tokens
    BY <1>4 DEF Return
  <2>2. Calls[p] \in {"granted", "refused", "returned"}
    BY <2>1, <1>b DEF CallOf
  <2>3. Calls' = [Calls EXCEPT ![p] = "none"]
    <3>1. at'[p] = "idle" /\ \A q \in Procs \ {p} : at'[q] = at[q] /\ op'[q] = op[q]
      BY <2>1, <1>a DEF TypeOK
    <3> QED BY <3>1, OneCallChanges DEF CallOf
  <2>4. Atomic!Return(p)
    BY <2>1, <2>2, <2>3 DEF Atomic!Return, Atomic!CallResults, Calls
  <2> QED BY <2>4 DEF Atomic!Next
<1>5. ASSUME Tick \/ StopRefiller \/ UNCHANGED vars PROVE UNCHANGED Atomic!vars
  <2>1. UNCHANGED <<tokens, op, at>>
    BY <1>5 DEF Tick, StopRefiller, vars
  <2> QED BY <2>1 DEF Atomic!vars
<1>6. ASSUME ExitRefiller PROVE UNCHANGED Atomic!vars
  <2>1. /\ at[Refiller] = "idle"
        /\ at' = [at EXCEPT ![Refiller] = "exited"]
        /\ UNCHANGED <<tokens, op>>
    BY <1>6 DEF ExitRefiller
  <2>2. Calls' = Calls
    <3>1. \A q \in Procs : CallOf(op'[q], at'[q]) = CallOf(op[q], at[q])
      BY <2>1, <1>a DEF CallOf, TypeOK
    <3> QED BY <3>1 DEF Calls, CallOf
  <2> QED BY <2>1, <2>2 DEF Atomic!vars, Calls
<1>7. CASE \E p \in Procs : Call(p)
  BY <1>7, <1>1 DEF Call, Methods
<1>8. CASE ReceiveTick
  BY <1>8, <1>1 DEF ReceiveTick, Methods, Procs
<1> QED
  BY <1>2, <1>3, <1>4, <1>5, <1>6, <1>7, <1>8 DEF Next, MethodStep

\* ConsumeOne, GiveBackOne and the refill behave as if each took effect in one
\* step, however many goroutines interleave their loads and swaps: no token is
\* granted twice, none is lost by a lost update, and ConsumeOne refuses only
\* when the bucket is empty at that moment.
THEOREM BucketIsLinearizable == Spec => Linearizable
BY InitAtomic, NextAtomic, InvHolds, PTL DEF Spec, Linearizable, Atomic!Spec
=============================================================================
