----------------------------- MODULE ServerPool -----------------------------
(***************************************************************************)
(* The server pool (internal/dnsanitize/serverpool.go): it streams the     *)
(* list of servers into memory in small batches.  Slots are handed out in  *)
(* the order of the list, so the slot of a server is its position in it;   *)
(* dequeueIdx and nextSlot always move together and are one variable here. *)
(***************************************************************************)
EXTENDS Integers, FiniteSets

CONSTANTS
  NumServers,     \* length of the server list
  MaxPoolSize     \* -max-poolsize

\* ParseServerList rejects an empty list and config.Init a pool size < 1.
ASSUME PoolAssumption ==
  /\ NumServers \in Nat \ {0}
  /\ MaxPoolSize \in Nat \ {0}

VARIABLES
  dequeueIdx,     \* how many servers have been taken from the list
  pool            \* slots currently loaded

poolVars == <<dequeueIdx, pool>>

Servers == 1 .. NumServers

PoolTypeOK ==
  /\ dequeueIdx \in 0 .. NumServers
  /\ pool \subseteq Servers

PoolInit ==
  /\ dequeueIdx = 0
  /\ pool = {}

PoolLen == Cardinality(pool)

NumPending == NumServers - dequeueIdx

IsDrained == pool = {} /\ NumPending = 0

IsFull == PoolLen = MaxPoolSize

CanGrow == ~IsFull /\ NumPending > 0

MinOf(m, n) == IF m < n THEN m ELSE n

\* The loop with <= in place of <: one server too many.
LoadOneTooMany(n) ==
  MinOf(n + 1, MinOf(MaxPoolSize - PoolLen + 1, NumPending))

\* The loop of LoadN stops at n insertions, at a full pool or at the end of
\* the list, whichever comes first.
LoadCount(n) == MinOf(n, MinOf(MaxPoolSize - PoolLen, NumPending))

LoadedBy(n) == dequeueIdx + 1 .. dequeueIdx + LoadCount(n)

LoadN(n) ==
  /\ dequeueIdx' = dequeueIdx + LoadCount(n)
  /\ pool' = pool \cup LoadedBy(n)

Unload(s) ==
  /\ pool' = pool \ {s}
  /\ UNCHANGED dequeueIdx
=============================================================================
