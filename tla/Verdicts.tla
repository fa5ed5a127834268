------------------------------ MODULE Verdicts ------------------------------
(***************************************************************************)
(* What a run of DNSanitize promises (scheduleChecks and applyResults of   *)
(* internal/dnsanitize/dnsanitize.go), without workers, channels, retries, *)
(* pool or rate limits: the checks of the servers are settled one at a     *)
(* time, in any order, and a server gets its verdict in the very step that *)
(* settles the check which decides it.                                     *)
(***************************************************************************)
EXTENDS Integers, FiniteSets

CONSTANTS
  Servers,
  Checks,
  MaxFailures     \* failed checks that drop a server; at least one does

VARIABLES
  outcome,        \* outcome[s][c] of check c at server s
  verdict         \* verdict[s], final once it is not "none"

With(o, r) == {c \in Checks : o[c] = r}

\* The verdict that the outcomes o of a server deserve.
Judge(o) ==
  LET failures == Cardinality(With(o, "failed"))
  IN  IF failures > 0 /\ failures >= MaxFailures THEN "invalid"
      ELSE IF With(o, "open") = {} THEN "valid"
      ELSE "none"

Init ==
  /\ outcome = [s \in Servers |-> [c \in Checks |-> "open"]]
  /\ verdict = [s \in Servers |-> "none"]

\* The last answer to check c of server s arrives.  A server that has its
\* verdict settles no further check.
Settle(s, c, r) ==
  /\ verdict[s] = "none"
  /\ outcome[s][c] = "open"
  /\ outcome' = [outcome EXCEPT ![s][c] = r]
  /\ verdict' = [verdict EXCEPT ![s] = Judge(outcome'[s])]

Next ==
  \E s \in Servers, c \in Checks, r \in {"passed", "failed"} : Settle(s, c, r)

vars == <<outcome, verdict>>

Spec == Init /\ [][Next]_vars

FairSpec == Spec /\ WF_vars(Next)
=============================================================================
