------------------------------- MODULE Worker -------------------------------
(***************************************************************************)
(* What a goroutine of runDNSWorker computes (internal/dnsanitize/         *)
(* dnsanitize.go): it resolves the domain of a template entry and compares *)
(* the answer with the entry (Matches, matchRecords and tryAugment in      *)
(* internal/dns/template.go).  An answer matches if it has the status and, *)
(* up to order, the records of one of the alternatives.  Records of the    *)
(* template may be globs, so that the records have to be assigned to one   *)
(* another; the assignment is built glob by glob and rerouted.             *)
(*                                                                         *)
(* Letters a and b stand for any two characters of a record, A and B for   *)
(* their upper-case forms.                                                 *)
(***************************************************************************)
EXTENDS GlobMatch, Resolver, FiniteSetsExt, Functions

CONSTANTS
  Letters,  \* the characters of records
  Inputs    \* pairs <<entry, exchange>>: alternatives of tokens, and what the
            \* network does

\* The statuses a template may name.
StatusWords == {"TIMEOUT", "NOERROR", "FORMERR", "NOTIMP", "NXDOMAIN", "SERVFAIL"}

Fields == {"A", "CNAME"}

\* A token is a word, or the record key=pattern.
Tokens == [key : StatusWords \cup Fields, pattern : Seq(Seq(Letters))]

Parses(tokens) ==
  \/ Len(tokens) = 1 /\ tokens[1].key \in StatusWords
  \/ /\ tokens # <<>>
     /\ \A k \in DOMAIN tokens : tokens[k].key \in Fields /\ tokens[k].pattern # <<>>

Records == [type : Fields \cup {"other"}, data : Seq(Letters)]

Exchanges ==
  [ answered : BOOLEAN, err : Error,
    response : [rcode : Rcodes, records : Seq(Records)] ]

ASSUME InputsAssumption ==
  \A pair \in Inputs :
    /\ pair[1] \in Seq(Seq(Tokens)) \ {<<>>}
    /\ \A k \in DOMAIN pair[1] : Parses(pair[1][k])
    /\ pair[2] \in Exchanges

VARIABLES
  exchange,         \* what the network does to the query
  validAnswers,     \* check.ValidAnswers
  answer,           \* the answer of ResolveDNS
  choice,           \* index of the alternative that is tried
  field,            \* the records that are compared: "A", then "CNAME"
  pc,               \* what the worker does next
  valueCounts,      \* how often each lower-cased value is left
  globs,            \* the indices of the patterns with a '*'
  remainingValues,  \* valueCounts as a sequence
  adj,              \* the indices of the remaining values each glob matches
  patternIdx,       \* globs before this one have been assigned
  valueToPattern,   \* the glob each remaining value is assigned to, or 0
  visited,          \* the values that the calls of tryAugment have tried
  wanted,           \* the calls in progress: the value each of them wants, and
                    \* for which it has called tryAugment on the owner
  result            \* "none" until Matches returns

query == <<exchange, validAnswers, answer>>
graph == <<globs, remainingValues, adj>>
assignment == <<patternIdx, valueToPattern, visited, wanted>>
vars == <<query, choice, field, pc, valueCounts, graph, assignment, result>>

-----------------------------------------------------------------------------
(* The entry and the query.                                                *)

\* The patterns of the records of one kind, in their order.
PatternsOf(tokens, key) ==
  Chosen([k \in DOMAIN tokens |-> tokens[k].pattern],
         {k \in DOMAIN tokens : tokens[k].key = key})

LowerAll(patterns) == [k \in DOMAIN patterns |-> LowerPattern(patterns[k])]

\* Records imply NOERROR.
NewDNSAnswerData(tokens) ==
  IF tokens[1].key \in StatusWords
    THEN [status |-> tokens[1].key, A |-> <<>>, CNAME |-> <<>>]
    ELSE [status |-> "NOERROR", A |-> PatternsOf(tokens, "A"),
          CNAME |-> LowerAll(PatternsOf(tokens, "CNAME"))]

Init ==
  /\ \E pair \in Inputs :
       /\ validAnswers = [k \in DOMAIN pair[1] |-> NewDNSAnswerData(pair[1][k])]
       /\ exchange = pair[2]
  /\ answer = Bare("")
  /\ choice = 1 /\ field = "A" /\ pc = "query"
  /\ valueCounts = <<>>
  /\ globs = {} /\ remainingValues = <<>> /\ adj = <<>>
  /\ patternIdx = 1 /\ valueToPattern = <<>> /\ visited = {} /\ wanted = <<>>
  /\ result = "none"

Query ==
  /\ pc = "query"
  /\ answer' = ResolveDNS(exchange)
  /\ pc' = "status"
  /\ UNCHANGED <<exchange, validAnswers, choice, field, valueCounts, graph, assignment, result>>

-----------------------------------------------------------------------------
(* Matches: the loop over the alternatives.                                *)

\* matchRecords starts afresh at each call.
Call(label) ==
  /\ pc' = label
  /\ valueCounts' = <<>>
  /\ globs' = {} /\ remainingValues' = <<>> /\ adj' = <<>>
  /\ patternIdx' = 1 /\ valueToPattern' = <<>> /\ visited' = {} /\ wanted' = <<>>

Return(r) ==
  /\ result' = r
  /\ UNCHANGED <<choice, field>>
  /\ Call("done")

StopAtFirst == Return("differ")

\* An alternative that fails hands over to the next one.
NextAlternative ==
  IF choice < Len(validAnswers)
    THEN /\ choice' = choice + 1
         /\ field' = "A"
         /\ Call("status")
         /\ UNCHANGED result
    ELSE Return("differ")

\* The records of a kind match: on to the next kind.
NextField ==
  IF field = "A"
    THEN /\ field' = "CNAME"
         /\ Call("count")
         /\ UNCHANGED <<choice, result>>
    ELSE Return("match")

CompareStatus ==
  /\ pc = "status"
  /\ IF validAnswers[choice].status = answer.status
       THEN /\ Call("count")
            /\ UNCHANGED <<choice, field, result>>
       ELSE NextAlternative
  /\ UNCHANGED query

-----------------------------------------------------------------------------
(* matchRecords(patterns, values).                                         *)

patterns == LowerAll(validAnswers[choice][field])
values   == LET words == answer[field] IN [k \in DOMAIN words |-> Lower(words[k])]

CountIn(x, seq) == Cardinality({k \in DOMAIN seq : seq[k] = x})

CountValues ==
  /\ pc = "count"
  /\ IF Len(patterns) # Len(values) THEN NextAlternative
     ELSE IF patterns = <<>> THEN NextField
     ELSE /\ valueCounts' = [v \in ToSet(values) |-> CountIn(v, values)]
          /\ pc' = "exact"
          /\ UNCHANGED <<choice, field, graph, assignment, result>>
  /\ UNCHANGED query

\* Every exact pattern finds a value that no other one has consumed.
ExactPatternsFound ==
  \A k \in DOMAIN patterns :
    LET p == patterns[k]
    IN  HasStar(p) \/ (p[1] \in DOMAIN valueCounts
                         /\ CountIn(p, patterns) <= valueCounts[p[1]])

\* Phase 1: the exact patterns consume their values, the globs are kept.
ConsumeExact ==
  /\ pc = "exact"
  /\ IF ~ExactPatternsFound THEN NextAlternative
     ELSE IF ~ \E k \in DOMAIN patterns : HasStar(patterns[k]) THEN NextField
     ELSE /\ valueCounts' =
               [v \in DOMAIN valueCounts |-> valueCounts[v] - CountIn(<<v>>, patterns)]
          /\ globs' = {k \in DOMAIN patterns : HasStar(patterns[k])}
          /\ pc' = "list"
          /\ UNCHANGED <<choice, field, remainingValues, adj, assignment, result>>
  /\ UNCHANGED query

\* Phase 2: the range over a map yields the values in any order, each as often
\* as it is left.
Orders ==
  {seq \in SeqOf(DOMAIN valueCounts, Len(values)) :
     /\ \A v \in DOMAIN valueCounts : CountIn(v, seq) = valueCounts[v]
     /\ \A i, j \in DOMAIN seq : seq[i] = seq[j] => \A k \in i .. j : seq[k] = seq[i]}

ListValues ==
  /\ pc = "list"
  /\ \E seq \in Orders :
       LET matched == [k \in globs |-> {j \in DOMAIN seq : Globs(patterns[k], seq[j])}]
       IN  IF Len(seq) # Cardinality(globs) \/ \E k \in globs : matched[k] = {}
             THEN NextAlternative
             ELSE /\ remainingValues' = seq
                  /\ adj' = matched
                  /\ valueToPattern' = [j \in DOMAIN seq |-> 0]
                  /\ pc' = "assign"
                  /\ UNCHANGED <<choice, field, valueCounts, globs, patternIdx, visited,
                                 wanted, result>>
  /\ UNCHANGED query

-----------------------------------------------------------------------------
(* Phase 3: one glob after the other is assigned by tryAugment.            *)

UnchangedButCalls == UNCHANGED <<query, choice, field, valueCounts, graph, result>>

GlobsLeft == {g \in globs : g >= patternIdx}

\* The next glob is assigned with a fresh visited.
AssignNextGlob ==
  /\ pc = "assign"
  /\ IF GlobsLeft = {} THEN NextField /\ UNCHANGED query
     ELSE /\ patternIdx' = Min(GlobsLeft)
          /\ visited' = {} /\ wanted' = <<>>
          /\ pc' = "augment"
          /\ valueToPattern' = valueToPattern
          /\ UnchangedButCalls

\* The glob of the n-th call: the first is for patternIdx, each other one for
\* the owner of the value that its caller wants.
GlobOf(n) == IF n = 1 THEN patternIdx ELSE valueToPattern[wanted[n - 1]]

\* The call that is running, and the values it has still to try, in increasing
\* order.
Running == GlobOf(Len(wanted) + 1)

Untried == adj[Running] \ visited

StealValue(j) == TRUE

Unassigned(j) == valueToPattern[j] = 0

\* The value is assigned already: the call asks its owner to move.
CallOwner ==
  /\ pc = "augment" /\ Untried # {}
  /\ LET j == Min(Untried)
     IN  /\ ~Unassigned(j)
         /\ visited' = visited \cup {j}
         /\ wanted' = Append(wanted, j)
  /\ UNCHANGED <<patternIdx, pc, valueToPattern>>
  /\ UnchangedButCalls

\* The value is free: it is assigned, and so is, as the calls return, the value
\* that each of the callers wanted.
TakeValue ==
  /\ pc = "augment" /\ Untried # {}
  /\ LET path == Append(wanted, Min(Untried))
     IN  /\ Unassigned(Min(Untried))
         /\ valueToPattern' =
              [j \in DOMAIN valueToPattern |->
                 IF \E n \in DOMAIN path : path[n] = j
                   THEN GlobOf(CHOOSE n \in DOMAIN path : path[n] = j)
                   ELSE valueToPattern[j]]
         /\ patternIdx' = patternIdx + 1
         /\ visited' = {} /\ wanted' = <<>>
         /\ pc' = "assign"
  /\ UnchangedButCalls

\* No value is left for the call: it fails, and its caller tries the next one;
\* if it has none, the glob cannot be assigned.
CallFails ==
  /\ pc = "augment" /\ Untried = {}
  /\ IF wanted = <<>> THEN NextAlternative /\ UNCHANGED query
     ELSE /\ wanted' = Front(wanted)
          /\ UNCHANGED <<patternIdx, pc, valueToPattern, visited>>
          /\ UnchangedButCalls

Returned == pc = "done" /\ UNCHANGED vars

Next ==
  \/ Query \/ CompareStatus
  \/ CountValues \/ ConsumeExact \/ ListValues
  \/ AssignNextGlob \/ CallOwner \/ TakeValue \/ CallFails
  \/ Returned

Spec == Init /\ [][Next]_vars

-----------------------------------------------------------------------------
(* Properties.                                                             *)

\* Each pattern can be given a value of its own that it means, and no value
\* is left.
Assignable(ps, vs) ==
  /\ Len(ps) = Len(vs)
  /\ \E f \in Bijection(DOMAIN ps, DOMAIN vs) :
       \A k \in DOMAIN ps : Means(LowerPattern(ps[k]), Lower(vs[f[k]]))

\* The worker passes an answer exactly if one alternative has its status and,
\* up to order and case, its records, in whatever order the map is ranged over
\* and the globs stand: an exact pattern that consumes a value first, a glob
\* that takes one, or a segment that is cut out of a value, never keeps the
\* others from a match.
DecidesTheMatch ==
  pc = "done" =>
    (result = "match" <=>
       \E k \in DOMAIN validAnswers :
         LET alternative == validAnswers[k]
         IN  /\ alternative.status = answer.status
             /\ Assignable(alternative.A, answer.A)
             /\ Assignable(alternative.CNAME, answer.CNAME))

\* globMatch never regrets a cut: what is left of a pattern after any number of
\* segments, behind a star, means what is left of the value exactly if the
\* whole means the whole; and a segment that is not found excludes a match.
NoCutRegretted ==
  pc = "list" =>
    \A g \in globs, v \in DOMAIN valueCounts :
      \A k \in 1 .. Len(patterns[g]) - 1 :
        LET cut  == CutTo(patterns[g], v, k)
            rest == <<<<>>>> \o After(patterns[g], k)
        IN  Means(patterns[g], v) <=> cut.found /\ Means(rest, cut.left)

\* Rerouting loses nothing: the globs tried so far have one value each, a
\* value they mean, and the others have none.
AssignmentKept ==
  pc = "assign" =>
    /\ \A g \in globs \ GlobsLeft : CountIn(g, valueToPattern) = 1
    /\ \A j \in DOMAIN valueToPattern :
         LET g == valueToPattern[j]
         IN  g # 0 => g \in globs \ GlobsLeft /\ Means(patterns[g], remainingValues[j])

\* A time limit ran out, at some layer of the network.
TimedOut(err) ==
  err.deadline \/ err.lookup = "timeout" \/ err.timeout \/ err.errno = "ETIMEDOUT"

\* Without a response a check passes only if an alternative lets it time out
\* and a time limit did run out; and if the query was cancelled, as those of a
\* dropped server are, only if its own deadline had expired as well: the
\* timeout that a cancelled socket reports is not enough.
NoReplyNoPass ==
  result = "match" /\ ~exchange.answered =>
    /\ \E k \in DOMAIN validAnswers : validAnswers[k].status = "TIMEOUT"
    /\ TimedOut(exchange.err)
    /\ exchange.err.canceled => exchange.err.deadline
=============================================================================
