----------------------------- MODULE WorkerProofs -----------------------------
(***************************************************************************)
(* Proofs about the worker, for entries of any number of alternatives and  *)
(* records, responses of any number of records, and records of any length  *)
(* over any letters.  The invariant is built in layers: the shape of the   *)
(* state, then the assignment of values to globs and the calls of          *)
(* tryAugment that change it, then what the comparisons so far decided.    *)
(***************************************************************************)
EXTENDS Worker, GlobMatchProofs, FiniteSetTheorems, FunctionTheorems

-----------------------------------------------------------------------------
(* The inputs.                                                             *)

\* The letters of lower-cased records.
M == Letters \cup {"a", "b"}

Word == Seq(M)

Pattern == Seq(Word) \ {<<>>}

Alternative == [status : StatusWords, A : Seq(Pattern), CNAME : Seq(Pattern)]

\* Sequences over more.
LEMMA SeqGrows == ASSUME NEW S, NEW T, S \subseteq T PROVE Seq(S) \subseteq Seq(T)
<1>1. ASSUME NEW s \in Seq(S) PROVE s \in Seq(T)
  <2>1. s \in [1 .. Len(s) -> T] /\ Len(s) \in Nat
    OBVIOUS
  <2> QED
    BY <2>1
<1> QED
  BY <1>1

\* Letters are letters of lower-cased records.
LEMMA LettersAreM ==
  /\ Seq(Letters) \subseteq Word
  /\ Seq(Seq(Letters)) \ {<<>>} \subseteq Pattern
<1>1. Seq(Letters) \subseteq Word
  BY SeqGrows DEF M, Word
<1>2. Seq(Seq(Letters)) \subseteq Seq(Word)
  BY <1>1, SeqGrows
<1> QED
  BY <1>1, <1>2 DEF Pattern

\* The patterns of a list of tokens.
LEMMA PatternsOfType ==
  ASSUME NEW tokens \in Seq(Tokens), NEW key, NEW D,
         \A k \in DOMAIN tokens : tokens[k].key = key => tokens[k].pattern \in D
  PROVE  PatternsOf(tokens, key) \in Seq(D)
<1> DEFINE items == [k \in DOMAIN tokens |-> tokens[k].pattern]
           chosen == {k \in DOMAIN tokens : tokens[k].key = key}
<1>1. Len(items) = Len(tokens) /\ Len(tokens) \in Nat /\ DOMAIN tokens = 1 .. Len(tokens)
  OBVIOUS
<1>2. \A k \in 1 .. Len(items) : k \in chosen => items[k] \in D
  BY <1>1
<1> HIDE DEF items, chosen
<1>3. Chosen(items, chosen) \in Seq(D)
  BY <1>1, <1>2, ChosenType
<1> QED
  BY <1>3 DEF PatternsOf, items, chosen

\* The data of the records of a response.
LEMMA DataType ==
  ASSUME NEW response, response.records \in Seq(Records), NEW type
  PROVE  Data(response, type) \in Seq(Seq(Letters))
<1> DEFINE records == response.records
           items == [k \in DOMAIN records |-> records[k].data]
           chosen == {k \in DOMAIN records : records[k].type = type}
           D == Seq(Letters)
<1>1. Len(items) = Len(records) /\ Len(records) \in Nat /\ DOMAIN records = 1 .. Len(records)
  OBVIOUS
<1>2. \A k \in DOMAIN records : records[k].data \in D
  <2> HIDE DEF D
  <2>1. \A r \in Records : r.data \in D
    BY DEF Records, D
  <2> QED
    BY <2>1
<1>3. \A k \in 1 .. Len(items) : k \in chosen => items[k] \in D
  BY <1>1, <1>2
<1> HIDE DEF items, chosen, D
<1>4. Chosen(items, chosen) \in Seq(D)
  BY <1>1, <1>3, ChosenType
<1> QED
  BY <1>4 DEF Data, items, chosen, D

\* Lower-cased patterns and words.
LEMMA LowerWords ==
  /\ \A word \in Word : Lower(word) \in Word /\ Lower(Lower(word)) = Lower(word)
  /\ \A p \in Pattern :
       /\ LowerPattern(p) \in Pattern
       /\ Len(LowerPattern(p)) = Len(p)
       /\ LowerPattern(LowerPattern(p)) = LowerPattern(p)
<1>1. M \cup {"a", "b"} = M
  BY DEF M
<1>2. \A word \in Word : Lower(word) \in Word /\ Lower(Lower(word)) = Lower(word)
  BY <1>1, LowerTypes DEF Word
<1>3. \A p \in Seq(Word) :
        /\ LowerPattern(p) \in Seq(Word)
        /\ Len(LowerPattern(p)) = Len(p)
        /\ LowerPattern(LowerPattern(p)) = LowerPattern(p)
  BY <1>1, LowerTypes DEF Word
<1>4. \A p \in Seq(Word) : p = <<>> <=> Len(p) = 0
  OBVIOUS
<1> QED
  BY <1>2, <1>3, <1>4 DEF Pattern

\* Lists of patterns.
LEMMA LowerLists ==
  ASSUME NEW ps \in Seq(Pattern)
  PROVE  /\ LowerAll(ps) \in Seq(Pattern) /\ Len(LowerAll(ps)) = Len(ps)
         /\ \A k \in 1 .. Len(ps) : LowerPattern(LowerAll(ps)[k]) = LowerAll(ps)[k]
<1>1. LowerAll(ps) = [k \in 1 .. Len(ps) |-> LowerPattern(ps[k])]
  BY DEF LowerAll
<1>2. \A k \in 1 .. Len(ps) :
        /\ LowerPattern(ps[k]) \in Pattern
        /\ LowerPattern(LowerPattern(ps[k])) = LowerPattern(ps[k])
  BY LowerWords
<1> QED
  BY <1>1, <1>2

\* What NewDNSAnswerData makes of an alternative that parses.
LEMMA AlternativeType ==
  ASSUME NEW tokens \in Seq(Tokens), Parses(tokens)
  PROVE  NewDNSAnswerData(tokens) \in Alternative
<1>1. CASE tokens[1].key \in StatusWords
  <2>1. <<>> \in Seq(Pattern)
    OBVIOUS
  <2> QED
    BY <1>1, <2>1 DEF NewDNSAnswerData, Alternative
<1>2. CASE tokens[1].key \notin StatusWords
  <2>1. \A k \in DOMAIN tokens : tokens[k].pattern \in Seq(Seq(Letters)) \ {<<>>}
    <3>1. \A k \in DOMAIN tokens : tokens[k].pattern # <<>>
      BY <1>2 DEF Parses
    <3>2. \A k \in DOMAIN tokens : tokens[k] \in Tokens
      OBVIOUS
    <3>3. \A t \in Tokens : t.pattern \in Seq(Seq(Letters))
      BY DEF Tokens
    <3> QED
      BY <3>1, <3>2, <3>3
  <2>2. \A k \in DOMAIN tokens : tokens[k].pattern \in Pattern
    BY <2>1, LettersAreM
  <2>3. PatternsOf(tokens, "A") \in Seq(Pattern) /\ PatternsOf(tokens, "CNAME") \in Seq(Pattern)
    BY <2>2, PatternsOfType
  <2>4. LowerAll(PatternsOf(tokens, "CNAME")) \in Seq(Pattern)
    BY <2>3, LowerLists
  <2>5. "NOERROR" \in StatusWords
    BY DEF StatusWords
  <2> QED
    BY <1>2, <2>3, <2>4, <2>5 DEF NewDNSAnswerData, Alternative
<1> QED
  BY <1>1, <1>2

\* The answer holds the records of the response.
LEMMA AnswerType ==
  ASSUME NEW e \in Exchanges
  PROVE  ResolveDNS(e).A \in Seq(Word) /\ ResolveDNS(e).CNAME \in Seq(Word)
<1>1. e.response.records \in Seq(Records)
  BY DEF Exchanges
<1>2. /\ Data(e.response, "A") \in Seq(Seq(Letters))
      /\ Data(e.response, "CNAME") \in Seq(Seq(Letters))
  BY <1>1, DataType
<1>3. Data(e.response, "A") \in Seq(Word) /\ Data(e.response, "CNAME") \in Seq(Word)
  BY <1>2, LettersAreM, SeqGrows
<1>4. <<>> \in Seq(Word)
  OBVIOUS
<1> QED
  BY <1>3, <1>4 DEF ResolveDNS, Bare

-----------------------------------------------------------------------------
(* Layer 1: the shape of the state, and the status.                        *)

Searching == {"count", "exact", "list", "assign", "augment"}

Labels == {"query", "status", "done"} \cup Searching

Typed ==
  /\ exchange \in Exchanges
  /\ validAnswers \in Seq(Alternative) \ {<<>>}
  /\ choice \in 1 .. Len(validAnswers)
  /\ field \in Fields
  /\ pc \in Labels
  /\ pc = "query" => result = "none"
  /\ pc # "query" => answer = ResolveDNS(exchange)

\* Records are compared only for an alternative that has the status.
StatusFirst ==
  /\ pc \in Searching => validAnswers[choice].status = answer.status
  /\ result = "match" => \E k \in DOMAIN validAnswers : validAnswers[k].status = answer.status

\* The entry is parsed into alternatives.
LEMMA TypedInit == Init => Typed /\ StatusFirst
<1> SUFFICES ASSUME Init PROVE Typed /\ StatusFirst
  OBVIOUS
<1>1. PICK pair \in Inputs :
        /\ validAnswers = [k \in DOMAIN pair[1] |-> NewDNSAnswerData(pair[1][k])]
        /\ exchange = pair[2]
  BY DEF Init
<1>2. /\ pair[1] \in Seq(Seq(Tokens)) \ {<<>>}
      /\ \A k \in DOMAIN pair[1] : Parses(pair[1][k])
      /\ pair[2] \in Exchanges
  BY InputsAssumption
<1> DEFINE entry == pair[1]
           n == Len(entry)
<1>3. n \in Nat /\ n # 0 /\ DOMAIN entry = 1 .. n /\ \A k \in 1 .. n : entry[k] \in Seq(Tokens)
  BY <1>2
<1>4. \A k \in 1 .. n : NewDNSAnswerData(entry[k]) \in Alternative
  BY <1>2, <1>3, AlternativeType
<1>5. validAnswers = [k \in 1 .. n |-> NewDNSAnswerData(entry[k])]
  BY <1>1, <1>3
<1> HIDE DEF n, entry
<1>6. validAnswers \in Seq(Alternative) /\ Len(validAnswers) = n
  BY <1>3, <1>4, <1>5
<1>7. validAnswers # <<>>
  BY <1>3, <1>6
<1>8. choice \in 1 .. Len(validAnswers)
  <2>1. choice = 1
    BY DEF Init
  <2> QED
    BY <1>3, <1>6, <2>1
<1> QED
  BY <1>1, <1>2, <1>6, <1>7, <1>8 DEF Init, Typed, StatusFirst, Labels, Searching, Fields

\* The steps that the handlers share.
LEMMA TypedHandlers ==
  ASSUME Typed, StatusFirst, pc \notin {"query", "done"}, UNCHANGED query
  PROVE  /\ NextAlternative => Typed' /\ StatusFirst'
         /\ NextField /\ pc \in Searching => Typed' /\ StatusFirst'
<1>1. ASSUME NextAlternative PROVE Typed' /\ StatusFirst'
  <2>1. choice' \in 1 .. Len(validAnswers)
    BY <1>1 DEF NextAlternative, Return, Typed
  <2>2. field' \in Fields
    BY <1>1 DEF NextAlternative, Return, Typed, Fields
  <2>3. \/ pc' = "done" /\ result' = "differ"
        \/ pc' = "status" /\ result' = result
    BY <1>1 DEF NextAlternative, Return, Call
  <2> QED
    BY <2>1, <2>2, <2>3 DEF Typed, StatusFirst, query, Labels, Searching
<1>2. ASSUME NextField, pc \in Searching PROVE Typed' /\ StatusFirst'
  <2>1. validAnswers[choice].status = answer.status /\ choice \in DOMAIN validAnswers
    BY <1>2 DEF Typed, StatusFirst
  <2>2. choice' = choice /\ field' \in Fields
    BY <1>2 DEF NextField, Return, Typed, Fields
  <2>3. \/ pc' = "count" /\ result' = result
        \/ pc' = "done" /\ result' = "match"
    BY <1>2 DEF NextField, Return, Call
  <2> QED
    BY <2>1, <2>2, <2>3 DEF Typed, StatusFirst, query, Labels, Searching
<1> QED
  BY <1>1, <1>2

\* Every step of the worker keeps the types.
LEMMA TypedNext == Typed /\ StatusFirst /\ [Next]_vars => Typed' /\ StatusFirst'
<1> SUFFICES ASSUME Typed, StatusFirst, [Next]_vars PROVE Typed' /\ StatusFirst'
  OBVIOUS
<1>1. ASSUME UNCHANGED <<query, choice, field, result>>, pc \in Searching, pc' \in Searching
      PROVE  Typed' /\ StatusFirst'
  BY <1>1 DEF Typed, StatusFirst, query, Labels, Searching
<1>2. CASE Query
  BY <1>2 DEF Query, Typed, StatusFirst, Labels, Searching
<1>3. CASE CompareStatus
  <2>1. pc = "status" /\ UNCHANGED query
    BY <1>3 DEF CompareStatus
  <2>2. CASE validAnswers[choice].status = answer.status
    <3>1. pc' = "count" /\ UNCHANGED <<choice, field, result>>
      BY <1>3, <2>2 DEF CompareStatus, Call
    <3> QED
      BY <2>1, <2>2, <3>1 DEF Typed, StatusFirst, query, Labels, Searching
  <2>3. CASE validAnswers[choice].status # answer.status
    <3>1. NextAlternative
      BY <1>3, <2>3 DEF CompareStatus
    <3> QED
      BY <2>1, <3>1, TypedHandlers
  <2> QED
    BY <2>2, <2>3
<1>4. CASE CountValues
  <2>1. pc = "count" /\ pc \in Searching /\ UNCHANGED query
    BY <1>4 DEF CountValues, Searching
  <2>2. NextAlternative \/ NextField \/ (pc' = "exact" /\ UNCHANGED <<choice, field, result>>)
    BY <1>4 DEF CountValues
  <2> QED
    BY <1>1, <2>1, <2>2, TypedHandlers DEF Searching
<1>5. CASE ConsumeExact
  <2>1. pc = "exact" /\ pc \in Searching /\ UNCHANGED query
    BY <1>5 DEF ConsumeExact, Searching
  <2>2. NextAlternative \/ NextField \/ (pc' = "list" /\ UNCHANGED <<choice, field, result>>)
    BY <1>5 DEF ConsumeExact
  <2> QED
    BY <1>1, <2>1, <2>2, TypedHandlers DEF Searching
<1>6. CASE ListValues
  <2>1. pc = "list" /\ pc \in Searching /\ UNCHANGED query
    BY <1>6 DEF ListValues, Searching
  <2>2. NextAlternative \/ (pc' = "assign" /\ UNCHANGED <<choice, field, result>>)
    BY <1>6 DEF ListValues
  <2> QED
    BY <1>1, <2>1, <2>2, TypedHandlers DEF Searching
<1>7. CASE AssignNextGlob
  <2>1. pc = "assign" /\ pc \in Searching /\ UNCHANGED query
    BY <1>7 DEF AssignNextGlob, Searching, UnchangedButCalls
  <2>2. NextField \/ (pc' = "augment" /\ UNCHANGED <<choice, field, result>>)
    BY <1>7 DEF AssignNextGlob, UnchangedButCalls
  <2> QED
    BY <1>1, <2>1, <2>2, TypedHandlers DEF Searching
<1>8. CASE CallOwner
  BY <1>1, <1>8 DEF CallOwner, UnchangedButCalls, Searching
<1>9. CASE TakeValue
  BY <1>1, <1>9 DEF TakeValue, UnchangedButCalls, Searching
<1>10. CASE CallFails
  <2>1. pc = "augment" /\ pc \in Searching /\ UNCHANGED query
    BY <1>10 DEF CallFails, Searching, UnchangedButCalls
  <2>2. NextAlternative \/ (pc' = "augment" /\ UNCHANGED <<choice, field, result>>)
    BY <1>10 DEF CallFails, UnchangedButCalls
  <2> QED
    BY <1>1, <2>1, <2>2, TypedHandlers DEF Searching
<1>11. CASE UNCHANGED vars
  BY <1>11 DEF vars, query, Typed, StatusFirst
<1> QED
  BY <1>2, <1>3, <1>4, <1>5, <1>6, <1>7, <1>8, <1>9, <1>10, <1>11 DEF Next, Returned

\* The types hold always.
LEMMA TypedHolds == Spec => [](Typed /\ StatusFirst)
BY TypedInit, TypedNext, PTL DEF Spec

\* Without a response a check passes only by an alternative TIMEOUT and for a
\* time limit that ran out; for a query that was cancelled, only if its own
\* deadline had expired as well.
THEOREM SilenceFails == Spec => []NoReplyNoPass
<1>1. Typed /\ StatusFirst => NoReplyNoPass
  <2> SUFFICES ASSUME Typed, StatusFirst, result = "match", ~exchange.answered
               PROVE  /\ \E k \in DOMAIN validAnswers : validAnswers[k].status = "TIMEOUT"
                      /\ TimedOut(exchange.err)
                      /\ exchange.err.canceled => exchange.err.deadline
    BY DEF NoReplyNoPass
  <2> DEFINE err == exchange.err
  <2>1. pc # "query" /\ answer = ResolveDNS(exchange)
    BY DEF Typed
  <2>2. answer.status = MapResolveError(err)
    BY <2>1 DEF ResolveDNS, Bare
  <2>3. MapResolveError(err) \in {"TIMEOUT", "ERROR", "ERRNO"}
    BY DEF MapResolveError
  <2>4. PICK k \in DOMAIN validAnswers : validAnswers[k].status = answer.status
    BY DEF StatusFirst
  <2>5. validAnswers[k].status \in StatusWords
    <3>1. validAnswers[k] \in Alternative
      BY DEF Typed
    <3> QED
      BY <3>1 DEF Alternative
  <2>6. MapResolveError(err) = "TIMEOUT"
    BY <2>2, <2>3, <2>4, <2>5 DEF StatusWords
  <2>7. TimedOut(err) /\ (err.canceled => err.deadline)
    BY <2>6 DEF MapResolveError, TimedOut
  <2> QED
    BY <2>2, <2>4, <2>6, <2>7
<1> QED
  BY <1>1, TypedHolds, PTL

-----------------------------------------------------------------------------
(* Layer 2: what is left for the globs, and who has it.                    *)

GlobsIn(ps) == {k \in DOMAIN ps : HasStar(ps[k])}

\* The values that the exact patterns leave.
LeftBy(ps, vs, seq) ==
  /\ seq \in Seq(ToSet(vs))
  /\ \A v \in ToSet(vs) : CountIn(v, seq) = CountIn(v, vs) - CountIn(<<v>>, ps)

\* The globs before idx own one value each, and one they match.
KeptBy(A, G, idx, owner) ==
  /\ \A j \in DOMAIN owner : owner[j] # 0 => owner[j] < idx /\ j \in A[owner[j]]
  /\ \A i, j \in DOMAIN owner : owner[i] = owner[j] /\ owner[i] # 0 => i = j
  /\ \A g \in G : g < idx => \E j \in DOMAIN owner : owner[j] = g

\* Each call wants a value that its glob matches and that no other call wants.
\* Every value that was tried is owned, and if no call wants it any more, then
\* every value its owner matches was tried.
Chain ==
  /\ patternIdx \in globs
  /\ visited \subseteq DOMAIN valueToPattern
  /\ wanted \in Seq(visited)
  /\ \A m, n \in 1 .. Len(wanted) : wanted[m] = wanted[n] => m = n
  /\ \A n \in 1 .. Len(wanted) : wanted[n] \in adj[GlobOf(n)]
  /\ \A j \in visited : valueToPattern[j] # 0
  /\ \A j \in visited :
       \/ \E n \in 1 .. Len(wanted) : wanted[n] = j
       \/ adj[valueToPattern[j]] \subseteq visited

\* Up to ConsumeExact every value counts, from then on what is left.
Counted ==
  /\ pc \in {"exact", "list", "assign", "augment"} =>
       Len(patterns) = Len(values) /\ DOMAIN valueCounts = ToSet(values)
  /\ pc = "exact" => \A v \in ToSet(values) : valueCounts[v] = CountIn(v, values)
  /\ pc \in {"list", "assign", "augment"} =>
       /\ globs = GlobsIn(patterns)
       /\ \A v \in ToSet(values) :
            valueCounts[v] = CountIn(v, values) - CountIn(<<v>>, patterns)
       /\ \A k \in DOMAIN patterns \ globs : patterns[k][1] \in ToSet(values)
  /\ pc \in {"query", "status", "count", "exact", "list"} => patternIdx = 1

Assigning ==
  /\ pc \in {"assign", "augment"} =>
       /\ LeftBy(patterns, values, remainingValues)
       /\ Len(remainingValues) = Cardinality(globs)
       /\ adj = [k \in globs |-> {j \in DOMAIN remainingValues :
                                    Globs(patterns[k], remainingValues[j])}]
       /\ patternIdx \in Nat
       /\ valueToPattern \in [DOMAIN remainingValues -> globs \cup {0}]
       /\ KeptBy(adj, globs, patternIdx, valueToPattern)
  /\ pc = "augment" => Chain

\* The least of some numbers.
LEMMA LeastIn ==
  ASSUME NEW S \in SUBSET Nat, S # {}
  PROVE  Min(S) \in S /\ \A x \in S : Min(S) <= x
<1> DEFINE R == OpToRel(<, Nat)
<1>1. IsWellFoundedOn(R, Nat) /\ S \subseteq Nat /\ S # {}
  BY NatLessThanWellFounded
<1>2. \A x, y \in Nat : x < y => <<x, y>> \in R
  BY DEF OpToRel
<1> HIDE DEF R
<1>3. PICK x \in S : \A y \in S : ~ (<<y, x>> \in R)
  BY <1>1, WFMin
<1>4. \A y \in S : ~(y < x)
  BY <1>2, <1>3
<1>5. \A y \in S : x <= y
  BY <1>4
<1> QED
  BY <1>5 DEF Min

\* The values of the records that are compared, and their patterns, are in
\* lower case.
LEMMA ComparedTypes ==
  ASSUME Typed, pc # "query"
  PROVE  /\ patterns \in Seq(Pattern) /\ values \in Seq(Word)
         /\ Len(patterns) = Len(validAnswers[choice][field])
         /\ Len(values) = Len(answer[field])
         /\ \A k \in DOMAIN patterns :
              /\ patterns[k] = LowerPattern(validAnswers[choice][field][k])
              /\ LowerPattern(patterns[k]) = patterns[k]
         /\ \A k \in DOMAIN values :
              values[k] = Lower(answer[field][k]) /\ Lower(values[k]) = values[k]
<1> DEFINE ps == validAnswers[choice][field]
           words == answer[field]
<1>1. ps \in Seq(Pattern)
  <2>1. validAnswers[choice] \in Alternative
    BY DEF Typed
  <2>2. \A a \in Alternative : a["A"] \in Seq(Pattern) /\ a["CNAME"] \in Seq(Pattern)
    BY DEF Alternative
  <2> QED
    BY <2>1, <2>2 DEF Typed, Fields
<1>2. words \in Seq(Word)
  <2>1. answer["A"] \in Seq(Word) /\ answer["CNAME"] \in Seq(Word)
    BY AnswerType DEF Typed
  <2> QED
    BY <2>1 DEF Typed, Fields
<1>3. patterns = LowerAll(ps)
  BY DEF patterns
<1>4. values = [k \in 1 .. Len(words) |-> Lower(words[k])]
  BY <1>2 DEF values
<1> HIDE DEF ps, words
<1>5. LowerAll(ps) = [k \in 1 .. Len(ps) |-> LowerPattern(ps[k])]
  BY <1>1 DEF LowerAll
<1>6. patterns \in Seq(Pattern) /\ Len(patterns) = Len(ps)
  BY <1>1, <1>3, LowerLists
<1>7. \A k \in DOMAIN patterns :
        patterns[k] = LowerPattern(ps[k]) /\ LowerPattern(patterns[k]) = patterns[k]
  BY <1>1, <1>3, <1>5, LowerLists
<1>8. \A k \in 1 .. Len(words) : Lower(words[k]) \in Word
                                   /\ Lower(Lower(words[k])) = Lower(words[k])
  BY <1>2, LowerWords
<1>9. values \in Seq(Word) /\ Len(values) = Len(words)
  BY <1>2, <1>4, <1>8
<1>10. \A k \in DOMAIN values :
         values[k] = Lower(words[k]) /\ Lower(values[k]) = values[k]
  BY <1>4, <1>8
<1> QED
  BY <1>6, <1>7, <1>9, <1>10 DEF ps, words

\* globMatch of the patterns and values that are compared.
LEMMA ComparedMeaning ==
  ASSUME Typed, pc # "query", NEW k \in DOMAIN patterns, NEW v \in ToSet(values)
  PROVE  /\ Globs(patterns[k], v) <=> Means(patterns[k], v)
         /\ Means(LowerPattern(patterns[k]), Lower(v)) <=> Means(patterns[k], v)
         /\ ~HasStar(patterns[k]) => (Means(patterns[k], v) <=> v = patterns[k][1])
<1>1. patterns[k] \in Pattern /\ LowerPattern(patterns[k]) = patterns[k]
  BY ComparedTypes
<1>2. v \in Word /\ Lower(v) = v
  BY ComparedTypes DEF ToSet
<1>3. patterns[k] \in Seq(Seq(M)) /\ patterns[k] # <<>> /\ v \in Seq(M)
  BY <1>1, <1>2 DEF Pattern, Word
<1>4. Globs(patterns[k], v) <=> Means(LowerPattern(patterns[k]), Lower(v))
  BY <1>3, GlobsMeans
<1>5. ASSUME ~HasStar(patterns[k]) PROVE Means(patterns[k], v) <=> v = patterns[k][1]
  <2>1. Len(patterns[k]) = 1
    <3>1. Len(patterns[k]) \in Nat /\ Len(patterns[k]) # 0
      BY <1>3
    <3>2. \A x \in Nat : x # 0 /\ ~(x > 1) => x = 1
      OBVIOUS
    <3>3. ~(Len(patterns[k]) > 1)
      BY <1>5 DEF HasStar
    <3> QED
      BY <3>1, <3>2, <3>3
  <2> QED
    BY <1>3, <2>1, OneSegment
<1> QED
  BY <1>1, <1>2, <1>4, <1>5

\* A path of different values from the glob idx to a free value: each value is
\* wanted by a caller that matches it, and all but the first caller own the
\* value before theirs.
IsPath(A, D, idx, owner, n, path, caller) ==
  /\ path \in [1 .. n -> D]
  /\ \A i, j \in 1 .. n : path[i] = path[j] => i = j
  /\ caller[1] = idx
  /\ \A i \in 1 .. n - 1 : owner[path[i]] # 0 /\ caller[i + 1] = owner[path[i]]
  /\ owner[path[n]] = 0
  /\ \A i \in 1 .. n : path[i] \in A[caller[i]]

\* Each value on the path moves to its caller.
Moved(D, owner, n, path, caller, new) ==
  /\ new = [j \in D |-> new[j]]
  /\ \A i \in 1 .. n : new[path[i]] = caller[i]
  /\ \A j \in D : ~(\E i \in 1 .. n : path[i] = j) => new[j] = owner[j]

\* The effect of TakeValue: the globs up to idx own one value each.
LEMMA PathTaken ==
  ASSUME NEW D, NEW G \in SUBSET (Nat \ {0}), NEW A, NEW idx \in G,
         NEW owner \in [D -> G \cup {0}], KeptBy(A, G, idx, owner),
         NEW n \in Nat \ {0}, NEW path, NEW caller,
         IsPath(A, D, idx, owner, n, path, caller),
         NEW new, Moved(D, owner, n, path, caller, new)
  PROVE  new \in [D -> G \cup {0}] /\ KeptBy(A, G, idx + 1, new)
<1> DEFINE OnPath(j) == \E i \in 1 .. n : path[i] = j
<1>1. DOMAIN owner = D /\ DOMAIN new = D /\ idx \in Nat /\ idx # 0
  BY DEF Moved
<1>2. \A i \in 1 .. n : path[i] \in D /\ new[path[i]] = caller[i]
  <2> TAKE i \in 1 .. n
  <2>1. path[i] \in D
    BY DEF IsPath
  <2> QED
    BY <2>1 DEF Moved
<1>3. \A j \in D : ~OnPath(j) => new[j] = owner[j]
  BY DEF Moved
<1>4. /\ \A j \in D : owner[j] # 0 => owner[j] < idx /\ j \in A[owner[j]]
      /\ \A i, j \in D : owner[i] = owner[j] /\ owner[i] # 0 => i = j
      /\ \A g \in G : g < idx => \E j \in D : owner[j] = g
  BY <1>1 DEF KeptBy
<1>5. \A i \in 2 .. n :
        i - 1 \in 1 .. n - 1 /\ i - 1 \in 1 .. n /\ path[i - 1] \in D
          /\ owner[path[i - 1]] # 0 /\ caller[i] = owner[path[i - 1]]
  <2> TAKE i \in 2 .. n
  <2>1. i - 1 \in 1 .. n - 1 /\ i - 1 \in 1 .. n /\ (i - 1) + 1 = i
    OBVIOUS
  <2> QED
    BY <1>2, <2>1 DEF IsPath
<1>0. caller[1] = idx /\ \A i \in 1 .. n : path[i] \in A[caller[i]]
  BY DEF IsPath
<1>6. \A i \in 1 .. n : i = 1 \/ i \in 2 .. n
  OBVIOUS
<1>7. \A x \in Nat : x < idx => x < idx + 1
  BY <1>1
<1>8. idx < idx + 1
  BY <1>1
<1>9. \A j \in D : owner[j] \in Nat /\ (owner[j] # 0 => owner[j] \in G)
  <2> TAKE j \in D
  <2>1. owner[j] = 0 \/ owner[j] \in G
    OBVIOUS
  <2>2. \A x \in G : x \in Nat
    OBVIOUS
  <2>3. 0 \in Nat
    OBVIOUS
  <2> QED
    BY <2>1, <2>2, <2>3, Zenon
<1>10. \A i \in 1 .. n : caller[i] \in G /\ caller[i] # 0 /\ caller[i] < idx + 1
  <2> TAKE i \in 1 .. n
  <2>1. CASE i = 1
    BY <1>0, <1>1, <1>8, <2>1
  <2>2. CASE i \in 2 .. n
    BY <1>4, <1>5, <1>7, <1>9, <2>2
  <2> QED
    BY <1>6, <2>1, <2>2
<1>11. \A i \in 2 .. n : caller[i] # idx
  <2> TAKE i \in 2 .. n
  <2>1. caller[i] \in Nat /\ caller[i] < idx
    BY <1>4, <1>5, <1>9
  <2> QED
    BY <1>1, <2>1
<1>12. \A i, k \in 1 .. n : caller[i] = caller[k] => i = k
  <2>1. ASSUME NEW i \in 2 .. n, NEW k \in 2 .. n, caller[i] = caller[k] PROVE i = k
    <3>1. path[i - 1] = path[k - 1]
      BY <1>4, <1>5, <2>1
    <3>2. i - 1 = k - 1
      BY <1>5, <3>1 DEF IsPath
    <3> QED
      BY <3>2
  <2> QED
    BY <1>0, <1>6, <1>11, <2>1
<1>13. \A j \in D, i \in 1 .. n : ~OnPath(j) /\ owner[j] # 0 => owner[j] # caller[i]
  <2> SUFFICES ASSUME NEW j \in D, NEW i \in 1 .. n, ~OnPath(j), owner[j] # 0,
                      owner[j] = caller[i]
               PROVE  FALSE
    OBVIOUS
  <2>1. i # 1
    <3>1. owner[j] \in Nat /\ owner[j] < idx
      BY <1>4, <1>9
    <3> QED
      BY <1>0, <1>1, <3>1
  <2>2. i \in 2 .. n
    BY <1>6, <2>1
  <2>3. path[i - 1] = j
    BY <1>4, <1>5, <2>2
  <2> QED
    BY <1>5, <2>2, <2>3
<1> HIDE DEF OnPath
<1>14. \A j \in D : OnPath(j) => \E i \in 1 .. n : path[i] = j
  BY DEF OnPath
<1>15. \A j \in D : new[j] \in G \cup {0}
  BY <1>2, <1>3, <1>9, <1>10, <1>14
<1>16. new \in [D -> G \cup {0}]
  <2>1. new = [j \in D |-> new[j]]
    BY DEF Moved
  <2> QED
    BY <1>15, <2>1
<1>17. \A j \in D : new[j] # 0 => new[j] < idx + 1 /\ j \in A[new[j]]
  <2> TAKE j \in D
  <2>1. CASE OnPath(j)
    BY <1>0, <1>2, <1>10, <1>14, <2>1
  <2>2. CASE ~OnPath(j)
    BY <1>3, <1>4, <1>7, <1>9, <2>2
  <2> QED
    BY <2>1, <2>2
<1>18. \A i, j \in D : new[i] = new[j] /\ new[i] # 0 => i = j
  <2> SUFFICES ASSUME NEW i \in D, NEW j \in D, new[i] = new[j], new[i] # 0 PROVE i = j
    OBVIOUS
  <2>1. CASE OnPath(i) /\ OnPath(j)
    BY <1>2, <1>12, <1>14, <2>1
  <2>2. CASE ~OnPath(i) /\ ~OnPath(j)
    BY <1>3, <1>4, <2>2
  <2>3. CASE OnPath(i) /\ ~OnPath(j)
    BY <1>2, <1>3, <1>13, <1>14, <2>3
  <2>4. CASE ~OnPath(i) /\ OnPath(j)
    BY <1>2, <1>3, <1>13, <1>14, <2>4
  <2> QED
    BY <2>1, <2>2, <2>3, <2>4
<1>19. ASSUME NEW g \in G, g < idx + 1 PROVE \E j \in D : new[j] = g
  <2>1. 1 \in 1 .. n /\ g \in Nat
    OBVIOUS
  <2>2. CASE g = idx
    BY <1>0, <1>2, <2>1, <2>2
  <2>3. CASE g < idx
    <3>1. PICK j \in D : owner[j] = g
      BY <1>4, <2>3
    <3>2. CASE ~OnPath(j)
      BY <1>3, <3>1, <3>2
    <3>3. CASE OnPath(j)
      <4>1. PICK i \in 1 .. n : path[i] = j
        BY <1>14, <3>3
      <4>2. i # n
        <5>1. owner[path[n]] = 0
          BY DEF IsPath
        <5> QED
          BY <3>1, <4>1, <5>1
      <4>3. i \in 1 .. n - 1 /\ i + 1 \in 1 .. n
        BY <4>2
      <4>4. caller[i + 1] = g
        BY <3>1, <4>1, <4>3 DEF IsPath
      <4> QED
        BY <1>2, <4>3, <4>4
    <3> QED
      BY <3>2, <3>3
  <2>4. g = idx \/ g < idx
    BY <1>1, <1>19, <2>1
  <2> QED
    BY <2>2, <2>3, <2>4
<1> QED
  BY <1>1, <1>16, <1>17, <1>18, <1>19 DEF KeptBy

\* What is compared stays the same.
LEMMA ComparedKept ==
  UNCHANGED <<validAnswers, answer, choice, field>> => patterns' = patterns /\ values' = values
BY DEF patterns, values

\* Outside of matchRecords there is nothing to say.
LEMMA NothingToMatch ==
  pc' \notin {"exact", "list", "assign", "augment"} /\ patternIdx' = 1 =>
    Counted' /\ Assigning'
BY DEF Counted, Assigning

\* The types of the assignment.
LEMMA AssignTypes ==
  ASSUME Typed, Counted, Assigning, pc \in {"assign", "augment"}
  PROVE  /\ globs \in SUBSET (Nat \ {0})
         /\ globs = GlobsIn(patterns) /\ globs \subseteq DOMAIN patterns
         /\ DOMAIN valueToPattern = DOMAIN remainingValues
         /\ DOMAIN remainingValues = 1 .. Len(remainingValues)
         /\ Len(remainingValues) \in Nat
         /\ \A j \in DOMAIN remainingValues : remainingValues[j] \in ToSet(values)
         /\ DOMAIN remainingValues \in SUBSET Nat
         /\ \A g \in globs : adj[g] = {j \in DOMAIN remainingValues :
                                         Globs(patterns[g], remainingValues[j])}
         /\ \A g \in globs : adj[g] \subseteq DOMAIN remainingValues
         /\ valueToPattern \in [DOMAIN remainingValues -> globs \cup {0}]
         /\ KeptBy(adj, globs, patternIdx, valueToPattern)
         /\ patternIdx \in Nat
<1>1. globs = GlobsIn(patterns)
  BY DEF Counted
<1>2. pc # "query"
  OBVIOUS
<1>3. patterns \in Seq(Pattern)
  BY <1>2, ComparedTypes
<1>4. globs \subseteq DOMAIN patterns /\ DOMAIN patterns = 1 .. Len(patterns)
  BY <1>1, <1>3 DEF GlobsIn
<1>5. globs \in SUBSET (Nat \ {0})
  <2>1. \A x \in 1 .. Len(patterns) : x \in Nat \ {0}
    OBVIOUS
  <2> QED
    BY <1>4, <2>1
<1>6. remainingValues \in Seq(ToSet(values))
  BY DEF Assigning, LeftBy
<1>7. /\ DOMAIN remainingValues = 1 .. Len(remainingValues)
      /\ Len(remainingValues) \in Nat
      /\ \A j \in DOMAIN remainingValues : remainingValues[j] \in ToSet(values)
  BY <1>6
<1>8. DOMAIN remainingValues \in SUBSET Nat
  BY <1>7
<1>9. \A g \in globs : adj[g] = {j \in DOMAIN remainingValues :
                                   Globs(patterns[g], remainingValues[j])}
  BY DEF Assigning
<1>10. valueToPattern \in [DOMAIN remainingValues -> globs \cup {0}]
  BY DEF Assigning
<1> QED
  BY <1>1, <1>4, <1>5, <1>7, <1>8, <1>9, <1>10 DEF Assigning

\* The callers are globs, and the values the running call has still to try.
LEMMA CallTypes ==
  ASSUME Typed, Counted, Assigning, pc = "augment"
  PROVE  /\ Chain
         /\ Len(wanted) \in Nat
         /\ \A n \in 1 .. Len(wanted) : wanted[n] \in visited
         /\ \A n \in 1 .. Len(wanted) + 1 : GlobOf(n) \in globs
         /\ Running \in globs
         /\ adj[Running] \subseteq DOMAIN remainingValues
         /\ Untried # {} =>
              /\ Min(Untried) \in adj[Running] /\ Min(Untried) \notin visited
              /\ Min(Untried) \in DOMAIN remainingValues
<1> DEFINE D == DOMAIN remainingValues
<1>1. Chain
  BY DEF Assigning
<1>2. /\ \A j \in D : valueToPattern[j] \in globs \cup {0}
      /\ \A g \in globs : adj[g] \subseteq D
      /\ D \in SUBSET Nat /\ DOMAIN valueToPattern = D
  <2>1. valueToPattern \in [D -> globs \cup {0}]
    BY AssignTypes
  <2> QED
    BY <2>1, AssignTypes
<1>3. Len(wanted) \in Nat /\ \A n \in 1 .. Len(wanted) : wanted[n] \in visited
  BY <1>1 DEF Chain
<1>4. ASSUME NEW n \in 1 .. Len(wanted) + 1 PROVE GlobOf(n) \in globs
  <2>1. CASE n = 1
    BY <1>1, <2>1 DEF GlobOf, Chain
  <2>2. CASE n # 1
    <3>1. n - 1 \in 1 .. Len(wanted)
      BY <1>3, <2>2
    <3>2. wanted[n - 1] \in D /\ valueToPattern[wanted[n - 1]] # 0
      BY <1>1, <1>2, <1>3, <3>1 DEF Chain
    <3> QED
      BY <1>2, <2>2, <3>2 DEF GlobOf
  <2> QED
    BY <2>1, <2>2
<1>5. Running \in globs
  <2>1. Len(wanted) + 1 \in 1 .. Len(wanted) + 1
    BY <1>3
  <2> QED
    BY <1>4, <2>1 DEF Running
<1>6. adj[Running] \subseteq D
  BY <1>2, <1>5
<1>7. Untried = adj[Running] \ visited
  BY DEF Untried
<1>8. Untried \in SUBSET Nat
  BY <1>2, <1>6, <1>7
<1>9. Untried # {} => Min(Untried) \in Untried
  BY <1>8, LeastIn
<1> QED
  BY <1>1, <1>3, <1>4, <1>5, <1>6, <1>7, <1>9

\* Before the query nothing is counted or assigned.
LEMMA CountedInit == Init => Counted /\ Assigning
BY DEF Init, Counted, Assigning

\* Up to the list of the values that are left.
LEMMA CountedBefore ==
  ASSUME Typed, Counted, Query \/ CompareStatus \/ CountValues \/ ConsumeExact \/ ListValues
  PROVE  Counted' /\ Assigning'
<1>1. ASSUME NextAlternative \/ NextField PROVE Counted' /\ Assigning'
  BY <1>1, NothingToMatch DEF NextAlternative, NextField, Return, Call
<1>2. CASE Query
  <2>1. pc = "query" /\ pc' = "status" /\ patternIdx' = patternIdx
    BY <1>2 DEF Query, assignment
  <2> QED
    BY <2>1, NothingToMatch DEF Counted
<1>3. CASE CompareStatus
  BY <1>1, <1>3, NothingToMatch DEF CompareStatus, Call
<1>4. CASE CountValues
  <2>1. CASE ~(NextAlternative \/ NextField)
    <3>1. /\ Len(patterns) = Len(values) /\ pc' = "exact"
          /\ valueCounts' = [v \in ToSet(values) |-> CountIn(v, values)]
          /\ UNCHANGED <<validAnswers, answer, choice, field, patternIdx>>
          /\ pc = "count"
      BY <1>4, <2>1 DEF CountValues, query, assignment
    <3>2. patterns' = patterns /\ values' = values
      BY <3>1, ComparedKept
    <3> QED
      BY <3>1, <3>2 DEF Counted, Assigning
  <2> QED
    BY <1>1, <2>1
<1>5. CASE ConsumeExact
  <2>1. CASE ~(NextAlternative \/ NextField)
    <3>1. /\ ExactPatternsFound /\ pc = "exact" /\ pc' = "list"
          /\ valueCounts' =
               [v \in DOMAIN valueCounts |-> valueCounts[v] - CountIn(<<v>>, patterns)]
          /\ globs' = {k \in DOMAIN patterns : HasStar(patterns[k])}
          /\ UNCHANGED <<validAnswers, answer, choice, field, patternIdx>>
      BY <1>5, <2>1 DEF ConsumeExact, query, assignment
    <3>2. patterns' = patterns /\ values' = values
      BY <3>1, ComparedKept
    <3>3. /\ Len(patterns) = Len(values) /\ DOMAIN valueCounts = ToSet(values)
          /\ \A v \in ToSet(values) : valueCounts[v] = CountIn(v, values)
      BY <3>1 DEF Counted
    <3>4. globs' = GlobsIn(patterns)
      BY <3>1 DEF GlobsIn
    <3>5. DOMAIN valueCounts' = ToSet(values)
      BY <3>1, <3>3
    <3>6. \A v \in ToSet(values) :
            valueCounts'[v] = CountIn(v, values) - CountIn(<<v>>, patterns)
      BY <3>1, <3>3
    <3>7. \A k \in DOMAIN patterns \ GlobsIn(patterns) : patterns[k][1] \in ToSet(values)
      BY <3>1, <3>3 DEF ExactPatternsFound, GlobsIn
    <3> QED
      BY <3>1, <3>2, <3>3, <3>4, <3>5, <3>6, <3>7 DEF Counted, Assigning
  <2> QED
    BY <1>1, <2>1
<1>6. CASE ListValues
  <2>1. CASE ~NextAlternative
    <3> DEFINE Matched(seq) ==
                 [k \in globs |-> {j \in DOMAIN seq : Globs(patterns[k], seq[j])}]
    <3>1. PICK seq \in Orders :
            /\ Len(seq) = Cardinality(globs)
            /\ remainingValues' = seq
            /\ adj' = Matched(seq)
            /\ valueToPattern' = [j \in DOMAIN seq |-> 0]
      BY <1>6, <2>1 DEF ListValues
    <3>2. /\ pc = "list" /\ pc' = "assign"
          /\ UNCHANGED <<validAnswers, answer, choice, field, valueCounts, globs, patternIdx>>
      BY <1>6, <2>1 DEF ListValues, query
    <3>3. patterns' = patterns /\ values' = values
      BY <3>2, ComparedKept
    <3>4. seq \in Seq(ToSet(values))
      BY <3>1, <3>2 DEF Orders, SeqOf, Counted
    <3>5. LeftBy(patterns, values, seq)
      BY <3>1, <3>2, <3>4 DEF Orders, LeftBy, Counted
    <3>6. Counted'
      BY <3>2, <3>3 DEF Counted
    <3>7. valueToPattern' \in [DOMAIN seq -> globs \cup {0}]
      BY <3>1
    <3>8. patternIdx = 1
      BY <3>2 DEF Counted
    <3>9. KeptBy(adj', globs, patternIdx, valueToPattern')
      <4>1. \A g \in globs : ~(g < 1)
        <5>1. globs \subseteq 1 .. Len(patterns)
          BY <3>2, ComparedTypes DEF Counted, GlobsIn
        <5> QED
          BY <5>1
      <4>2. DOMAIN valueToPattern' = DOMAIN seq
        BY <3>1
      <4>3. \A j \in DOMAIN seq : valueToPattern'[j] = 0
        BY <3>1
      <4> QED
        BY <3>8, <4>1, <4>2, <4>3 DEF KeptBy
    <3> QED
      BY <3>1, <3>2, <3>3, <3>5, <3>6, <3>7, <3>8, <3>9 DEF Assigning
  <2> QED
    BY <1>1, <2>1
<1> QED
  BY <1>2, <1>3, <1>4, <1>5, <1>6

\* What the calls of tryAugment leave alone.
LEMMA CallsKeep ==
  ASSUME Counted, Assigning, UnchangedButCalls,
         pc \in {"assign", "augment"}, pc' \in {"assign", "augment"}
  PROVE  /\ Counted'
         /\ patterns' = patterns /\ values' = values
         /\ /\ patternIdx' \in Nat
            /\ valueToPattern' \in [DOMAIN remainingValues -> globs \cup {0}]
            /\ KeptBy(adj, globs, patternIdx', valueToPattern')
            /\ pc' = "augment" => Chain'
            => Assigning'
<1>1. /\ UNCHANGED <<validAnswers, answer, choice, field, valueCounts>>
      /\ UNCHANGED <<globs, remainingValues, adj>>
  BY DEF UnchangedButCalls, query, graph
<1>2. patterns' = patterns /\ values' = values
  BY <1>1, ComparedKept
<1>3. Counted'
  BY <1>1, <1>2 DEF Counted
<1> QED
  BY <1>1, <1>2, <1>3 DEF Assigning

\* The next glob is the least that has no value.
LEMMA NextGlobKeeps ==
  ASSUME Typed, Counted, Assigning, AssignNextGlob, GlobsLeft # {}
  PROVE  Counted' /\ Assigning'
<1>1. /\ pc = "assign" /\ pc' = "augment" /\ UnchangedButCalls
      /\ patternIdx' = Min(GlobsLeft) /\ valueToPattern' = valueToPattern
      /\ visited' = {} /\ wanted' = <<>>
  BY DEF AssignNextGlob
<1> DEFINE D == DOMAIN remainingValues
           next == Min(GlobsLeft)
<1>2. /\ globs \in SUBSET (Nat \ {0}) /\ patternIdx \in Nat
      /\ valueToPattern \in [D -> globs \cup {0}] /\ DOMAIN valueToPattern = D
      /\ KeptBy(adj, globs, patternIdx, valueToPattern)
  BY <1>1, AssignTypes
<1>3. GlobsLeft \in SUBSET Nat
  BY <1>2 DEF GlobsLeft
<1>4. next \in GlobsLeft /\ \A g \in GlobsLeft : next <= g
  BY <1>3, LeastIn
<1> HIDE DEF next
<1>5. next \in globs /\ next \in Nat /\ patternIdx <= next
  BY <1>2, <1>4 DEF GlobsLeft
<1>6. \A g \in globs : g < next => g < patternIdx
  <2> TAKE g \in globs
  <2>1. g \in Nat
    BY <1>2
  <2>2. g >= patternIdx => next <= g
    BY <1>4 DEF GlobsLeft
  <2> QED
    BY <1>2, <1>5, <2>1, <2>2
<1>7. \A g \in globs : g < patternIdx => g < next
  <2> TAKE g \in globs
  <2>1. g \in Nat
    BY <1>2
  <2> QED
    BY <1>2, <1>5, <2>1
<1>8. \A j \in D : valueToPattern[j] # 0 => valueToPattern[j] \in globs
  BY <1>2
<1>9. KeptBy(adj, globs, next, valueToPattern)
  BY <1>2, <1>6, <1>7, <1>8 DEF KeptBy
<1>10. Chain'
  <2>1. globs' = globs /\ patternIdx' = next
    BY <1>1 DEF UnchangedButCalls, graph, next
  <2>2. wanted' \in Seq(visited') /\ Len(wanted') = 0
    BY <1>1
  <2>3. 1 .. Len(wanted') = {}
    BY <2>2
  <2> QED
    BY <1>1, <1>5, <2>1, <2>2, <2>3 DEF Chain
<1> QED
  BY <1>1, <1>2, <1>5, <1>9, <1>10, CallsKeep DEF next

\* The running call wants one more value, and calls its owner.
LEMMA CallOwnerKeeps ==
  ASSUME Typed, Counted, Assigning, CallOwner
  PROVE  Counted' /\ Assigning'
<1> DEFINE j == Min(Untried)
           n == Len(wanted)
           D == DOMAIN remainingValues
<1>1. /\ pc = "augment" /\ pc' = "augment" /\ UnchangedButCalls /\ Untried # {}
      /\ UNCHANGED <<patternIdx, valueToPattern>>
      /\ ~Unassigned(j) /\ visited' = visited \cup {j} /\ wanted' = Append(wanted, j)
  BY DEF CallOwner
<1>2. /\ Chain /\ n \in Nat /\ \A k \in 1 .. n : wanted[k] \in visited
      /\ j \in adj[Running] /\ j \notin visited /\ j \in D
  BY <1>1, CallTypes
<1>3. /\ valueToPattern \in [D -> globs \cup {0}] /\ DOMAIN valueToPattern = D
      /\ KeptBy(adj, globs, patternIdx, valueToPattern) /\ patternIdx \in Nat
  BY <1>1, AssignTypes
<1>4. valueToPattern[j] # 0
  BY <1>1 DEF Unassigned
<1>5. UNCHANGED <<globs, adj, remainingValues>>
  BY <1>1 DEF UnchangedButCalls, graph
<1>6. /\ patternIdx \in globs /\ visited \subseteq D /\ wanted \in Seq(visited)
      /\ \A k, m \in 1 .. n : wanted[k] = wanted[m] => k = m
      /\ \A k \in 1 .. n : wanted[k] \in adj[GlobOf(k)]
      /\ \A i \in visited : valueToPattern[i] # 0
      /\ \A i \in visited :
           \/ \E k \in 1 .. n : wanted[k] = i
           \/ adj[valueToPattern[i]] \subseteq visited
  BY <1>2, <1>3 DEF Chain
<1> HIDE DEF j
<1>7. wanted \in Seq(visited \cup {j})
  BY <1>6, SeqGrows
<1>8. /\ wanted' \in Seq(visited') /\ Len(wanted') = n + 1
      /\ wanted'[n + 1] = j /\ \A k \in 1 .. n : wanted'[k] = wanted[k]
  BY <1>1, <1>2, <1>7
<1> HIDE DEF n
<1>9. \A k \in 1 .. n + 1 : k \in 1 .. n \/ k = n + 1
  BY <1>2
<1>10. n + 1 \in 1 .. n + 1 /\ \A k \in 1 .. n : k \in 1 .. n + 1
  BY <1>2
<1>11. \A k, m \in 1 .. n + 1 : wanted'[k] = wanted'[m] => k = m
  <2>1. \A k \in 1 .. n : wanted[k] # j
    BY <1>2
  <2> QED
    BY <1>6, <1>8, <1>9, <2>1
<1>12. \A k \in 1 .. n + 1 : GlobOf(k)' = GlobOf(k)
  <2> TAKE k \in 1 .. n + 1
  <2>1. CASE k = 1
    BY <1>1, <2>1 DEF GlobOf
  <2>2. CASE k # 1
    <3>1. k - 1 \in 1 .. n
      BY <1>2, <2>2
    <3>2. wanted'[k - 1] = wanted[k - 1]
      BY <1>8, <3>1
    <3> QED
      BY <1>1, <2>2, <3>2 DEF GlobOf
  <2> QED
    BY <2>1, <2>2
<1>13. \A k \in 1 .. n + 1 : wanted'[k] \in adj[GlobOf(k)']
  <2>1. Running = GlobOf(n + 1)
    BY DEF Running, n
  <2> QED
    BY <1>2, <1>6, <1>8, <1>9, <1>12, <2>1
<1>14. \A i \in visited' :
         \/ \E k \in 1 .. n + 1 : wanted'[k] = i
         \/ adj[valueToPattern[i]] \subseteq visited'
  BY <1>1, <1>6, <1>8, <1>10
<1>15. Chain'
  <2>1. visited' \subseteq DOMAIN valueToPattern'
    BY <1>1, <1>2, <1>3, <1>6
  <2>2. \A i \in visited' : valueToPattern'[i] # 0
    BY <1>1, <1>4, <1>6
  <2>3. patternIdx' \in globs'
    BY <1>1, <1>5, <1>6
  <2>4. \A k \in 1 .. Len(wanted') : wanted'[k] \in adj'[GlobOf(k)']
    BY <1>5, <1>8, <1>13
  <2>5. \A k, m \in 1 .. Len(wanted') : wanted'[k] = wanted'[m] => k = m
    BY <1>8, <1>11
  <2>6. \A i \in visited' :
          \/ \E k \in 1 .. Len(wanted') : wanted'[k] = i
          \/ adj'[valueToPattern'[i]] \subseteq visited'
    BY <1>1, <1>5, <1>8, <1>14
  <2> QED
    BY <1>8, <2>1, <2>2, <2>3, <2>4, <2>5, <2>6 DEF Chain
<1> QED
  BY <1>1, <1>3, <1>15, CallsKeep

\* The value is free: every caller gets the value it wants.
LEMMA TakeValueKeeps ==
  ASSUME Typed, Counted, Assigning, TakeValue
  PROVE  Counted' /\ Assigning'
<1> DEFINE j == Min(Untried)
           path == Append(wanted, j)
           n == Len(wanted)
           D == DOMAIN remainingValues
           caller == [k \in 1 .. n + 1 |-> GlobOf(k)]
<1>1. /\ pc = "augment" /\ pc' = "assign" /\ UnchangedButCalls /\ Untried # {}
      /\ Unassigned(j) /\ patternIdx' = patternIdx + 1
      /\ valueToPattern' =
           [i \in DOMAIN valueToPattern |->
              IF \E k \in DOMAIN path : path[k] = i
                THEN GlobOf(CHOOSE k \in DOMAIN path : path[k] = i)
                ELSE valueToPattern[i]]
  BY DEF TakeValue
<1>2. /\ Chain /\ n \in Nat /\ \A k \in 1 .. n : wanted[k] \in visited
      /\ j \in adj[Running] /\ j \notin visited /\ j \in D
  BY <1>1, CallTypes
<1>3. /\ globs \in SUBSET (Nat \ {0})
      /\ valueToPattern \in [D -> globs \cup {0}] /\ DOMAIN valueToPattern = D
      /\ KeptBy(adj, globs, patternIdx, valueToPattern) /\ patternIdx \in Nat
  BY <1>1, AssignTypes
<1>4. valueToPattern[j] = 0
  BY <1>1 DEF Unassigned
<1>5. /\ patternIdx \in globs /\ visited \subseteq D /\ wanted \in Seq(visited)
      /\ \A k, m \in 1 .. n : wanted[k] = wanted[m] => k = m
      /\ \A k \in 1 .. n : wanted[k] \in adj[GlobOf(k)]
      /\ \A i \in visited : valueToPattern[i] # 0
  BY <1>2, <1>3 DEF Chain
<1> HIDE DEF j, D
<1>6. wanted \in Seq(D)
  BY <1>5, SeqGrows
<1>7. /\ path \in [1 .. n + 1 -> D] /\ DOMAIN path = 1 .. n + 1
      /\ path[n + 1] = j /\ \A k \in 1 .. n : path[k] = wanted[k]
  <2>1. path \in Seq(D) /\ Len(path) = n + 1
    BY <1>2, <1>6
  <2>2. path[n + 1] = j /\ \A k \in 1 .. n : path[k] = wanted[k]
    BY <1>2, <1>6
  <2> HIDE DEF path, n
  <2> QED
    BY <2>1, <2>2
<1> HIDE DEF path, n
<1>8. \A k \in 1 .. n + 1 : k \in 1 .. n \/ k = n + 1
  BY <1>2
<1>9. /\ n + 1 \in 1 .. n + 1 /\ 1 \in 1 .. n + 1 /\ n + 1 \in Nat \ {0}
      /\ (n + 1) - 1 = n
      /\ \A k \in 1 .. n : k \in 1 .. n + 1 /\ k + 1 \in 1 .. n + 1 /\ (k + 1) - 1 = k
                             /\ k + 1 # 1
  BY <1>2
<1>10. \A k, m \in 1 .. n + 1 : path[k] = path[m] => k = m
  <2>1. \A k \in 1 .. n : wanted[k] # j
    BY <1>2
  <2> QED
    BY <1>5, <1>7, <1>8, <2>1
<1>11. caller[1] = patternIdx
  BY <1>9 DEF GlobOf
<1>12. \A k \in 1 .. n : valueToPattern[path[k]] # 0 /\ caller[k + 1] = valueToPattern[path[k]]
  BY <1>2, <1>5, <1>7, <1>9 DEF GlobOf
<1>13. valueToPattern[path[n + 1]] = 0
  BY <1>4, <1>7
<1>14. \A k \in 1 .. n + 1 : path[k] \in adj[caller[k]]
  <2>1. Running = GlobOf(n + 1)
    BY DEF Running, n
  <2> QED
    BY <1>2, <1>5, <1>7, <1>8, <1>9, <2>1
<1>15. IsPath(adj, D, patternIdx, valueToPattern, n + 1, path, caller)
  BY <1>7, <1>9, <1>10, <1>11, <1>12, <1>13, <1>14 DEF IsPath
<1>16. Moved(D, valueToPattern, n + 1, path, caller, valueToPattern')
  <2>1. \A k \in 1 .. n + 1 : caller[k] = GlobOf(k) /\ path[k] \in D
    BY <1>7
  <2> HIDE DEF caller
  <2>2. ASSUME NEW k \in 1 .. n + 1 PROVE valueToPattern'[path[k]] = caller[k]
    <3>1. path[k] \in D /\ \E m \in DOMAIN path : path[m] = path[k]
      BY <1>7, <2>1
    <3>2. (CHOOSE m \in DOMAIN path : path[m] = path[k]) = k
      BY <1>7, <1>10
    <3>3. valueToPattern'[path[k]] = GlobOf(CHOOSE m \in DOMAIN path : path[m] = path[k])
      BY <1>1, <1>3, <3>1
    <3> QED
      BY <2>1, <3>2, <3>3
  <2>3. \A i \in D : ~(\E k \in 1 .. n + 1 : path[k] = i) =>
          valueToPattern'[i] = valueToPattern[i]
    BY <1>1, <1>3, <1>7
  <2>4. valueToPattern' = [i \in D |-> valueToPattern'[i]]
    BY <1>1, <1>3
  <2> QED
    BY <2>2, <2>3, <2>4 DEF Moved
<1> HIDE DEF caller
<1>17. /\ valueToPattern' \in [D -> globs \cup {0}]
       /\ KeptBy(adj, globs, patternIdx + 1, valueToPattern')
  BY <1>3, <1>5, <1>9, <1>15, <1>16, PathTaken
<1>18. patternIdx' \in Nat
  BY <1>1, <1>3
<1> QED
  BY <1>1, <1>17, <1>18, CallsKeep DEF D

\* A call fails: every value that its glob matches was tried.
LEMMA CallFailsKeeps ==
  ASSUME Typed, Counted, Assigning, CallFails, wanted # <<>>
  PROVE  Counted' /\ Assigning'
<1> DEFINE n == Len(wanted)
           D == DOMAIN remainingValues
<1>1. /\ pc = "augment" /\ pc' = "augment" /\ UnchangedButCalls /\ Untried = {}
      /\ UNCHANGED <<patternIdx, valueToPattern, visited>> /\ wanted' = Front(wanted)
  BY DEF CallFails
<1>2. /\ Chain /\ n \in Nat /\ \A k \in 1 .. n : wanted[k] \in visited
  BY <1>1, CallTypes
<1>3. /\ valueToPattern \in [D -> globs \cup {0}] /\ DOMAIN valueToPattern = D
      /\ KeptBy(adj, globs, patternIdx, valueToPattern) /\ patternIdx \in Nat
  BY <1>1, AssignTypes
<1>4. UNCHANGED <<globs, adj, remainingValues>>
  BY <1>1 DEF UnchangedButCalls, graph
<1>5. /\ patternIdx \in globs /\ visited \subseteq D /\ wanted \in Seq(visited)
      /\ \A k, m \in 1 .. n : wanted[k] = wanted[m] => k = m
      /\ \A k \in 1 .. n : wanted[k] \in adj[GlobOf(k)]
      /\ \A i \in visited : valueToPattern[i] # 0
      /\ \A i \in visited :
           \/ \E k \in 1 .. n : wanted[k] = i
           \/ adj[valueToPattern[i]] \subseteq visited
  BY <1>2, <1>3 DEF Chain
<1>6. n # 0
  BY <1>5
<1>7. n - 1 \in Nat /\ n \in 1 .. n /\ n + 1 # 1 /\ (n + 1) - 1 = n
  BY <1>2, <1>6
<1>8. /\ wanted' \in Seq(visited') /\ Len(wanted') = n - 1
      /\ \A k \in 1 .. n - 1 : wanted'[k] = wanted[k]
  BY <1>1, <1>5, <1>7 DEF Front
<1>9. adj[valueToPattern[wanted[n]]] \subseteq visited
  <2>1. Running = valueToPattern[wanted[n]]
    BY <1>7 DEF Running, GlobOf
  <2> QED
    BY <1>1, <2>1 DEF Untried
<1> HIDE DEF n
<1>10. \A k \in 1 .. n - 1 : k \in 1 .. n
  BY <1>2
<1>11. \A k \in 1 .. n - 1 : GlobOf(k)' = GlobOf(k)
  <2> TAKE k \in 1 .. n - 1
  <2>1. CASE k = 1
    BY <1>1, <2>1 DEF GlobOf
  <2>2. CASE k # 1
    <3>1. k - 1 \in 1 .. n - 1
      BY <1>2, <2>2
    <3>2. wanted'[k - 1] = wanted[k - 1]
      BY <1>8, <3>1
    <3> QED
      BY <1>1, <2>2, <3>2 DEF GlobOf
  <2> QED
    BY <2>1, <2>2
<1>12. \A k \in 1 .. n : k \in 1 .. n - 1 \/ k = n
  BY <1>2
<1>13. \A i \in visited :
         \/ \E k \in 1 .. n - 1 : wanted'[k] = i
         \/ adj[valueToPattern[i]] \subseteq visited
  BY <1>5, <1>8, <1>9, <1>12
<1>14. Chain'
  <2>1. visited' \subseteq DOMAIN valueToPattern'
    BY <1>1, <1>3, <1>5
  <2>2. \A i \in visited' : valueToPattern'[i] # 0
    BY <1>1, <1>5
  <2>3. patternIdx' \in globs'
    BY <1>1, <1>4, <1>5
  <2>4. \A k \in 1 .. Len(wanted') : wanted'[k] \in adj'[GlobOf(k)']
    BY <1>4, <1>5, <1>8, <1>10, <1>11
  <2>5. \A k, m \in 1 .. Len(wanted') : wanted'[k] = wanted'[m] => k = m
    BY <1>5, <1>8, <1>10
  <2>6. \A i \in visited' :
          \/ \E k \in 1 .. Len(wanted') : wanted'[k] = i
          \/ adj'[valueToPattern'[i]] \subseteq visited'
    BY <1>1, <1>4, <1>8, <1>13
  <2> QED
    BY <1>8, <2>1, <2>2, <2>3, <2>4, <2>5, <2>6 DEF Chain
<1> QED
  BY <1>1, <1>3, <1>14, CallsKeep

\* Every step of the worker keeps the counts and the assignment.
LEMMA CountedNext ==
  Typed /\ Counted /\ Assigning /\ [Next]_vars => Counted' /\ Assigning'
<1> SUFFICES ASSUME Typed, Counted, Assigning, [Next]_vars PROVE Counted' /\ Assigning'
  OBVIOUS
<1>1. ASSUME NextAlternative \/ NextField PROVE Counted' /\ Assigning'
  BY <1>1, NothingToMatch DEF NextAlternative, NextField, Return, Call
<1>2. CASE Query \/ CompareStatus \/ CountValues \/ ConsumeExact \/ ListValues
  BY <1>2, CountedBefore
<1>3. CASE AssignNextGlob
  BY <1>1, <1>3, NextGlobKeeps DEF AssignNextGlob
<1>4. CASE CallOwner
  BY <1>4, CallOwnerKeeps
<1>5. CASE TakeValue
  BY <1>5, TakeValueKeeps
<1>6. CASE CallFails
  BY <1>1, <1>6, CallFailsKeeps DEF CallFails
<1>7. CASE UNCHANGED vars
  <2>1. UNCHANGED <<validAnswers, answer, choice, field, pc, valueCounts, globs,
                    remainingValues, adj, patternIdx, valueToPattern, visited, wanted>>
    BY <1>7 DEF vars, query, graph, assignment
  <2>2. patterns' = patterns /\ values' = values
    BY <2>1, ComparedKept
  <2>3. Chain' = Chain
    BY <2>1 DEF Chain, GlobOf
  <2> QED
    BY <2>1, <2>2, <2>3 DEF Counted, Assigning
<1> QED
  BY <1>2, <1>3, <1>4, <1>5, <1>6, <1>7 DEF Next, Returned

\* The counts and the assignment hold always.
LEMMA AssigningHolds == Spec => [](Typed /\ StatusFirst /\ Counted /\ Assigning)
BY TypedInit, TypedNext, CountedInit, CountedNext, PTL DEF Spec

\* In the run of the worker as anywhere, no cut of globMatch is regretted.
THEOREM NoCutIsRegretted == Spec => []NoCutRegretted
<1>1. Typed /\ Counted => NoCutRegretted
  <2> SUFFICES ASSUME Typed, Counted, pc = "list", NEW g \in globs,
                      NEW v \in DOMAIN valueCounts, NEW k \in 1 .. Len(patterns[g]) - 1
               PROVE  LET cut  == CutTo(patterns[g], v, k)
                          rest == <<<<>>>> \o After(patterns[g], k)
                      IN  Means(patterns[g], v) <=> cut.found /\ Means(rest, cut.left)
    BY DEF NoCutRegretted
  <2>1. g \in DOMAIN patterns /\ v \in ToSet(values)
    BY DEF Counted, GlobsIn
  <2>2. patterns[g] \in Pattern
    BY <2>1, ComparedTypes
  <2>3. v \in Word
    BY <2>1, ComparedTypes DEF ToSet
  <2>4. patterns[g] \in Seq(Seq(M)) /\ v \in Seq(M)
    BY <2>2, <2>3 DEF Pattern, Word
  <2> QED
    BY <2>4, CutsNotRegretted
<1> QED
  BY <1>1, AssigningHolds, PTL

\* However often tryAugment reroutes, a glob that has a value keeps one.
THEOREM AssignmentIsKept == Spec => []AssignmentKept
<1>1. Typed /\ Counted /\ Assigning => AssignmentKept
  <2> SUFFICES ASSUME Typed, Counted, Assigning, pc = "assign" PROVE AssignmentKept
    BY DEF AssignmentKept
  <2> DEFINE D == DOMAIN remainingValues
  <2>1. /\ globs \in SUBSET (Nat \ {0}) /\ globs \subseteq DOMAIN patterns
        /\ DOMAIN valueToPattern = D
        /\ \A j \in D : remainingValues[j] \in ToSet(values)
        /\ \A g \in globs : adj[g] = {j \in D : Globs(patterns[g], remainingValues[j])}
        /\ valueToPattern \in [D -> globs \cup {0}]
        /\ KeptBy(adj, globs, patternIdx, valueToPattern) /\ patternIdx \in Nat
    BY AssignTypes
  <2>2. /\ \A j \in D : valueToPattern[j] # 0 =>
             valueToPattern[j] < patternIdx /\ j \in adj[valueToPattern[j]]
        /\ \A i, j \in D : valueToPattern[i] = valueToPattern[j] /\ valueToPattern[i] # 0 =>
             i = j
        /\ \A g \in globs : g < patternIdx => \E j \in D : valueToPattern[j] = g
    BY <2>1 DEF KeptBy
  <2>3. \A g \in globs : g \in Nat /\ g # 0 /\ (g \in GlobsLeft <=> ~(g < patternIdx))
    <3> TAKE g \in globs
    <3>1. g \in Nat \ {0}
      BY <2>1
    <3> QED
      BY <2>1, <3>1 DEF GlobsLeft
  <2>4. ASSUME NEW g \in globs \ GlobsLeft PROVE CountIn(g, valueToPattern) = 1
    <3>1. PICK j \in D : valueToPattern[j] = g
      BY <2>2, <2>3
    <3>2. {k \in DOMAIN valueToPattern : valueToPattern[k] = g} = {j}
      BY <2>1, <2>2, <2>3, <3>1
    <3> QED
      BY <3>2, FS_Singleton DEF CountIn
  <2>5. ASSUME NEW j \in D, valueToPattern[j] # 0
        PROVE  /\ valueToPattern[j] \in globs \ GlobsLeft
               /\ Means(patterns[valueToPattern[j]], remainingValues[j])
    <3> DEFINE g == valueToPattern[j]
    <3>1. g \in globs
      BY <2>1, <2>5
    <3>2. Globs(patterns[g], remainingValues[j])
      BY <2>1, <2>2, <2>5, <3>1
    <3>3. Means(patterns[g], remainingValues[j])
      BY <2>1, <3>1, <3>2, ComparedMeaning
    <3> QED
      BY <2>2, <2>3, <2>5, <3>1, <3>3
  <2> QED
    BY <2>1, <2>4, <2>5 DEF AssignmentKept
<1> QED
  BY <1>1, AssigningHolds, PTL

-----------------------------------------------------------------------------
(* Bijections that keep labels.                                            *)

\* The elements of S that a labels v.
Alike(S, a, v) == {x \in S : a[x] = v}

\* No label of S is less frequent in T.
Covers(T, b, S, a) ==
  \A x \in S : Cardinality(Alike(S, a, a[x])) <= Cardinality(Alike(T, b, a[x]))

\* A finite set can be mapped one to one into one that is not smaller.
LEMMA InjectionBySize ==
  ASSUME NEW S, IsFiniteSet(S), NEW T, IsFiniteSet(T), Cardinality(S) <= Cardinality(T)
  PROVE  Injection(S, T) # {}
<1> DEFINE m == Cardinality(S)
           n == Cardinality(T)
<1>1. /\ m \in Nat /\ ExistsBijection(1 .. m, S)
      /\ n \in Nat /\ ExistsBijection(1 .. n, T)
  BY FS_CardinalityType
<1>2. ExistsBijection(S, 1 .. m)
  BY <1>1, Fun_ExistsBijSymmetric
<1>3. ExistsInjection(S, 1 .. m) /\ ExistsInjection(1 .. n, T)
  BY <1>1, <1>2, Fun_ExistsBijEquiv
<1>4. ExistsInjection(1 .. m, 1 .. n)
  BY <1>1, Fun_NatInjLeq
<1>5. ExistsInjection(S, T)
  BY <1>3, <1>4, Fun_ExistsInjTransitive
<1> QED
  BY <1>5, Fun_ExistsInj

\* Then S can be mapped one to one into T such that the labels stay.
LEMMA InjectionByLabel ==
  ASSUME NEW S, IsFiniteSet(S), NEW T, IsFiniteSet(T), NEW a, NEW b, Covers(T, b, S, a)
  PROVE  \E f \in Injection(S, T) : \A x \in S : b[f[x]] = a[x]
<1> DEFINE choice1(v) == CHOOSE g : g \in Injection(Alike(S, a, v), Alike(T, b, v))
           f == [x \in S |-> choice1(a[x])[x]]
<1>1. ASSUME NEW x \in S
      PROVE  choice1(a[x]) \in Injection(Alike(S, a, a[x]), Alike(T, b, a[x]))
  <2>1. Alike(S, a, a[x]) \in SUBSET S /\ Alike(T, b, a[x]) \in SUBSET T
    BY DEF Alike
  <2>2. IsFiniteSet(Alike(S, a, a[x])) /\ IsFiniteSet(Alike(T, b, a[x]))
    BY <2>1, FS_Subset
  <2>3. Injection(Alike(S, a, a[x]), Alike(T, b, a[x])) # {}
    BY <2>2, InjectionBySize DEF Covers
  <2> QED
    BY <2>3
<1> HIDE DEF choice1
<1>2. \A x, y \in S : a[x] = a[y] =>
        /\ choice1(a[x])[y] \in Alike(T, b, a[x])
        /\ choice1(a[x])[x] = choice1(a[x])[y] => x = y
  <2> SUFFICES ASSUME NEW x \in S, NEW y \in S, a[x] = a[y]
               PROVE  /\ choice1(a[x])[y] \in Alike(T, b, a[x])
                      /\ choice1(a[x])[x] = choice1(a[x])[y] => x = y
    OBVIOUS
  <2> DEFINE A == Alike(S, a, a[x])
             B == Alike(T, b, a[x])
             g == choice1(a[x])
  <2>1. x \in A /\ y \in A
    BY DEF Alike
  <2>2. g \in Injection(A, B)
    BY <1>1
  <2> HIDE DEF A, B, g
  <2>3. g \in [A -> B] /\ \A u, w \in A : g[u] = g[w] => u = w
    BY <2>2, Fun_InjectionProperties
  <2>4. g[y] \in B /\ (g[x] = g[y] => x = y)
    BY <2>1, <2>3
  <2> QED
    BY <2>4 DEF g, B
<1>3. \A x \in S : f[x] \in T /\ b[f[x]] = a[x]
  BY <1>2 DEF Alike
<1>4. \A x, y \in S : f[x] = f[y] => x = y
  <2> SUFFICES ASSUME NEW x \in S, NEW y \in S, f[x] = f[y] PROVE x = y
    OBVIOUS
  <2>1. a[x] = a[y]
    <3> HIDE DEF f
    <3> QED
      BY <1>3
  <2>2. f[x] = choice1(a[x])[x] /\ f[y] = choice1(a[x])[y]
    BY <2>1
  <2> QED
    BY <1>2, <2>1, <2>2
<1>5. f \in [S -> T]
  BY <1>3
<1> HIDE DEF f
<1>6. f \in Injection(S, T)
  BY <1>4, <1>5, Fun_IsInj
<1> QED
  BY <1>3, <1>6

\* If no label is less frequent in either, there is a bijection.
LEMMA BijectionByLabel ==
  ASSUME NEW S, IsFiniteSet(S), NEW T, IsFiniteSet(T), NEW a, NEW b,
         Covers(T, b, S, a), Covers(S, a, T, b)
  PROVE  \E f \in Bijection(S, T) : \A x \in S : b[f[x]] = a[x]
<1>1. PICK f \in Injection(S, T) : \A x \in S : b[f[x]] = a[x]
  BY InjectionByLabel
<1>2. \E g \in Injection(T, S) : \A y \in T : a[g[y]] = b[y]
  BY InjectionByLabel
<1>3. Cardinality(S) <= Cardinality(T) /\ Cardinality(T) <= Cardinality(S)
  BY <1>1, <1>2, FS_Injection
<1>4. Cardinality(S) \in Nat /\ Cardinality(T) \in Nat
  BY FS_CardinalityType
<1>5. Cardinality(S) = Cardinality(T)
  BY <1>3, <1>4
<1>6. f \in Surjection(S, T)
  BY <1>1, <1>5, FS_Injection
<1>7. f \in Bijection(S, T)
  BY <1>1, <1>6, Fun_IsBij
<1> QED
  BY <1>1, <1>7

KeepsLabels(f, S, a, b) == \A x \in S : b[f[x]] = a[x]

\* A bijection that keeps labels keeps their frequencies.
LEMMA LabelsOfImage ==
  ASSUME NEW S, IsFiniteSet(S), NEW T, NEW f \in Bijection(S, T), NEW a, NEW b,
         KeepsLabels(f, S, a, b), NEW v
  PROVE  Cardinality(Alike(S, a, v)) = Cardinality(Alike(T, b, v))
<1> DEFINE A == Alike(S, a, v)
           B == Alike(T, b, v)
           g == [x \in A |-> f[x]]
<1>1. /\ f \in [S -> T] /\ \A x, y \in S : f[x] = f[y] => x = y
      /\ \A t \in T : \E x \in S : f[x] = t
  BY Fun_BijectionProperties
<1>2. A \in SUBSET S
  BY DEF Alike
<1>3. g \in [A -> B]
  BY <1>1 DEF Alike, KeepsLabels
<1>4. \A x, y \in A : g[x] = g[y] => x = y
  BY <1>1, <1>2
<1>5. \A t \in B : \E x \in A : g[x] = t
  BY <1>1 DEF Alike, KeepsLabels
<1> HIDE DEF g, A, B
<1>6. g \in Bijection(A, B)
  BY <1>3, <1>4, <1>5, Fun_IsBij
<1>7. ExistsBijection(A, B)
  BY <1>6, Fun_ExistsBij
<1>8. IsFiniteSet(A)
  BY <1>2, FS_Subset
<1> QED
  BY <1>7, <1>8, FS_Bijection DEF A, B

-----------------------------------------------------------------------------
(* Exact patterns first, then globs: nothing is lost.                      *)

\* Each pattern takes a value of its own that it means, and all are taken.
Pairs(ps, vs) ==
  \E f \in Bijection(DOMAIN ps, DOMAIN vs) : \A k \in DOMAIN ps : Means(ps[k], vs[f[k]])

\* The values the patterns take.
TakenBy(ps, vs, f) == [k \in DOMAIN ps |-> vs[f[k]]]

\* The patterns mean them.
AllMean(ps, a) == \A k \in DOMAIN ps : Means(ps[k], a[k])

\* The same of the globs and the values that are left for them.
GlobsMatched(ps, seq) ==
  \E m \in Bijection(GlobsIn(ps), DOMAIN seq) :
    \A k \in GlobsIn(ps) : Means(ps[k], seq[m[k]])

\* A pattern without a star means the word it is.
ExactMeans(ps, vs) ==
  \A k \in DOMAIN ps, v \in ToSet(vs) : ~HasStar(ps[k]) => (Means(ps[k], v) <=> v = ps[k][1])

\* The word of every exact pattern is among the values.
WordsIn(ps, vs) == \A k \in DOMAIN ps \ GlobsIn(ps) : ps[k][1] \in ToSet(vs)

\* The exact patterns keep their words.
KeepsWords(ps, a) == \A k \in DOMAIN ps \ GlobsIn(ps) : a[k] = ps[k][1]

\* An exact pattern is a sequence of one word.
LEMMA ExactIsWord ==
  ASSUME NEW ps \in Seq(Pattern), NEW k \in DOMAIN ps, ~HasStar(ps[k])
  PROVE  ps[k] = <<ps[k][1]>>
<1>1. ps[k] \in Seq(Word) /\ ps[k] # <<>>
  BY DEF Pattern
<1>2. PICK n \in Nat : n = Len(ps[k])
  BY <1>1
<1>3. n # 0
  BY <1>1, <1>2
<1>4. ~(n > 1)
  BY <1>2 DEF HasStar
<1>5. Len(ps[k]) = 1
  BY <1>2, <1>3, <1>4
<1>6. \A word \in Seq(Word) : Len(word) = 1 => word = <<word[1]>>
  OBVIOUS
<1>7. PICK word \in Seq(Word) : word = ps[k]
  BY <1>1
<1>8. word = <<word[1]>>
  BY <1>5, <1>6, <1>7
<1> QED
  BY <1>7, <1>8

\* The indices of a list are finite.
LEMMA IndicesFinite ==
  ASSUME NEW S, NEW s \in Seq(S)
  PROVE  /\ DOMAIN s = 1 .. Len(s) /\ Len(s) \in Nat
         /\ IsFiniteSet(DOMAIN s) /\ Cardinality(DOMAIN s) = Len(s)
         /\ \A T \in SUBSET DOMAIN s : IsFiniteSet(T) /\ Cardinality(T) \in Nat
<1>1. DOMAIN s = 1 .. Len(s) /\ Len(s) \in Nat
  OBVIOUS
<1>2. IsFiniteSet(1 .. Len(s)) /\ Cardinality(1 .. Len(s)) = Len(s)
  BY <1>1, FS_Interval
<1>3. ASSUME NEW T \in SUBSET DOMAIN s PROVE IsFiniteSet(T)
  <2>1. T \in SUBSET (1 .. Len(s))
    BY <1>1
  <2> QED
    BY <1>2, <2>1, FS_Subset
<1>4. \A T \in SUBSET DOMAIN s : Cardinality(T) \in Nat
  BY <1>3, FS_CardinalityType
<1> QED
  BY <1>1, <1>2, <1>3, <1>4

\* How often a value is taken: by the globs, and by the exact patterns.
LEMMA ExactAndGlobs ==
  ASSUME NEW ps \in Seq(Pattern), NEW a, KeepsWords(ps, a), NEW v
  PROVE  /\ Cardinality(Alike(GlobsIn(ps), a, v)) \in Nat
         /\ CountIn(<<v>>, ps) \in Nat
         /\ Cardinality(Alike(DOMAIN ps, a, v)) =
              Cardinality(Alike(GlobsIn(ps), a, v)) + CountIn(<<v>>, ps)
<1> DEFINE G == Alike(GlobsIn(ps), a, v)
           E == {k \in DOMAIN ps : ps[k] = <<v>>}
<1>1. G \in SUBSET DOMAIN ps /\ E \in SUBSET DOMAIN ps
  BY DEF Alike, GlobsIn
<1>2. ASSUME NEW k \in DOMAIN ps
      PROVE  k \in E <=> k \notin GlobsIn(ps) /\ a[k] = v
  <2>1. CASE HasStar(ps[k])
    <3>1. ~HasStar(<<v>>)
      BY DEF HasStar
    <3>2. ps[k] # <<v>>
      BY <2>1, <3>1
    <3> QED
      BY <2>1, <3>2 DEF GlobsIn
  <2>2. CASE ~HasStar(ps[k])
    <3>1. ps[k] = <<ps[k][1]>>
      BY <2>2, ExactIsWord
    <3>2. ps[k] = <<v>> <=> ps[k][1] = v
      BY <3>1
    <3>3. a[k] = ps[k][1]
      BY <2>2 DEF KeepsWords, GlobsIn
    <3> QED
      BY <2>2, <3>2, <3>3 DEF GlobsIn
  <2> QED
    BY <2>1, <2>2
<1>3. G \cap E = {} /\ G \cup E = Alike(DOMAIN ps, a, v)
  BY <1>2 DEF Alike, GlobsIn
<1>4. IsFiniteSet(G) /\ IsFiniteSet(E) /\ Cardinality(G) \in Nat /\ Cardinality(E) \in Nat
  BY <1>1, IndicesFinite
<1>5. Cardinality(E) = CountIn(<<v>>, ps)
  BY DEF CountIn
<1> HIDE DEF G, E
<1>6. Cardinality(G \cup E) = Cardinality(G) + Cardinality(E)
  <2>1. Cardinality(G \cup E) = Cardinality(G) + Cardinality(E) - Cardinality(G \cap E)
    BY <1>4, FS_Union
  <2>2. Cardinality(G \cap E) = 0
    BY <1>3, FS_EmptySet
  <2> QED
    BY <1>4, <2>1, <2>2
<1> QED
  BY <1>3, <1>4, <1>5, <1>6 DEF G

\* The values are counted by their labels.
LEMMA CountIsAlike ==
  ASSUME NEW v, NEW s
  PROVE  CountIn(v, s) = Cardinality(Alike(DOMAIN s, s, v))
BY DEF CountIn, Alike

\* Where the values come from: each is one of the list.
LEMMA IsListed ==
  ASSUME NEW S, NEW s \in Seq(S)
  PROVE  /\ \A k \in DOMAIN s : s[k] \in ToSet(s)
         /\ \A v \in ToSet(s) : \E k \in DOMAIN s : s[k] = v
BY DEF ToSet

\* If the patterns can take the values, each value is taken as often as it is
\* there, by the exact patterns and the globs together.
LEMMA PairsCount ==
  ASSUME NEW ps \in Seq(Pattern), NEW vs \in Seq(Word), ExactMeans(ps, vs),
         NEW f \in Bijection(DOMAIN ps, DOMAIN vs), AllMean(ps, TakenBy(ps, vs, f))
  PROVE  LET a == TakenBy(ps, vs, f)
         IN  /\ \A k \in DOMAIN ps : a[k] \in ToSet(vs)
             /\ KeepsWords(ps, a)
             /\ \A v : /\ Cardinality(Alike(GlobsIn(ps), a, v)) \in Nat
                       /\ CountIn(<<v>>, ps) \in Nat
                       /\ CountIn(v, vs) =
                            Cardinality(Alike(GlobsIn(ps), a, v)) + CountIn(<<v>>, ps)
<1> DEFINE a == TakenBy(ps, vs, f)
<1>1. f \in [DOMAIN ps -> DOMAIN vs]
  BY Fun_BijectionProperties
<1>2. \A k \in DOMAIN ps : a[k] = vs[f[k]] /\ f[k] \in DOMAIN vs
  BY <1>1 DEF TakenBy
<1> HIDE DEF a
<1>3. \A k \in DOMAIN ps : a[k] \in ToSet(vs)
  BY <1>2, IsListed
<1>4. \A k \in DOMAIN ps \ GlobsIn(ps) : a[k] = ps[k][1]
  BY <1>2, <1>3 DEF ExactMeans, GlobsIn, AllMean, a
<1>5. KeepsWords(ps, a)
  BY <1>4 DEF KeepsWords
<1>6. IsFiniteSet(DOMAIN ps)
  BY IndicesFinite
<1>7. KeepsLabels(f, DOMAIN ps, a, vs)
  BY <1>2 DEF KeepsLabels
<1>8. ASSUME NEW v
      PROVE  Cardinality(Alike(DOMAIN ps, a, v)) = CountIn(v, vs)
  BY <1>6, <1>7, LabelsOfImage, CountIsAlike
<1> QED
  BY <1>3, <1>5, <1>8, ExactAndGlobs DEF a

\* Then the globs can take what the exact patterns leave.
LEMMA PairsMatchGlobs ==
  ASSUME NEW ps \in Seq(Pattern), NEW vs \in Seq(Word), ExactMeans(ps, vs),
         NEW seq, LeftBy(ps, vs, seq), Pairs(ps, vs)
  PROVE  GlobsMatched(ps, seq)
<1>1. PICK f \in Bijection(DOMAIN ps, DOMAIN vs) : AllMean(ps, TakenBy(ps, vs, f))
  BY DEF Pairs, AllMean, TakenBy
<1> DEFINE a == TakenBy(ps, vs, f)
           G == GlobsIn(ps)
<1>3. /\ \A k \in DOMAIN ps : a[k] \in ToSet(vs)
      /\ \A v : /\ Cardinality(Alike(G, a, v)) \in Nat
                /\ CountIn(<<v>>, ps) \in Nat
                /\ CountIn(v, vs) = Cardinality(Alike(G, a, v)) + CountIn(<<v>>, ps)
  BY <1>1, PairsCount
<1> HIDE DEF a
<1>4. seq \in Seq(ToSet(vs)) /\ G \in SUBSET DOMAIN ps
  BY DEF LeftBy, GlobsIn
<1>5. IsFiniteSet(G) /\ IsFiniteSet(DOMAIN seq)
  BY <1>4, IndicesFinite
<1>6. \A x, y, z \in Nat : x = y + z => x - z = y
  OBVIOUS
<1>7. ASSUME NEW v \in ToSet(vs)
      PROVE  Cardinality(Alike(G, a, v)) = Cardinality(Alike(DOMAIN seq, seq, v))
  <2>1. CountIn(v, seq) = CountIn(v, vs) - CountIn(<<v>>, ps)
    BY DEF LeftBy
  <2>2. CountIn(v, seq) = Cardinality(Alike(G, a, v))
    BY <1>3, <2>1
  <2> QED
    BY <2>2, CountIsAlike
<1>8. \A x \in G : a[x] \in ToSet(vs)
  BY <1>3, <1>4
<1>9. \A y \in DOMAIN seq : seq[y] \in ToSet(vs)
  BY <1>4
<1>10. \A v \in ToSet(vs) :
         /\ Cardinality(Alike(G, a, v)) <= Cardinality(Alike(DOMAIN seq, seq, v))
         /\ Cardinality(Alike(DOMAIN seq, seq, v)) <= Cardinality(Alike(G, a, v))
  <2>1. \A x \in Nat : x <= x
    OBVIOUS
  <2> QED
    BY <1>3, <1>7, <2>1
<1>11. Covers(DOMAIN seq, seq, G, a) /\ Covers(G, a, DOMAIN seq, seq)
  BY <1>8, <1>9, <1>10 DEF Covers
<1> HIDE DEF G
<1>12. PICK m \in Bijection(G, DOMAIN seq) : \A x \in G : seq[m[x]] = a[x]
  BY <1>5, <1>11, BijectionByLabel
<1>13. \A k \in G : Means(ps[k], seq[m[k]])
  BY <1>1, <1>4, <1>12 DEF AllMean, a
<1> QED
  BY <1>13 DEF GlobsMatched, G

\* And no exact pattern fails to find a value.
LEMMA PairsFindWords ==
  ASSUME NEW ps \in Seq(Pattern), NEW vs \in Seq(Word), ExactMeans(ps, vs), Pairs(ps, vs),
         NEW k \in DOMAIN ps, ~HasStar(ps[k])
  PROVE  ps[k][1] \in ToSet(vs) /\ CountIn(ps[k], ps) <= CountIn(ps[k][1], vs)
<1>1. PICK f \in Bijection(DOMAIN ps, DOMAIN vs) : AllMean(ps, TakenBy(ps, vs, f))
  BY DEF Pairs, AllMean, TakenBy
<1> DEFINE a == TakenBy(ps, vs, f)
<1>2. /\ \A i \in DOMAIN ps : a[i] \in ToSet(vs)
      /\ KeepsWords(ps, a)
      /\ \A v : /\ Cardinality(Alike(GlobsIn(ps), a, v)) \in Nat
                /\ CountIn(<<v>>, ps) \in Nat
                /\ CountIn(v, vs) =
                     Cardinality(Alike(GlobsIn(ps), a, v)) + CountIn(<<v>>, ps)
  BY <1>1, PairsCount
<1> HIDE DEF a
<1>3. a[k] = ps[k][1]
  BY <1>2 DEF KeepsWords, GlobsIn
<1>4. ps[k] = <<ps[k][1]>>
  BY ExactIsWord
<1>5. \A x, y, z \in Nat : x = y + z => z <= x
  OBVIOUS
<1>6. CountIn(<<ps[k][1]>>, ps) <= CountIn(ps[k][1], vs)
  BY <1>2, <1>5
<1> QED
  BY <1>2, <1>3, <1>4, <1>6

\* Labels that the patterns mean, as frequent as the values, pair them.
LEMMA PairedByCount ==
  ASSUME NEW ps \in Seq(Pattern), NEW vs \in Seq(Word), NEW a, AllMean(ps, a),
         \A k \in DOMAIN ps : a[k] \in ToSet(vs),
         \A v \in ToSet(vs) : Cardinality(Alike(DOMAIN ps, a, v)) = CountIn(v, vs)
  PROVE  Pairs(ps, vs)
<1>1. IsFiniteSet(DOMAIN ps) /\ IsFiniteSet(DOMAIN vs)
  BY IndicesFinite
<1>2. \A v \in ToSet(vs) : /\ Cardinality(Alike(DOMAIN ps, a, v)) \in Nat
                           /\ Cardinality(Alike(DOMAIN ps, a, v)) =
                                Cardinality(Alike(DOMAIN vs, vs, v))
  <2> SUFFICES ASSUME NEW v \in ToSet(vs)
               PROVE  /\ Cardinality(Alike(DOMAIN ps, a, v)) \in Nat
                      /\ Cardinality(Alike(DOMAIN ps, a, v)) =
                           Cardinality(Alike(DOMAIN vs, vs, v))
    OBVIOUS
  <2>1. Alike(DOMAIN ps, a, v) \in SUBSET DOMAIN ps
    BY DEF Alike
  <2> QED
    BY <2>1, IndicesFinite, CountIsAlike
<1>3. \A x \in Nat : x <= x
  OBVIOUS
<1>4. \A v \in ToSet(vs) :
        /\ Cardinality(Alike(DOMAIN ps, a, v)) <= Cardinality(Alike(DOMAIN vs, vs, v))
        /\ Cardinality(Alike(DOMAIN vs, vs, v)) <= Cardinality(Alike(DOMAIN ps, a, v))
  BY <1>2, <1>3
<1>5. Covers(DOMAIN vs, vs, DOMAIN ps, a) /\ Covers(DOMAIN ps, a, DOMAIN vs, vs)
  BY <1>4, IsListed DEF Covers
<1>6. PICK f \in Bijection(DOMAIN ps, DOMAIN vs) : \A k \in DOMAIN ps : vs[f[k]] = a[k]
  BY <1>1, <1>5, BijectionByLabel
<1> QED
  BY <1>6 DEF Pairs, AllMean

\* If the globs can take what the exact patterns leave, all can take the values.
LEMMA GlobsMatchPairs ==
  ASSUME NEW ps \in Seq(Pattern), NEW vs \in Seq(Word), ExactMeans(ps, vs), WordsIn(ps, vs),
         NEW seq, LeftBy(ps, vs, seq), GlobsMatched(ps, seq)
  PROVE  Pairs(ps, vs)
<1> DEFINE G == GlobsIn(ps)
<1>1. PICK m \in Bijection(G, DOMAIN seq) : \A k \in G : Means(ps[k], seq[m[k]])
  BY DEF GlobsMatched
<1> DEFINE a == [k \in DOMAIN ps |-> IF k \in G THEN seq[m[k]] ELSE ps[k][1]]
<1>2. seq \in Seq(ToSet(vs)) /\ G \in SUBSET DOMAIN ps
  BY DEF LeftBy, GlobsIn
<1>3. m \in [G -> DOMAIN seq]
  BY <1>1, Fun_BijectionProperties
<1>4. /\ \A k \in G : a[k] = seq[m[k]]
      /\ \A k \in DOMAIN ps \ G : a[k] = ps[k][1]
  BY <1>2
<1> HIDE DEF a
<1>5. \A k \in DOMAIN ps : a[k] \in ToSet(vs)
  <2>1. \A k \in G : m[k] \in DOMAIN seq
    BY <1>3
  <2>2. \A j \in DOMAIN seq : seq[j] \in ToSet(vs)
    BY <1>2
  <2>3. \A k \in DOMAIN ps \ G : ps[k][1] \in ToSet(vs)
    BY DEF WordsIn
  <2> QED
    BY <1>4, <2>1, <2>2, <2>3
<1>6. AllMean(ps, a)
  BY <1>1, <1>4, <1>5 DEF AllMean, ExactMeans, GlobsIn
<1>7. KeepsWords(ps, a)
  BY <1>4 DEF KeepsWords
<1>8. IsFiniteSet(G)
  BY <1>2, IndicesFinite
<1>9. KeepsLabels(m, G, a, seq)
  BY <1>4 DEF KeepsLabels
<1>10. \A v : Cardinality(Alike(G, a, v)) = CountIn(v, seq)
  <2> HIDE DEF G
  <2> QED
    BY <1>1, <1>8, <1>9, LabelsOfImage, CountIsAlike
<1>11. ASSUME NEW v \in ToSet(vs)
       PROVE  Cardinality(Alike(DOMAIN ps, a, v)) = CountIn(v, vs)
  <2>1. /\ CountIn(v, seq) \in Nat /\ CountIn(<<v>>, ps) \in Nat
        /\ Cardinality(Alike(DOMAIN ps, a, v)) = CountIn(v, seq) + CountIn(<<v>>, ps)
    BY <1>7, <1>10, ExactAndGlobs
  <2>2. CountIn(v, seq) = CountIn(v, vs) - CountIn(<<v>>, ps)
    BY DEF LeftBy
  <2>3. CountIn(v, vs) \in Nat
    <3>1. Alike(DOMAIN vs, vs, v) \in SUBSET DOMAIN vs
      BY DEF Alike
    <3> QED
      BY <3>1, IndicesFinite, CountIsAlike
  <2>4. \A x, y, z \in Nat : x = y - z => x + z = y
    OBVIOUS
  <2> QED
    BY <2>1, <2>2, <2>3, <2>4
<1> QED
  BY <1>5, <1>6, <1>11, PairedByCount

\* Without globs it is enough that every exact pattern finds a value.
LEMMA WordsFoundPairs ==
  ASSUME NEW ps \in Seq(Pattern), NEW vs \in Seq(Word), ExactMeans(ps, vs),
         Len(ps) = Len(vs), GlobsIn(ps) = {}, WordsIn(ps, vs),
         \A k \in DOMAIN ps : CountIn(ps[k], ps) <= CountIn(ps[k][1], vs)
  PROVE  Pairs(ps, vs)
<1> DEFINE a == [k \in DOMAIN ps |-> ps[k][1]]
<1>1. \A k \in DOMAIN ps : a[k] = ps[k][1]
  OBVIOUS
<1> HIDE DEF a
<1>2. \A k \in DOMAIN ps : a[k] \in ToSet(vs) /\ ~HasStar(ps[k])
  BY <1>1 DEF WordsIn, GlobsIn
<1>3. ASSUME NEW k \in DOMAIN ps
      PROVE  Cardinality(Alike(DOMAIN ps, a, a[k])) <= Cardinality(Alike(DOMAIN vs, vs, a[k]))
  <2>1. \A i \in DOMAIN ps : a[i] = a[k] <=> ps[i] = ps[k]
    <3>1. \A i \in DOMAIN ps : ps[i] = <<a[i]>>
      BY <1>1, <1>2, ExactIsWord
    <3> QED
      BY <1>1, <3>1
  <2>2. Alike(DOMAIN ps, a, a[k]) = {i \in DOMAIN ps : ps[i] = ps[k]}
    BY <2>1 DEF Alike
  <2>3. Cardinality(Alike(DOMAIN ps, a, a[k])) = CountIn(ps[k], ps)
    BY <2>2 DEF CountIn
  <2> QED
    BY <1>1, <2>3, CountIsAlike
<1>4. Covers(DOMAIN vs, vs, DOMAIN ps, a)
  BY <1>3 DEF Covers
<1>5. /\ IsFiniteSet(DOMAIN ps) /\ IsFiniteSet(DOMAIN vs)
      /\ Cardinality(DOMAIN ps) = Cardinality(DOMAIN vs)
  BY IndicesFinite
<1>6. PICK f \in Injection(DOMAIN ps, DOMAIN vs) : \A k \in DOMAIN ps : vs[f[k]] = a[k]
  BY <1>4, <1>5, InjectionByLabel
<1>7. f \in Bijection(DOMAIN ps, DOMAIN vs)
  BY <1>5, <1>6, FS_Injection, Fun_IsBij
<1>8. \A k \in DOMAIN ps : Means(ps[k], vs[f[k]])
  BY <1>1, <1>2, <1>6 DEF ExactMeans
<1> QED
  BY <1>7, <1>8 DEF Pairs

-----------------------------------------------------------------------------
(* Rerouting: it ends with an assignment, or there is none.                *)

\* Where the globs lead: to the values they mean.
EdgesMean(ps, seq, A) ==
  \A g \in GlobsIn(ps) : A[g] = {j \in DOMAIN seq : Means(ps[g], seq[j])}

\* One value for every glob is what GlobsMatched asks for.
LEMMA AssignedMatches ==
  ASSUME NEW ps \in Seq(Pattern), NEW D, NEW seq \in Seq(D), NEW A, EdgesMean(ps, seq, A),
         Len(seq) = Cardinality(GlobsIn(ps)), GlobsIn(ps) \in SUBSET (Nat \ {0}),
         NEW idx, NEW owner \in [DOMAIN seq -> GlobsIn(ps) \cup {0}],
         KeptBy(A, GlobsIn(ps), idx, owner), \A g \in GlobsIn(ps) : g < idx
  PROVE  GlobsMatched(ps, seq)
<1> DEFINE G == GlobsIn(ps)
           m == [g \in G |-> CHOOSE j \in DOMAIN seq : owner[j] = g]
<1>1. DOMAIN owner = DOMAIN seq
  OBVIOUS
<1>2. ASSUME NEW g \in G
      PROVE  m[g] \in DOMAIN seq /\ owner[m[g]] = g
  <2>1. \E j \in DOMAIN seq : owner[j] = g
    BY <1>1 DEF KeptBy
  <2> QED
    BY <2>1
<1>3. m \in [G -> DOMAIN seq]
  BY <1>2
<1>4. \A g, h \in G : m[g] = m[h] => g = h
  <2> HIDE DEF m
  <2> QED
    BY <1>2
<1> HIDE DEF m
<1>5. m \in Injection(G, DOMAIN seq)
  BY <1>3, <1>4, Fun_IsInj
<1>6. /\ IsFiniteSet(G) /\ IsFiniteSet(DOMAIN seq)
      /\ Cardinality(G) = Cardinality(DOMAIN seq)
  <2>1. G \in SUBSET DOMAIN ps
    BY DEF GlobsIn
  <2>2. Cardinality(DOMAIN seq) = Len(seq) /\ IsFiniteSet(DOMAIN seq)
    BY IndicesFinite
  <2> QED
    BY <2>1, <2>2, IndicesFinite
<1>7. m \in Bijection(G, DOMAIN seq)
  BY <1>5, <1>6, FS_Injection, Fun_IsBij
<1>8. \A g \in G : Means(ps[g], seq[m[g]])
  <2> TAKE g \in G
  <2>1. g # 0
    OBVIOUS
  <2>2. m[g] \in A[g]
    BY <1>1, <1>2, <2>1 DEF KeptBy
  <2> QED
    BY <2>2 DEF EdgesMean
<1> QED
  BY <1>7, <1>8 DEF GlobsMatched

\* A call that fails in the end has tried all values that it could reach: the
\* globs that own them and the one to be assigned match no others, and are one
\* more than the values.
LEMMA FailedCallExcludes ==
  ASSUME NEW ps \in Seq(Pattern), NEW D, NEW seq \in Seq(D), NEW A, EdgesMean(ps, seq, A),
         NEW idx \in GlobsIn(ps), GlobsIn(ps) \in SUBSET (Nat \ {0}),
         NEW owner \in [DOMAIN seq -> GlobsIn(ps) \cup {0}],
         KeptBy(A, GlobsIn(ps), idx, owner),
         NEW V \in SUBSET DOMAIN seq, A[idx] \subseteq V,
         \A j \in V : owner[j] # 0 /\ A[owner[j]] \subseteq V
  PROVE  ~GlobsMatched(ps, seq)
<1> DEFINE G == GlobsIn(ps)
<1>1. SUFFICES ASSUME NEW m \in Bijection(G, DOMAIN seq), \A g \in G : Means(ps[g], seq[m[g]])
               PROVE  FALSE
  BY DEF GlobsMatched
<1>2. m \in [G -> DOMAIN seq] /\ \A g, h \in G : m[g] = m[h] => g = h
  BY Fun_BijectionProperties
<1>3. \A g \in G : m[g] \in A[g]
  BY <1>1, <1>2 DEF EdgesMean
<1> DEFINE glob == [j \in V \cup {0} |-> IF j = 0 THEN idx ELSE owner[j]]
           e == [j \in V \cup {0} |-> m[glob[j]]]
<1>4. 0 \notin V /\ DOMAIN owner = DOMAIN seq
  OBVIOUS
<1>5. \A j \in V \cup {0} : glob[j] \in G /\ m[glob[j]] \in V
  BY <1>3, <1>4
<1>6. \A i, j \in V \cup {0} : glob[i] = glob[j] => i = j
  <2>1. \A j \in V : owner[j] < idx /\ owner[j] \in Nat /\ idx \in Nat
    BY <1>4 DEF KeptBy
  <2>2. \A x, y \in Nat : x < y => x # y
    OBVIOUS
  <2>3. \A j \in V : owner[j] # idx
    BY <2>1, <2>2
  <2>4. \A i, j \in V : owner[i] = owner[j] => i = j
    BY <1>4 DEF KeptBy
  <2> QED
    BY <1>4, <2>3, <2>4
<1> HIDE DEF glob
<1>7. e \in [V \cup {0} -> V] /\ \A i, j \in V \cup {0} : e[i] = e[j] => i = j
  BY <1>2, <1>5, <1>6
<1> HIDE DEF e
<1>8. e \in Injection(V \cup {0}, V)
  BY <1>7, Fun_IsInj
<1>9. IsFiniteSet(V) /\ Cardinality(V) \in Nat
  BY IndicesFinite
<1>10. IsFiniteSet(V \cup {0}) /\ Cardinality(V \cup {0}) = Cardinality(V) + 1
  BY <1>4, <1>9, FS_AddElement
<1>11. Cardinality(V \cup {0}) <= Cardinality(V)
  BY <1>8, <1>9, FS_Injection
<1> QED
  BY <1>9, <1>10, <1>11

\* A glob that matches no value, or globs that are fewer or more than the values.
LEMMA NoMatching ==
  ASSUME NEW ps \in Seq(Pattern), NEW D, NEW seq \in Seq(D),
         \/ Len(seq) # Cardinality(GlobsIn(ps))
         \/ \E g \in GlobsIn(ps) : {j \in DOMAIN seq : Means(ps[g], seq[j])} = {}
  PROVE  ~GlobsMatched(ps, seq)
<1> DEFINE G == GlobsIn(ps)
<1>1. SUFFICES ASSUME NEW m \in Bijection(G, DOMAIN seq), \A g \in G : Means(ps[g], seq[m[g]])
               PROVE  FALSE
  BY DEF GlobsMatched
<1>2. m \in [G -> DOMAIN seq]
  BY Fun_BijectionProperties
<1>3. \A g \in G : m[g] \in {j \in DOMAIN seq : Means(ps[g], seq[j])}
  BY <1>1, <1>2
<1>4. Cardinality(G) = Cardinality(DOMAIN seq)
  <2>1. G \in SUBSET DOMAIN ps
    BY DEF GlobsIn
  <2>2. IsFiniteSet(G)
    BY <2>1, IndicesFinite
  <2>3. ExistsBijection(G, DOMAIN seq)
    BY Fun_ExistsBij
  <2> QED
    BY <2>2, <2>3, FS_Bijection
<1>5. Len(seq) = Cardinality(G)
  BY <1>4, IndicesFinite
<1> QED
  BY <1>3, <1>5

-----------------------------------------------------------------------------
(* What matchRecords returns.                                              *)

\* The records that are compared can be assigned.
Comparable == Assignable(validAnswers[choice][field], answer[field])

\* What the comparison works on.
LEMMA ComparedPairs ==
  ASSUME Typed, pc # "query"
  PROVE  /\ patterns \in Seq(Pattern) /\ values \in Seq(Word)
         /\ ExactMeans(patterns, values)
         /\ Comparable <=> Len(patterns) = Len(values) /\ Pairs(patterns, values)
<1> DEFINE ps == validAnswers[choice][field]
           vs == answer[field]
<1>1. /\ patterns \in Seq(Pattern) /\ values \in Seq(Word)
      /\ Len(patterns) = Len(ps) /\ Len(values) = Len(vs)
      /\ \A k \in DOMAIN patterns : patterns[k] = LowerPattern(ps[k])
      /\ \A k \in DOMAIN values : values[k] = Lower(vs[k])
  BY ComparedTypes
<1>2. ps \in Seq(Pattern) /\ vs \in Seq(Word)
  <2>1. answer = ResolveDNS(exchange) /\ exchange \in Exchanges
    BY DEF Typed
  <2>2. answer.A \in Seq(Word) /\ answer.CNAME \in Seq(Word)
    BY <2>1, AnswerType
  <2>3. validAnswers[choice] \in Alternative
    BY DEF Typed
  <2> QED
    BY <2>2, <2>3 DEF Typed, Fields, Alternative
<1>3. DOMAIN patterns = DOMAIN ps /\ DOMAIN values = DOMAIN vs
  BY <1>1, <1>2
<1>4. ExactMeans(patterns, values)
  BY ComparedMeaning DEF ExactMeans
<1> HIDE DEF ps, vs
<1>5. ASSUME NEW f \in Bijection(DOMAIN ps, DOMAIN vs)
      PROVE  \A k \in DOMAIN ps :
               Means(LowerPattern(ps[k]), Lower(vs[f[k]])) <=> Means(patterns[k], values[f[k]])
  <2>1. f \in [DOMAIN ps -> DOMAIN vs]
    BY Fun_BijectionProperties
  <2>2. \A k \in DOMAIN ps : f[k] \in DOMAIN vs
    BY <2>1
  <2> QED
    BY <1>1, <1>3, <2>2
<1>6. Assignable(ps, vs) <=> Len(ps) = Len(vs) /\ Pairs(patterns, values)
  <2> DEFINE Bijections == Bijection(DOMAIN ps, DOMAIN vs)
  <2>1. Assignable(ps, vs) <=>
          /\ Len(ps) = Len(vs)
          /\ \E f \in Bijections : \A k \in DOMAIN ps :
               Means(LowerPattern(ps[k]), Lower(vs[f[k]]))
    BY DEF Assignable
  <2>2. Pairs(patterns, values) <=>
          \E f \in Bijections : \A k \in DOMAIN ps : Means(patterns[k], values[f[k]])
    BY <1>3 DEF Pairs
  <2> QED
    BY <1>5, <2>1, <2>2
<1> QED
  BY <1>1, <1>4, <1>6 DEF Comparable, ps, vs

\* A step of matchRecords: it fails rightly, succeeds rightly, or goes on.
Step ==
  \/ NextAlternative /\ ~Comparable
  \/ NextField /\ Comparable
  \/ pc' \in Searching /\ UNCHANGED <<choice, field, result>>

\* Lists of different lengths differ, empty ones do not.
LEMMA CountOutcome ==
  ASSUME Typed, CountValues
  PROVE  Step
<1>1. pc = "count" /\ pc # "query"
  BY DEF CountValues
<1>2. /\ patterns \in Seq(Pattern) /\ values \in Seq(Word)
      /\ ExactMeans(patterns, values)
      /\ Comparable <=> Len(patterns) = Len(values) /\ Pairs(patterns, values)
  BY <1>1, ComparedPairs
<1>3. CASE Len(patterns) # Len(values)
  BY <1>2, <1>3 DEF CountValues, Step
<1>4. CASE Len(patterns) = Len(values) /\ patterns = <<>>
  <2>1. DOMAIN patterns = {}
    BY <1>4
  <2>2. GlobsIn(patterns) = {}
    BY <2>1 DEF GlobsIn
  <2>3. WordsIn(patterns, values)
    BY <2>1 DEF WordsIn
  <2>4. Pairs(patterns, values)
    BY <1>2, <1>4, <2>1, <2>2, <2>3, WordsFoundPairs
  <2> QED
    BY <1>2, <1>4, <2>4 DEF CountValues, Step
<1>5. CASE Len(patterns) = Len(values) /\ patterns # <<>>
  <2>1. pc' = "exact" /\ UNCHANGED <<choice, field, result>>
    BY <1>5 DEF CountValues
  <2> QED
    BY <2>1 DEF Step, Searching
<1> QED
  BY <1>3, <1>4, <1>5

\* An exact pattern that finds no value is a difference; if all find one and there
\* are no globs, there is none.
LEMMA ConsumeOutcome ==
  ASSUME Typed, Counted, ConsumeExact
  PROVE  Step
<1>1. pc = "exact" /\ pc # "query"
  BY DEF ConsumeExact
<1>2. /\ patterns \in Seq(Pattern) /\ values \in Seq(Word)
      /\ ExactMeans(patterns, values)
      /\ Comparable <=> Len(patterns) = Len(values) /\ Pairs(patterns, values)
  BY <1>1, ComparedPairs
<1>3. /\ Len(patterns) = Len(values) /\ DOMAIN valueCounts = ToSet(values)
      /\ \A v \in ToSet(values) : valueCounts[v] = CountIn(v, values)
  BY <1>1 DEF Counted
<1>4. ExactPatternsFound <=>
        \A k \in DOMAIN patterns : HasStar(patterns[k]) \/
          (/\ patterns[k][1] \in ToSet(values)
           /\ CountIn(patterns[k], patterns) <= CountIn(patterns[k][1], values))
  BY <1>3 DEF ExactPatternsFound
<1>5. CASE ~ExactPatternsFound
  <2>1. ~Pairs(patterns, values)
    BY <1>2, <1>4, <1>5, PairsFindWords
  <2> QED
    BY <1>2, <1>5, <2>1 DEF ConsumeExact, Step
<1>6. CASE ExactPatternsFound /\ ~ \E k \in DOMAIN patterns : HasStar(patterns[k])
  <2>1. GlobsIn(patterns) = {}
    BY <1>6 DEF GlobsIn
  <2>2. /\ WordsIn(patterns, values)
        /\ \A k \in DOMAIN patterns :
             CountIn(patterns[k], patterns) <= CountIn(patterns[k][1], values)
    BY <1>4, <1>6 DEF WordsIn
  <2>3. Pairs(patterns, values)
    BY <1>2, <1>3, <2>1, <2>2, WordsFoundPairs
  <2> QED
    BY <1>2, <1>3, <1>6, <2>3 DEF ConsumeExact, Step
<1>7. CASE ExactPatternsFound /\ \E k \in DOMAIN patterns : HasStar(patterns[k])
  <2>1. pc' = "list" /\ UNCHANGED <<choice, field, result>>
    BY <1>7 DEF ConsumeExact
  <2> QED
    BY <2>1 DEF Step, Searching
<1> QED
  BY <1>5, <1>6, <1>7

\* A glob that no value is left for is a difference.
LEMMA ListOutcome ==
  ASSUME Typed, Counted, ListValues
  PROVE  Step
<1>1. pc = "list" /\ pc # "query"
  BY DEF ListValues
<1>2. /\ patterns \in Seq(Pattern) /\ values \in Seq(Word)
      /\ ExactMeans(patterns, values)
      /\ Comparable <=> Len(patterns) = Len(values) /\ Pairs(patterns, values)
  BY <1>1, ComparedPairs
<1>3. /\ DOMAIN valueCounts = ToSet(values) /\ globs = GlobsIn(patterns)
      /\ \A v \in ToSet(values) :
           valueCounts[v] = CountIn(v, values) - CountIn(<<v>>, patterns)
  BY <1>1 DEF Counted
<1> DEFINE Matched(seq) ==
             [k \in globs |-> {j \in DOMAIN seq : Globs(patterns[k], seq[j])}]
           None(seq) == Len(seq) # Cardinality(globs) \/ \E k \in globs : Matched(seq)[k] = {}
<1>4. \/ pc' = "assign" /\ UNCHANGED <<choice, field, result>>
      \/ \E seq \in Orders : None(seq) /\ NextAlternative
  BY DEF ListValues
<1>5. ASSUME NEW seq \in Orders, None(seq) PROVE ~Comparable
  <2>1. seq \in Seq(ToSet(values))
    BY <1>3 DEF Orders, SeqOf
  <2>2. LeftBy(patterns, values, seq)
    BY <1>3, <2>1 DEF Orders, LeftBy
  <2>3. \A k \in globs :
          Matched(seq)[k] = {j \in DOMAIN seq : Means(patterns[k], seq[j])}
    <3>1. \A k \in globs : k \in DOMAIN patterns
      BY <1>3 DEF GlobsIn
    <3>2. \A j \in DOMAIN seq : seq[j] \in ToSet(values)
      BY <2>1
    <3>3. \A k \in globs, j \in DOMAIN seq :
            Globs(patterns[k], seq[j]) <=> Means(patterns[k], seq[j])
      BY <1>1, <3>1, <3>2, ComparedMeaning
    <3> QED
      BY <3>3
  <2>4. ~GlobsMatched(patterns, seq)
    <3> HIDE DEF Matched
    <3>1. \/ Len(seq) # Cardinality(GlobsIn(patterns))
          \/ \E g \in GlobsIn(patterns) :
               {j \in DOMAIN seq : Means(patterns[g], seq[j])} = {}
      BY <1>3, <1>5, <2>3
    <3> QED
      BY <1>2, <2>1, <3>1, NoMatching
  <2> QED
    BY <1>2, <2>2, <2>4, PairsMatchGlobs
<1> QED
  BY <1>4, <1>5 DEF Step, Searching

\* What the assignment works on.
LEMMA AssignPairs ==
  ASSUME Typed, Counted, Assigning, pc \in {"assign", "augment"}
  PROVE  /\ EdgesMean(patterns, remainingValues, adj)
         /\ LeftBy(patterns, values, remainingValues)
         /\ remainingValues \in Seq(ToSet(values))
         /\ Len(remainingValues) = Cardinality(globs)
         /\ WordsIn(patterns, values)
         /\ Comparable <=> GlobsMatched(patterns, remainingValues)
<1>1. pc # "query" /\ Len(patterns) = Len(values)
  BY DEF Counted
<1>2. /\ patterns \in Seq(Pattern) /\ values \in Seq(Word)
      /\ ExactMeans(patterns, values)
      /\ Comparable <=> Len(patterns) = Len(values) /\ Pairs(patterns, values)
  BY <1>1, ComparedPairs
<1>3. /\ globs = GlobsIn(patterns) /\ globs \subseteq DOMAIN patterns
      /\ \A j \in DOMAIN remainingValues : remainingValues[j] \in ToSet(values)
      /\ \A g \in globs : adj[g] = {j \in DOMAIN remainingValues :
                                      Globs(patterns[g], remainingValues[j])}
  BY AssignTypes
<1>4. EdgesMean(patterns, remainingValues, adj)
  <2>1. \A g \in globs, j \in DOMAIN remainingValues :
          Globs(patterns[g], remainingValues[j]) <=> Means(patterns[g], remainingValues[j])
    BY <1>1, <1>3, ComparedMeaning
  <2> QED
    BY <1>3, <2>1 DEF EdgesMean
<1>5. LeftBy(patterns, values, remainingValues) /\ Len(remainingValues) = Cardinality(globs)
  BY DEF Assigning
<1>6. remainingValues \in Seq(ToSet(values))
  BY <1>5 DEF LeftBy
<1>7. WordsIn(patterns, values)
  BY <1>3 DEF Counted, WordsIn
<1>8. Pairs(patterns, values) <=> GlobsMatched(patterns, remainingValues)
  BY <1>2, <1>5, <1>7, PairsMatchGlobs, GlobsMatchPairs
<1> QED
  BY <1>1, <1>2, <1>4, <1>5, <1>6, <1>7, <1>8

\* When every glob has its value the records match.
LEMMA AssignOutcome ==
  ASSUME Typed, Counted, Assigning, AssignNextGlob
  PROVE  Step
<1>1. pc = "assign"
  BY DEF AssignNextGlob
<1>2. /\ EdgesMean(patterns, remainingValues, adj)
      /\ remainingValues \in Seq(ToSet(values))
      /\ Len(remainingValues) = Cardinality(globs)
      /\ Comparable <=> GlobsMatched(patterns, remainingValues)
  BY <1>1, AssignPairs
<1>3. /\ globs \in SUBSET (Nat \ {0}) /\ globs = GlobsIn(patterns)
      /\ valueToPattern \in [DOMAIN remainingValues -> globs \cup {0}]
      /\ KeptBy(adj, globs, patternIdx, valueToPattern)
      /\ patternIdx \in Nat
  BY <1>1, AssignTypes
<1>4. patterns \in Seq(Pattern)
  BY <1>1, ComparedTypes
<1>5. CASE GlobsLeft = {}
  <2>1. \A x, y \in Nat : ~(x >= y) => x < y
    OBVIOUS
  <2>2. \A g \in globs : ~(g >= patternIdx) /\ g \in Nat
    BY <1>3, <1>5 DEF GlobsLeft
  <2>3. \A g \in globs : g < patternIdx
    BY <1>3, <2>1, <2>2
  <2>4. GlobsMatched(patterns, remainingValues)
    BY <1>2, <1>3, <1>4, <2>3, AssignedMatches
  <2> QED
    BY <1>2, <1>5, <2>4 DEF AssignNextGlob, Step
<1>6. CASE GlobsLeft # {}
  <2>1. pc' = "augment" /\ UNCHANGED <<choice, field, result>>
    BY <1>6 DEF AssignNextGlob, UnchangedButCalls
  <2> QED
    BY <2>1 DEF Step, Searching
<1> QED
  BY <1>5, <1>6

\* When the call for a glob fails the records differ.
LEMMA FailOutcome ==
  ASSUME Typed, Counted, Assigning, CallFails
  PROVE  Step
<1>1. pc = "augment" /\ Untried = {}
  BY DEF CallFails
<1>2. /\ EdgesMean(patterns, remainingValues, adj)
      /\ remainingValues \in Seq(ToSet(values))
      /\ Comparable <=> GlobsMatched(patterns, remainingValues)
  BY <1>1, AssignPairs
<1>3. /\ globs \in SUBSET (Nat \ {0}) /\ globs = GlobsIn(patterns)
      /\ DOMAIN valueToPattern = DOMAIN remainingValues
      /\ valueToPattern \in [DOMAIN remainingValues -> globs \cup {0}]
      /\ KeptBy(adj, globs, patternIdx, valueToPattern)
  BY <1>1, AssignTypes
<1>4. patterns \in Seq(Pattern)
  BY <1>1, ComparedTypes
<1>5. CASE wanted = <<>>
  <2>1. /\ patternIdx \in globs /\ visited \subseteq DOMAIN valueToPattern
        /\ \A j \in visited : valueToPattern[j] # 0
        /\ \A j \in visited :
             \/ \E n \in 1 .. Len(wanted) : wanted[n] = j
             \/ adj[valueToPattern[j]] \subseteq visited
    BY <1>1, CallTypes DEF Chain
  <2>2. Len(wanted) = 0
    BY <1>5
  <2>3. ~ \E n \in 1 .. Len(wanted) : wanted[n] \in visited
    BY <2>2
  <2>4. \A j \in visited : valueToPattern[j] # 0 /\ adj[valueToPattern[j]] \subseteq visited
    BY <2>1, <2>3
  <2>5. Running = patternIdx
    BY <2>2 DEF Running, GlobOf
  <2>6. adj[patternIdx] \subseteq visited
    BY <1>1, <2>5 DEF Untried
  <2>7. ~GlobsMatched(patterns, remainingValues)
    BY <1>2, <1>3, <1>4, <2>1, <2>4, <2>6, FailedCallExcludes
  <2> QED
    BY <1>2, <1>5, <2>7 DEF CallFails, Step
<1>6. CASE wanted # <<>>
  <2>1. pc' = "augment" /\ UNCHANGED <<choice, field, result>>
    BY <1>1, <1>6 DEF CallFails, UnchangedButCalls
  <2> QED
    BY <2>1 DEF Step, Searching
<1> QED
  BY <1>5, <1>6

-----------------------------------------------------------------------------
(* What Matches returns.                                                   *)

\* The alternative allows the answer.
Passes(k) ==
  /\ validAnswers[k].status = answer.status
  /\ Assignable(validAnswers[k].A, answer.A)
  /\ Assignable(validAnswers[k].CNAME, answer.CNAME)

\* The alternatives before the one that is tried do not allow the answer; when
\* the canonical names are compared, the addresses have been.
Decided ==
  /\ pc = "query" => choice = 1
  /\ pc \in {"query", "status"} => field = "A"
  /\ pc # "query" /\ pc # "done" => \A k \in 1 .. choice - 1 : ~Passes(k)
  /\ pc \in Searching /\ field = "CNAME" =>
       Assignable(validAnswers[choice].A, answer.A)
  /\ pc = "done" => (result = "match" <=> \E k \in 1 .. Len(validAnswers) : Passes(k))

\* Before the query no alternative was tried.
LEMMA DecidedInit == Init => Decided
BY DEF Init, Decided, Searching

\* Passes depends on the entry and the answer.
LEMMA PassesKept ==
  ASSUME UNCHANGED query
  PROVE  /\ \A k : Passes(k)' <=> Passes(k)
         /\ validAnswers' = validAnswers /\ answer' = answer
BY DEF query, Passes

\* An alternative that does not allow the answer is left rightly.
LEMMA FailureDecided ==
  ASSUME Typed, Decided, pc \notin {"query", "done"}, UNCHANGED query,
         ~Passes(choice), NextAlternative
  PROVE  Decided'
<1>1. /\ \A k : Passes(k)' <=> Passes(k)
      /\ validAnswers' = validAnswers /\ answer' = answer
  BY PassesKept
<1>2. \A k \in 1 .. choice - 1 : ~Passes(k)
  BY DEF Decided
<1>3. PICK c \in Nat, n \in Nat : c = choice /\ n = Len(validAnswers) /\ 1 <= c /\ c <= n
  <2>1. Len(validAnswers) \in Nat /\ choice \in 1 .. Len(validAnswers)
    BY DEF Typed
  <2> QED
    BY <2>1
<1>4. \A k \in 1 .. c : ~Passes(k)
  <2>1. \A k \in 1 .. c : k \in 1 .. c - 1 \/ k = c
    BY <1>3
  <2> QED
    BY <1>2, <1>3, <2>1
<1>5. CASE c < n
  <2>1. choice' = c + 1 /\ field' = "A" /\ pc' = "status"
    BY <1>3, <1>5 DEF NextAlternative, Call
  <2>2. \A k \in 1 .. (c + 1) - 1 : k \in 1 .. c
    BY <1>3
  <2>3. \A k \in 1 .. choice' - 1 : ~Passes(k)'
    BY <1>1, <1>4, <2>1, <2>2
  <2> QED
    BY <2>1, <2>3 DEF Decided, Searching
<1>6. CASE ~(c < n)
  <2>1. result' = "differ" /\ pc' = "done"
    BY <1>3, <1>6 DEF NextAlternative, Return, Call
  <2>2. c = n
    BY <1>3, <1>6
  <2>3. \A k \in 1 .. Len(validAnswers') : ~Passes(k)'
    BY <1>1, <1>3, <1>4, <2>2
  <2>4. result' # "match"
    BY <2>1
  <2> QED
    BY <2>1, <2>3, <2>4 DEF Decided, Searching
<1> QED
  BY <1>5, <1>6

\* So is one whose records match.
LEMMA SuccessDecided ==
  ASSUME Typed, StatusFirst, Decided, pc \in Searching, UNCHANGED query,
         Comparable, NextField
  PROVE  Decided'
<1>1. /\ \A k : Passes(k)' <=> Passes(k)
      /\ validAnswers' = validAnswers /\ answer' = answer
  BY PassesKept
<1>2. /\ \A k \in 1 .. choice - 1 : ~Passes(k)
      /\ field = "CNAME" => Assignable(validAnswers[choice].A, answer.A)
      /\ choice \in 1 .. Len(validAnswers)
      /\ validAnswers[choice].status = answer.status
  BY DEF Decided, Typed, StatusFirst, Searching
<1>3. CASE field = "A"
  <2>1. pc' = "count" /\ field' = "CNAME" /\ choice' = choice
    BY <1>3 DEF NextField, Call
  <2>2. Assignable(validAnswers[choice].A, answer.A)
    BY <1>3 DEF Comparable
  <2> QED
    BY <1>1, <1>2, <2>1, <2>2 DEF Decided, Searching
<1>4. CASE field = "CNAME"
  <2>1. pc' = "done" /\ result' = "match"
    BY <1>4 DEF NextField, Return, Call
  <2>2. Assignable(validAnswers[choice].CNAME, answer.CNAME)
    BY <1>4 DEF Comparable
  <2>3. Passes(choice)
    BY <1>2, <1>4, <2>2 DEF Passes
  <2>4. \E k \in 1 .. Len(validAnswers') : Passes(k)'
    BY <1>1, <1>2, <2>3
  <2> QED
    BY <2>1, <2>4 DEF Decided, Searching
<1> QED
  BY <1>3, <1>4 DEF Typed, Fields

\* Every step of the worker decides rightly.
LEMMA DecidedNext ==
  Typed /\ StatusFirst /\ Counted /\ Assigning /\ Decided /\ [Next]_vars => Decided'
<1> SUFFICES ASSUME Typed, StatusFirst, Counted, Assigning, Decided, [Next]_vars
             PROVE  Decided'
  OBVIOUS
<1>1. ASSUME Step, pc \in Searching, UNCHANGED query
      PROVE  Decided'
  <2>1. CASE NextAlternative /\ ~Comparable
    <3>1. ~Passes(choice)
      BY <2>1 DEF Passes, Comparable, Typed, Fields
    <3>2. pc \notin {"query", "done"}
      BY <1>1 DEF Searching
    <3> QED
      BY <1>1, <2>1, <3>1, <3>2, FailureDecided
  <2>2. CASE NextField /\ Comparable
    BY <1>1, <2>2, SuccessDecided
  <2>3. CASE pc' \in Searching /\ UNCHANGED <<choice, field, result>>
    <3>1. /\ \A k : Passes(k)' <=> Passes(k)
          /\ validAnswers' = validAnswers /\ answer' = answer
      BY <1>1, PassesKept
    <3> QED
      BY <1>1, <2>3, <3>1 DEF Decided, Searching
  <2> QED
    BY <1>1, <2>1, <2>2, <2>3 DEF Step
<1>2. CASE Query
  <2>1. pc' = "status" /\ choice' = 1 /\ field' = "A"
    BY <1>2 DEF Query, Decided
  <2>2. \A k : k \notin 1 .. 1 - 1
    OBVIOUS
  <2> QED
    BY <2>1, <2>2 DEF Decided, Searching
<1>3. CASE CompareStatus
  <2>1. pc = "status" /\ UNCHANGED query
    BY <1>3 DEF CompareStatus
  <2>2. CASE validAnswers[choice].status = answer.status
    <3>1. pc' = "count" /\ UNCHANGED <<choice, field, result>>
      BY <1>3, <2>2 DEF CompareStatus, Call
    <3>2. /\ \A k : Passes(k)' <=> Passes(k)
          /\ validAnswers' = validAnswers /\ answer' = answer
      BY <2>1, PassesKept
    <3> QED
      BY <2>1, <3>1, <3>2 DEF Decided, Searching
  <2>3. CASE validAnswers[choice].status # answer.status
    <3>1. ~Passes(choice) /\ NextAlternative
      BY <1>3, <2>3 DEF Passes, CompareStatus
    <3> QED
      BY <2>1, <3>1, FailureDecided
  <2> QED
    BY <2>2, <2>3
<1>4. CASE CountValues
  BY <1>1, <1>4, CountOutcome DEF CountValues, Searching
<1>5. CASE ConsumeExact
  BY <1>1, <1>5, ConsumeOutcome DEF ConsumeExact, Searching
<1>6. CASE ListValues
  BY <1>1, <1>6, ListOutcome DEF ListValues, Searching
<1>7. CASE AssignNextGlob
  <2>1. UNCHANGED query /\ pc \in Searching
    BY <1>7 DEF AssignNextGlob, UnchangedButCalls, Searching
  <2> QED
    BY <1>1, <1>7, <2>1, AssignOutcome
<1>8. CASE CallOwner \/ TakeValue
  <2>1. /\ UNCHANGED query /\ pc \in Searching /\ pc' \in Searching
        /\ UNCHANGED <<choice, field, result>>
    BY <1>8 DEF CallOwner, TakeValue, UnchangedButCalls, Searching
  <2> QED
    BY <1>1, <2>1 DEF Step
<1>9. CASE CallFails
  <2>1. UNCHANGED query /\ pc \in Searching
    BY <1>9 DEF CallFails, UnchangedButCalls, Searching
  <2> QED
    BY <1>1, <1>9, <2>1, FailOutcome
<1>10. CASE UNCHANGED vars
  <2>1. UNCHANGED <<pc, choice, field, result>> /\ UNCHANGED query
    BY <1>10 DEF vars
  <2>2. /\ \A k : Passes(k)' <=> Passes(k)
        /\ validAnswers' = validAnswers /\ answer' = answer
    BY <2>1, PassesKept
  <2> QED
    BY <2>1, <2>2 DEF Decided
<1> QED
  BY <1>2, <1>3, <1>4, <1>5, <1>6, <1>7, <1>8, <1>9, <1>10 DEF Next, Returned

\* The worker passes an answer exactly if an alternative of the entry allows it:
\* Matches, matchRecords and tryAugment decide, for any entry and any answer,
\* whether the records can be assigned to one another.
THEOREM WorkerDecides == Spec => []DecidesTheMatch
<1>1. Typed /\ Decided => DecidesTheMatch
  <2>1. Typed => DOMAIN validAnswers = 1 .. Len(validAnswers)
    BY DEF Typed
  <2> QED
    BY <2>1 DEF Decided, DecidesTheMatch, Passes
<1> QED
  BY <1>1, TypedInit, TypedNext, CountedInit, CountedNext, DecidedInit, DecidedNext,
     PTL DEF Spec
=============================================================================
