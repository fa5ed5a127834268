------------------------------ MODULE MCWorker ------------------------------
(* What the run Worker compares.                                           *)
EXTENDS Worker

Record(key, pattern) == [key |-> key, pattern |-> pattern]
Word(word) == [key |-> word, pattern |-> <<>>]

\* An entry of one alternative with the patterns ps for records of one kind.
ListOf(key, ps) == <<[k \in DOMAIN ps |-> Record(key, ps[k])]>>

\* A response with words of one kind.
RR(type, words) == [k \in DOMAIN words |-> [type |-> type, data |-> words[k]]]

Response(rcode, records) ==
  [answered |-> TRUE, err |-> Unclassified,
   response |-> [rcode |-> rcode, records |-> records]]

NoResponse(err) ==
  [answered |-> FALSE, err |-> err,
   response |-> [rcode |-> "none", records |-> <<>>]]

-----------------------------------------------------------------------------
(* One glob of up to three stars and one value of up to four letters.      *)

Segments == {<<>>, <<"a">>, <<"B">>, <<"a", "b">>}

OneGlob ==
  {ListOf("CNAME", <<p>>) : p \in SeqOf(Segments, 4) \ {<<>>}}
    \X {Response("NOERROR", RR("CNAME", <<v>>)) : v \in SeqOf({"a", "B"}, 4) \ {<<>>}}

-----------------------------------------------------------------------------
(* Up to three records.  The values are aa, ab and ba; among the patterns  *)
(* is one for each of their subsets.                                       *)

aa == <<"a", "a">>
ab == <<"a", "b">>
ba == <<"b", "a">>
star == <<>>

ListPatterns ==
  { <<aa>>, <<ab>>, <<ba>>,
    <<star, star>>,             \* *    all
    <<<<"a">>, star>>,          \* a*   aa, ab
    <<star, <<"A">>>>,          \* *A   aa, ba
    <<star, <<"b">>, star>>,    \* *b*  ab, ba
    <<<<"a">>, <<"a">>>>,       \* a*a  aa
    <<star, <<"b">>>>,          \* *b   ab
    <<<<"b">>, star>>,          \* b*   ba
    <<<<"b">>, <<"b">>>> }      \* b*b  none

\* matchRecords counts the values: one order of them stands for all.
ListValuesOf ==
  LET rank == <<aa, ab, ba>>
  IN  {[k \in DOMAIN s |-> rank[s[k]]] :
         s \in {t \in SeqOf(1 .. 3, 3) : \A k \in 1 .. Len(t) - 1 : t[k] <= t[k + 1]}}

Lists ==
  {ListOf("A", ps) : ps \in SeqOf(ListPatterns, 3) \ {<<>>}}
    \X {Response("NOERROR", RR("A", vs)) : vs \in ListValuesOf}

-----------------------------------------------------------------------------
(* Two alternatives, records of both kinds.                                *)

FewTokens ==
  {Record("A", <<aa>>), Record("A", <<<<"a">>, star>>), Record("CNAME", <<<<"B", "a">>>>)}

FewAlternatives ==
  {<<Word("NXDOMAIN")>>, <<Word("NOERROR")>>} \cup (SeqOf(FewTokens, 2) \ {<<>>})

FewRecords ==
  [type : {"A"}, data : {aa, ab}] \cup [type : {"CNAME"}, data : {<<"b", "A">>, ab}]
    \cup [type : {"other"}, data : {aa}]

Alternatives ==
  (SeqOf(FewAlternatives, 2) \ {<<>>})
    \X ({Response("NOERROR", rs) : rs \in SeqOf(FewRecords, 2)}
          \cup {Response("NXDOMAIN", <<>>)})

-----------------------------------------------------------------------------
(* Everything that may happen on the network.                              *)

\* An expired deadline, a lookup that timed out and ETIMEDOUT are errors that
\* call themselves timeouts.
Errors ==
  {err \in Error :
     err.deadline \/ err.lookup = "timeout" \/ err.errno = "ETIMEDOUT" => err.timeout}

Outcomes ==
  {<<<<Word(w)>>>> : w \in StatusWords}
    \cup {<<<<Record("A", <<aa>>)>>, <<Word("TIMEOUT")>>>>, <<<<Record("A", <<aa>>)>>>>}

Network ==
  Outcomes \X ({NoResponse(err) : err \in Errors}
                 \cup {Response(r, RR("A", vs)) :
                         r \in Rcodes \ {"none"}, vs \in {<<>>, <<aa>>, <<aa, ab>>}})

MCInputs == OneGlob \cup Lists \cup Alternatives \cup Network
=============================================================================
