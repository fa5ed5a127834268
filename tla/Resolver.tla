------------------------------ MODULE Resolver ------------------------------
(***************************************************************************)
(* ResolveDNS and mapResolveError (internal/dns/resolver.go): from what    *)
(* happened on the network to a DNSAnswer.  Its field Truncated is left    *)
(* out: only IsWorthRetrying reads it, whose verdicts are classes of       *)
(* answers in ServerContext.                                               *)
(*                                                                         *)
(* The exchange is an external call.  It ends with a response or with a    *)
(* chain of errors, of which mapResolveError asks a few questions; their   *)
(* answers are the fields of an error here.                                *)
(***************************************************************************)
EXTENDS Lists, SequencesExt

Layers == {"none", "timeout", "notFound", "other"}

Errnos == {"none", "zero", "ETIMEDOUT", "named", "unnamed"}

Error ==
  [ deadline : BOOLEAN,     \* errors.Is(err, context.DeadlineExceeded)
    canceled : BOOLEAN,     \* errors.Is(err, context.Canceled)
    lookup   : Layers,      \* a *net.DNSError is in the chain, and says
    timeout  : BOOLEAN,     \* a net.Error is in the chain, and timed out
    errno    : Errnos ]     \* a syscall.Errno is in the chain

\* A response that cannot be read fits none of the questions.
Unclassified ==
  [deadline |-> FALSE, canceled |-> FALSE, lookup |-> "none", timeout |-> FALSE,
   errno |-> "none"]

\* "ERROR" stands for the texts that start with ERROR, "ERRNO" for the names
\* and the texts of the numbers of the operating system.
CancellationAsTimeout(err) ==
  IF \/ err.deadline \/ err.canceled
     \/ err.lookup = "timeout"
     \/ err.lookup # "notFound" /\ (err.timeout \/ err.errno = "ETIMEDOUT")
    THEN "TIMEOUT"
  ELSE IF err.errno \in {"named", "unnamed"} THEN "ERRNO"
  ELSE "ERROR"

\* The questions are asked in this order; the first that is answered decides.
MapResolveError(err) ==
  IF err.deadline THEN "TIMEOUT"
  ELSE IF err.canceled THEN "ERROR"
  ELSE IF err.lookup = "timeout" THEN "TIMEOUT"
  ELSE IF err.lookup = "notFound" THEN "ERROR"
  ELSE IF err.timeout \/ err.errno = "ETIMEDOUT" THEN "TIMEOUT"
  ELSE IF err.errno \in {"named", "unnamed"} THEN "ERRNO"
  ELSE "ERROR"

\* REFUSED stands for the names no template can ask for, "none" for the lack
\* of a response.
Rcodes ==
  {"NOERROR", "FORMERR", "SERVFAIL", "NXDOMAIN", "NOTIMP", "REFUSED", "unassigned", "none"}

\* A response code without a name becomes the empty status.
RcodeToString(rcode) == IF rcode = "unassigned" THEN "" ELSE rcode

\* The data of the records of one type, in their order.
Data(response, type) ==
  LET records == response.records
  IN  Chosen([k \in DOMAIN records |-> records[k].data],
             {k \in DOMAIN records : records[k].type = type})

Bare(status) == [status |-> status, A |-> <<>>, CNAME |-> <<>>]

\* The answer keeps the records of a successful response only.
ResolveDNS(exchange) ==
  LET response == exchange.response
  IN  IF ~exchange.answered THEN Bare(MapResolveError(exchange.err))
      ELSE IF response.rcode # "NOERROR" THEN Bare(RcodeToString(response.rcode))
      ELSE [Bare("NOERROR")
              EXCEPT !.A = Data(response, "A"), !.CNAME = Data(response, "CNAME")]
=============================================================================
