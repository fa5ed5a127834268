----------------------------- MODULE MCProgram -----------------------------
(* The command lines and files of the runs Program and ProgramList.        *)
EXTENDS Program, TLC

MCDefaultTemplate == <<"entry">>

File(path) == [path |-> path, text |-> <<"bad">>]
Text(elements) == [path |-> "text", text |-> elements]

Two == <<"entry", "entry2">>

Base ==
  [ flags          |-> "valid",
    stdinIsTTY     |-> FALSE,
    files          |-> ("/dev/stdout" :> <<>>) @@ ("out" :> <<"old">>)
                         @@ ("tpl" :> Two) @@ ("list" :> <<"s1", "s2">>),
    template       |-> File("tpl"),
    trusted        |-> Text(<<"t1", "t2">>),
    list           |-> File("list"),
    output         |-> "-",
    globRateLimit  |-> 5,
    threads        |-> Unset,
    poolSize       |-> Unset,
    trustedOptions |-> [timeout |-> 2, rate |-> "usual", attempts |-> 2],
    listOptions    |-> [timeout |-> 4, rate |-> "usual", attempts |-> 2, mismatches |-> 0] ]

Set(invocations, path, contents) ==
  {[i EXCEPT !.files[path] = lines] : i \in invocations, lines \in contents}

-----------------------------------------------------------------------------
(* Lists, what is read from them, and where the output goes.               *)

ListFiles ==
  { <<>>,
    <<"s1", "s2", "s1">>,
    <<"s1", "s2", "s3", "s4">>,
    <<"s1", "s2", "bad">>,
    <<"s1", "s2", "overlong", "s3">>,
    <<"overlong", "s1">> }

Lists ==
  {[i EXCEPT !.output = o, !.listOptions.mismatches = n] :
     i \in Set({Base}, "list", ListFiles),
     o \in {"-", "out", "new", "list", "tpl", "locked"}, n \in 0 .. 3}

Arguments ==
  {[Base EXCEPT !.list = l, !.output = o] :
     l \in {Text(<<"s1", "s2">>), Text(<<>>), Text(<<"bad">>), File("missing"), File("locked")},
     o \in {"", "/dev/stdout", "out"}}

-----------------------------------------------------------------------------
(* Templates, trusted servers, standard input.                             *)

TemplateFiles ==
  { <<>>, <<"entry">>, Two, <<"entry", "bad">>, <<"entry", "overlong">> }

TrustedArguments ==
  { Text(<<"t1">>), Text(<<"t1", "t2", "t3">>), Text(<<"t1", "bad">>),
    File("out"), File("list"), File("locked"), File("missing") }

Templates ==
  {[i EXCEPT !.template = t, !.trusted = a] :
     i \in Set({Base}, "tpl", TemplateFiles),
     t \in {File("tpl"), File(""), File("missing"), File("locked")},
     a \in TrustedArguments}

Stdin ==
  {[Base EXCEPT !.list = File("/dev/stdin"), !.stdinIsTTY = tty,
                !.files = ("/dev/stdin" :> <<"s1", "s2">>) @@ @] : tty \in BOOLEAN}

Flags == {[Base EXCEPT !.flags = f] : f \in {"help", "unknown"}}

-----------------------------------------------------------------------------
(* Numbers.  With integers of 18 bits, 20 times the global rate becomes    *)
(* negative, zero, or a small positive number.                             *)

TrustedNumbers ==
  {[Base EXCEPT !.trustedOptions = o] :
     o \in [timeout : {0, 2}, rate : Rates, attempts : {0, 1}]}

ListNumbers ==
  {[Base EXCEPT !.listOptions = o, !.output = "list"] :
     o \in [timeout : {0, 4}, rate : Rates, attempts : {-1, 0, 1}, mismatches : {-1, 1}]}

Limits ==
  {[Base EXCEPT !.globRateLimit = g, !.threads = t, !.poolSize = p, !.output = "out"] :
     g \in {-1, 0, 1, 6554, 13108, 65536}, t \in {Unset, -1, 0, 1, 3}, p \in {Unset, -1, 0, 1}}

MCInvocations ==
  Lists \cup Arguments \cup Templates \cup Stdin \cup Flags
    \cup TrustedNumbers \cup ListNumbers \cup Limits

\* Lists alone, for the run ProgramList.
MCLists == Set({Base}, "list", ListFiles)
=============================================================================
