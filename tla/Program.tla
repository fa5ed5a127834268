------------------------------- MODULE Program -------------------------------
(***************************************************************************)
(* A run of DNSanity from its command line to its exit code: config.Init   *)
(* (internal/config/config.go), then the two steps of main.go, which give  *)
(* the same engine different settings.  The engine is seen from outside:   *)
(* it reports every server once, in any order (modules Scheduler and       *)
(* Verdicts).                                                              *)
(***************************************************************************)
EXTENDS Config, ProgressBar

CONSTANTS
  Invocations,   \* command lines, each with the files it finds
  Forbidden      \* paths that can be neither read nor written

\* An argument may name a file, or be a text itself.
Argument == [path : STRING, text : Seq(STRING)]

TrustedOptions == [timeout : Int, rate : Rates, attempts : Int]

ListOptions == [timeout : Int, rate : Rates, attempts : Int, mismatches : Int]

\* The arguments as the flag package delivers them.
ASSUME InvocationsAssumption ==
  \A i \in Invocations :
    /\ i.flags \in {"help", "unknown", "valid"} /\ i.stdinIsTTY \in BOOLEAN
    /\ {i.template, i.trusted, i.list} \subseteq Argument
    /\ i.trustedOptions \in TrustedOptions /\ i.listOptions \in ListOptions
    /\ i.output \in STRING
    /\ "/dev/stdout" \in DOMAIN i.files /\ i.files["/dev/stdout"] = <<>>
    /\ {i.globRateLimit, i.threads, i.poolSize} \subseteq Int
    /\ \A path \in DOMAIN i.files : i.files[path] \in Seq(STRING)

VARIABLES
  opts,          \* the invocation
  files,         \* the lines of every file, standard output among them
  pc,            \* the statement of Init or the step that comes next
  conf,          \* template, trusted list, untrusted list, output path
  engine,        \* the engine's parameters, or Stopped
  reports,       \* reports[step][i]: failed checks of the i-th server
  exitCode       \* -1 until the program ends

vars == <<opts, files, pc, conf, engine, reports, exitCode>>

\* An entry of a map, written whether it was there or not.
Put(map, key, value) ==
  [k \in DOMAIN map \cup {key} |-> IF k = key THEN value ELSE map[k]]

-----------------------------------------------------------------------------
(* config.Init.                                                            *)

OutputBeforeList ==
  [ flags |-> "template", template |-> "trusted", trusted |-> "trustedOptions",
    trustedOptions |-> "output", output |-> "stdin", stdin |-> "list",
    list |-> "listOptions", listOptions |-> "limits", limits |-> "step1",
    step1 |-> "step2" ]

\* What comes after each statement.
Following ==
  [ flags |-> "template", template |-> "trusted", trusted |-> "trustedOptions",
    trustedOptions |-> "stdin", stdin |-> "list", list |-> "listOptions",
    listOptions |-> "output", output |-> "limits", limits |-> "step1",
    step1 |-> "step2" ]

Stopped == [workers |-> 0]

Nothing == [template |-> <<>>, trusted |-> <<>>, list |-> <<>>, output |-> "none"]

Init ==
  /\ opts \in Invocations
  /\ files = opts.files
  /\ pc = "flags"
  /\ conf = Nothing
  /\ engine = Stopped
  /\ reports = <<<<>>, <<>>>>
  /\ exitCode = -1

Exit(code) ==
  /\ pc' = "exit" /\ exitCode' = code
  /\ engine' = Stopped
  /\ UNCHANGED <<opts, files, conf, reports>>

Proceed ==
  /\ pc' = Following[pc]
  /\ UNCHANGED <<opts, engine, reports, exitCode>>

\* A statement that only checks.
Require(valid) ==
  IF valid THEN Proceed /\ UNCHANGED <<files, conf>> ELSE Exit(1)

ParseOptions ==
  /\ pc = "flags"
  /\ CASE opts.flags = "help"    -> Exit(0)
       [] opts.flags = "unknown" -> Exit(2)
       [] opts.flags = "valid"   -> Proceed /\ UNCHANGED <<files, conf>>

\* What an argument stands for: the lines of a file, or else its own text.
Lines(arg) == IF arg.path \in DOMAIN files THEN files[arg.path] ELSE arg.text

Unreadable(arg) == arg.path \in Forbidden

\* A template is a file, or none is given.
Template ==
  IF opts.template.path = "" THEN LoadTemplate(DefaultTemplate)
  ELSE IF opts.template.path \in DOMAIN files THEN LoadTemplate(files[opts.template.path])
  ELSE <<>>

\* A file or a list that was read into a field of conf; nothing is an error.
Read(arg, field, value) ==
  IF Unreadable(arg) \/ value = <<>> THEN Exit(1)
  ELSE /\ conf' = [conf EXCEPT ![field] = value]
       /\ UNCHANGED files
       /\ Proceed

ReadTemplate ==
  /\ pc = "template"
  /\ Read(opts.template, "template", Template)

ReadTrusted ==
  /\ pc = "trusted"
  /\ Read(opts.trusted, "trusted", ParseServerList(Lines(opts.trusted)))

CheckTrustedOptions ==
  /\ pc = "trustedOptions"
  /\ LET o == opts.trustedOptions
     IN  Require(AtLeastOne(o.timeout) /\ o.rate # "negative" /\ AtLeastOne(o.attempts))

CheckStdin ==
  /\ pc = "stdin"
  /\ Require(~(opts.list.path = "/dev/stdin" /\ opts.stdinIsTTY))

ReadList ==
  /\ pc = "list"
  /\ Read(opts.list, "list", ParseServerList(Lines(opts.list)))

AttemptsUnchecked(o) ==
  AtLeastOne(o.timeout) /\ o.rate # "negative" /\ AtLeastZero(o.mismatches)

ListOptionsValid(o) ==
  /\ AtLeastOne(o.timeout) /\ o.rate # "negative"
  /\ AtLeastOne(o.attempts) /\ AtLeastZero(o.mismatches)

CheckListOptions ==
  /\ pc = "listOptions"
  /\ Require(ListOptionsValid(opts.listOptions))

\* OpenFile: a file is truncated, whatever it held.
OpenOutput ==
  /\ pc = "output"
  /\ LET path == IF opts.output \in {"", "-"} THEN "/dev/stdout" ELSE opts.output
     IN  IF path \in Forbidden THEN Exit(1)
         ELSE /\ files' = IF path = "/dev/stdout" THEN files ELSE Put(files, path, <<>>)
              /\ conf' = [conf EXCEPT !.output = path]
              /\ Proceed

CheckLimits ==
  /\ pc = "limits"
  /\ Require(AtLeastOne(opts.globRateLimit) /\ IsLimit(opts.threads) /\ IsLimit(opts.poolSize))

-----------------------------------------------------------------------------
(* The two steps.                                                          *)

Step == IF pc = "step1" THEN 1 ELSE 2

Running == pc \in {"step1", "step2"} /\ engine # Stopped

\* The settings of validateTemplate and of sanitizeServers.
ServerIPs(step) == IF step = 1 THEN conf.trusted ELSE conf.list

PerServer(step) == IF step = 1 THEN opts.trustedOptions ELSE opts.listOptions

PerSrvMaxFailures(step) ==
  IF step = 1 THEN Len(conf.template) + 1 ELSE opts.listOptions.mismatches

EveryStep == {1, 2}

\* The steps whose valid servers go to the output.
OutputSteps == {2}

Threads == OrAuto(opts.threads, opts.globRateLimit)

PoolSize == OrAuto(opts.poolSize, opts.globRateLimit)

Smaller(m, n) == IF m < n THEN m ELSE n

\* DNSanitize sets up: a channel of negative capacity is a panic.
StartEngine ==
  /\ pc \in {"step1", "step2"} /\ engine = Stopped
  /\ LET workers == Smaller(Threads, Len(ServerIPs(Step)) * Len(conf.template))
     IN  IF workers < 0 THEN Exit(2)
         ELSE /\ \E interval \in Intervals(PerServer(Step).rate) :
                   engine' = [workers |-> workers, poolSize |-> PoolSize,
                              tokens |-> opts.globRateLimit,
                              attempts |-> PerServer(Step).attempts,
                              maxFailures |-> PerSrvMaxFailures(Step),
                              interval |-> interval]
              /\ UNCHANGED <<opts, files, pc, conf, reports, exitCode>>

\* Nothing is ever queried without a job slot or a place in the pool; a pool
\* size below zero is no bound, as IsFull compares with it by equality.
Works == engine.workers > 0 /\ engine.poolSize # 0

\* A server is dropped by the failed check that reaches the threshold.
Dropped(step, failed) == failed > 0 /\ failed >= PerSrvMaxFailures(step)

Counts(step) ==
  {n \in 0 .. Len(conf.template) : \A m \in 0 .. n - 1 : ~Dropped(step, m)}

\* ReportFinishedServer.
ReportServer ==
  /\ Running /\ Works
  /\ \E i \in DOMAIN ServerIPs(Step) \ DOMAIN reports[Step], n \in Counts(Step) :
       /\ reports' = [reports EXCEPT ![Step] = Put(@, i, n)]
       /\ files' = IF Dropped(Step, n) \/ Step \notin OutputSteps THEN files
                   ELSE [files EXCEPT ![conf.output] = Append(@, ServerIPs(Step)[i])]
  /\ UNCHANGED <<opts, pc, conf, engine, exitCode>>

ValidServers(step) ==
  Cardinality({i \in DOMAIN reports[step] : ~Dropped(step, reports[step][i])})

InvalidServers(step) ==
  Cardinality({i \in DOMAIN reports[step] : Dropped(step, reports[step][i])})

ServersWithFailures(step) ==
  Cardinality({i \in DOMAIN reports[step] : reports[step][i] > 0})

NobodyDropped == InvalidServers(1) = 0

TemplateValid == ServersWithFailures(1) = 0

\* The engine returns when every server is reported.
FinishStep ==
  /\ Running
  /\ DOMAIN reports[Step] = DOMAIN ServerIPs(Step)
  /\ IF pc = "step2" THEN Exit(0)
     ELSE IF ~TemplateValid THEN Exit(3)
     ELSE /\ pc' = Following[pc]
          /\ engine' = Stopped
          /\ UNCHANGED <<opts, files, conf, reports, exitCode>>

-----------------------------------------------------------------------------
InitStep ==
  \/ ParseOptions \/ ReadTemplate \/ ReadTrusted \/ CheckTrustedOptions
  \/ CheckStdin \/ ReadList \/ CheckListOptions \/ OpenOutput \/ CheckLimits

ProgramStep == InitStep \/ StartEngine \/ ReportServer \/ FinishStep

\* The end, and a loop that never finds anything to do.
Idle ==
  /\ pc = "exit" \/ (Running /\ ~Works)
  /\ UNCHANGED vars

Next == ProgramStep \/ Idle

Spec == Init /\ [][Next]_vars

\* The program runs, and module Scheduler shows that its engine reports every
\* server in the end.
FairSpec == Spec /\ WF_vars(ProgramStep)

-----------------------------------------------------------------------------
(* Properties.                                                             *)

\* No server of the list is tested unless each trusted server passed every
\* check, and was asked every check: none is ever dropped.
CleanTemplateFirst ==
  /\ DOMAIN reports[2] # {} =>
       /\ DOMAIN reports[1] = DOMAIN conf.trusted
       /\ \A i \in DOMAIN reports[1] : reports[1][i] = 0
  /\ \A i \in DOMAIN reports[1] : ~Dropped(1, reports[1][i])
  /\ exitCode = 3 => \E i \in DOMAIN reports[1] : reports[1][i] > 0

Times(word, lines) == Cardinality({k \in DOMAIN lines : lines[k] = word})

Accepted(ip) ==
  {i \in DOMAIN reports[2] : conf.list[i] = ip /\ ~Dropped(2, reports[2][i])}

\* From the moment it is opened, the output holds the servers of the list that
\* were found valid, as often as they are listed, and nothing else: no trusted
\* server and nothing of its old content.  No other file is written.
OutputExact ==
  /\ conf.output # "none" =>
       /\ \A ip \in ToSet(conf.list) :
            Times(ip, files[conf.output]) = Cardinality(Accepted(ip))
       /\ Len(files[conf.output]) = ValidServers(2)
  /\ \A path \in DOMAIN files \ {conf.output} : files[path] = opts.files[path]

\* What the program is given arrives, be the output one of its inputs: when it
\* opens the output, it has read all it will test from the files as they were
\* at its start.
InputsAsGiven ==
  conf.output # "none" =>
    LET Given(arg) == IF arg.path \in DOMAIN opts.files THEN opts.files[arg.path]
                      ELSE arg.text
    IN  /\ conf.list = ParseServerList(Given(opts.list))
        /\ conf.trusted = ParseServerList(Given(opts.trusted))
        /\ opts.template.path # "" =>
             conf.template = LoadTemplate(opts.files[opts.template.path])

Overflow ==
  /\ Unset \in {opts.threads, opts.poolSize}
  /\ 20 * opts.globRateLimit > MaxInt

\* What Init lets pass satisfies the assumptions of the scheduler's modules,
\* unless the default of -threads or -max-poolsize or the interval of a server
\* overflowed.
EngineReady ==
  Running =>
    /\ (engine.workers >= 1 /\ engine.poolSize >= 1) \/ Overflow
    /\ engine.tokens >= 1 /\ engine.attempts >= 1 /\ engine.maxFailures >= 0
    /\ engine.interval >= 0 \/ PerServer(Step).rate = "tiny"

\* The progress bar can be drawn at every moment of a step.
BarFits ==
  Running => Fits(ValidServers(Step), InvalidServers(Step), Len(ServerIPs(Step)))

\* Every run ends, unless the default of -threads or -max-poolsize overflowed.
EveryRunEnds == <>(pc = "exit" \/ Overflow)

\* What the comment on ParseServerList says: that it returns the addresses its
\* input contains.  A run that ends well has tested every one of them.
WholeListTested ==
  exitCode = 0 /\ conf.list # <<>> =>
    \A ip \in ToSet(opts.files[opts.list.path]) \ {"overlong"} :
      \E i \in DOMAIN reports[2] : conf.list[i] = ip
=============================================================================
