---------------------------- MODULE ProgramProofs ----------------------------
(***************************************************************************)
(* What DNSanity does with its inputs, for every command line and every    *)
(* content of the files: what arrives in the engine, what step 1 decides,  *)
(* and what the output holds.                                              *)
(***************************************************************************)
EXTENDS Program, FiniteSetTheorems, SequenceTheorems, TLAPS

-----------------------------------------------------------------------------
(* The progress bar, for any numbers of servers and any width above one    *)
(* rune, however the points of a side are rounded.                         *)

\* A positive factor on both sides cancels.
LEMMA Cancel ==
  ASSUME NEW t \in Nat, t > 0, NEW x \in Int, NEW y \in Int, t * x <= t * y
  PROVE  x <= y
<1>1. SUFFICES ASSUME x >= y + 1 PROVE FALSE
  OBVIOUS
<1>2. t * x >= t * (y + 1)
  BY <1>1
<1>3. t * (y + 1) = t * y + t
  OBVIOUS
<1> QED
  BY <1>2, <1>3

\* Two roundings together gain one point at most, and lose one at most.
LEMMA PointsOfBoth ==
  ASSUME NEW total \in Nat, total > 0,
         NEW valid \in Nat, NEW invalid \in Nat, valid + invalid <= total,
         NEW v \in Points(valid, total), NEW i \in Points(invalid, total)
  PROVE  /\ v \in 0 .. TotalPts /\ i \in 0 .. TotalPts
         /\ v + i <= TotalPts + 1
         /\ valid + invalid = total => v + i >= TotalPts - 1
<1> DEFINE P == TotalPts
<1>1. P \in Nat
  BY WidthAssumption DEF TotalPts, PtsPerChr
<1> HIDE DEF P
<1>2. /\ v \in 0 .. P /\ 2 * total * v <= 2 * P * valid + total
                      /\ 2 * P * valid <= 2 * total * v + total
      /\ i \in 0 .. P /\ 2 * total * i <= 2 * P * invalid + total
                      /\ 2 * P * invalid <= 2 * total * i + total
  BY DEF Points, P
<1>3. /\ total * (v + i) = total * v + total * i
      /\ total * (P + 1) = total * P + total
      /\ total * (P - 1) = total * P - total
      /\ P * (valid + invalid) = P * valid + P * invalid
      /\ 2 * total * v = 2 * (total * v) /\ 2 * total * i = 2 * (total * i)
      /\ 2 * P * valid = 2 * (P * valid) /\ 2 * P * invalid = 2 * (P * invalid)
      /\ P * total = total * P
  BY <1>1, <1>2
<1>4. /\ total * v \in Int /\ total * i \in Int /\ total * P \in Int
      /\ P * valid \in Int /\ P * invalid \in Int
  BY <1>1, <1>2
<1>5. P * (valid + invalid) <= P * total
  BY <1>1
<1>6. total * (v + i) <= total * (P + 1)
  BY <1>2, <1>3, <1>4, <1>5
<1>7. v + i <= P + 1
  BY <1>1, <1>2, <1>6, Cancel
<1>8. ASSUME valid + invalid = total PROVE v + i >= P - 1
  <2>1. P * valid + P * invalid = total * P
    BY <1>1, <1>3, <1>8
  <2>2. total * (P - 1) <= total * (v + i)
    BY <1>1, <1>2, <1>3, <1>4, <2>1
  <2> QED
    BY <1>1, <1>2, <2>2, Cancel
<1> QED
  BY <1>2, <1>7, <1>8 DEF P

\* The runes of so many points exceed the width by one at most.
LEMMA RunesOfBoth ==
  ASSUME NEW v \in 0 .. TotalPts, NEW i \in 0 .. TotalPts, v + i <= TotalPts + 1
  PROVE  /\ Runes(v) \in Nat /\ Runes(i) \in Nat
         /\ Runes(v) + Runes(i) <= TotalChrs + 1
         /\ (v > 0 <=> Runes(v) > 0) /\ (i > 0 <=> Runes(i) > 0)
         /\ Runes(v) <= TotalChrs /\ Runes(i) <= TotalChrs
         /\ v + i >= TotalPts - 1 => Runes(v) + Runes(i) >= TotalChrs
  BY WidthAssumption DEF Runes, TotalPts, PtsPerChr

\* renderBrailleBar never asks strings.Repeat for a negative number of blanks,
\* fills the bar when every server is done, and keeps a rune of a side that has
\* a point.
THEOREM BarAlwaysFits ==
  ASSUME NEW total \in Nat, NEW valid \in Nat, NEW invalid \in Nat,
         valid + invalid <= total
  PROVE  Fits(valid, invalid, total)
<1> SUFFICES ASSUME NEW v \in Points(valid, total), NEW i \in Points(invalid, total)
             PROVE  /\ Bar(v, i).valid \in Nat /\ Bar(v, i).invalid \in Nat
                    /\ Bar(v, i).valid + Bar(v, i).invalid <= TotalChrs
                    /\ valid + invalid = total /\ total > 0 =>
                         Bar(v, i).valid + Bar(v, i).invalid = TotalChrs
                    /\ (v > 0 => Bar(v, i).valid > 0)
                    /\ (i > 0 => Bar(v, i).invalid > 0)
  BY DEF Fits
<1>1. /\ v \in 0 .. TotalPts /\ i \in 0 .. TotalPts
      /\ v + i <= TotalPts + 1
      /\ valid + invalid = total /\ total > 0 => v + i >= TotalPts - 1
  <2>1. CASE total = 0
    BY <2>1, WidthAssumption DEF Points, TotalPts, PtsPerChr
  <2>2. CASE total > 0
    BY <2>2, PointsOfBoth
  <2> QED
    BY <2>1, <2>2
<1> DEFINE left == Runes(v)  right == Runes(i)
<1>2. /\ left \in Nat /\ right \in Nat
      /\ left + right <= TotalChrs + 1
      /\ (v > 0 <=> left > 0) /\ (i > 0 <=> right > 0)
      /\ left <= TotalChrs /\ right <= TotalChrs
      /\ valid + invalid = total /\ total > 0 => left + right >= TotalChrs
  BY <1>1, RunesOfBoth
<1>3. CASE left + right > TotalChrs
  <2>1. left > 0 /\ right > 0 /\ left + right = TotalChrs + 1
    BY <1>2, <1>3, WidthAssumption
  <2>2. \/ Bar(v, i) = [valid |-> left, invalid |-> right - 1] /\ right > 1
        \/ Bar(v, i) = [valid |-> left - 1, invalid |-> right] /\ left > 1
    <3> HIDE DEF left, right
    <3>1. Bar(v, i) = Trim(v, i)
      BY <1>3 DEF Bar, left, right
    <3>2. left = 1 => Bar(v, i) = [valid |-> left, invalid |-> right - 1]
      BY <3>1 DEF Trim, left, right
    <3>3. left # 1 /\ right = 1 => Bar(v, i) = [valid |-> left - 1, invalid |-> right]
      BY <3>1 DEF Trim, left, right
    <3>4. left >= 2 /\ right >= 2 =>
            \/ Bar(v, i) = [valid |-> left, invalid |-> right - 1]
            \/ Bar(v, i) = [valid |-> left - 1, invalid |-> right]
      BY <1>2, <3>1 DEF Trim, TrimEmptier, left, right
    <3> QED
      BY <1>2, <2>1, <3>2, <3>3, <3>4, WidthAssumption
  <2> QED
    BY <1>2, <2>1, <2>2, WidthAssumption
<1>4. CASE ~(left + right > TotalChrs)
  BY <1>2, <1>4, WidthAssumption DEF Bar
<1> QED
  BY <1>3, <1>4

-----------------------------------------------------------------------------
(* The statements behind each one that establishes something.              *)

Steps == {"step1", "step2"}

AfterOutput == {"limits"} \cup Steps

AfterListOptions == {"output"} \cup AfterOutput

AfterList == {"listOptions"} \cup AfterListOptions

AfterTrustedOptions == {"stdin", "list"} \cup AfterList

AfterTrusted == {"trustedOptions"} \cup AfterTrustedOptions

AfterTemplate == {"trusted"} \cup AfterTrusted

BeforeOutput == {"flags", "template"} \cup (AfterTemplate \ AfterOutput)

Outputs == {"none", "/dev/stdout"} \cup {i.output : i \in Invocations}

Confs ==
  [template : Seq(STRING), trusted : Seq(STRING), list : Seq(STRING), output : Outputs]

\* Types.
Typed ==
  /\ opts \in Invocations
  /\ pc \in {"flags", "template", "exit"} \cup AfterTemplate
  /\ conf \in Confs
  /\ \A path \in DOMAIN files : files[path] \in Seq(STRING)

\* What each statement establishes stays.
Checked ==
  /\ pc \in AfterTemplate => conf.template # <<>>
  /\ pc \in AfterTrusted => conf.trusted # <<>>
  /\ pc \in AfterTrustedOptions => opts.trustedOptions.attempts >= 1
  /\ pc \in AfterList => conf.list # <<>>
  /\ pc \in AfterListOptions => ListOptionsValid(opts.listOptions)
  /\ pc \in Steps =>
       opts.globRateLimit >= 1 /\ IsLimit(opts.threads) /\ IsLimit(opts.poolSize)
  /\ pc \notin Steps => engine = Stopped
  /\ EngineReady

-----------------------------------------------------------------------------
(* The readers.                                                            *)

\* What the scanner yields of a file is a file.
LEMMA ScannedType ==
  ASSUME NEW lines \in Seq(STRING)
  PROVE  Scanned(lines) \in Seq(STRING)
<1> DEFINE n == Len(lines)
<1>1. n \in Nat
  OBVIOUS
<1>2. Reached(lines) \in SUBSET (1 .. n)
  BY DEF Reached
<1> HIDE DEF n
<1>3. IsFiniteSet(1 .. n) /\ Cardinality(1 .. n) = n
  BY <1>1, FS_Interval
<1>4. Cardinality(Reached(lines)) \in Nat /\ Cardinality(Reached(lines)) <= n
  BY <1>2, <1>3, FS_Subset, FS_CardinalityType
<1>5. \A i \in 1 .. n : lines[i] \in STRING
  BY DEF n
<1> DEFINE m == Cardinality(Reached(lines))
<1>6. SubSeq(lines, 1, m) \in Seq(STRING)
  <2>1. m \in Int /\ \A i \in 1 .. m : lines[i] \in STRING
    BY <1>1, <1>4, <1>5
  <2> HIDE DEF m
  <2> QED
    BY <2>1, SubSeqProperties
<1> QED
  BY <1>6 DEF Scanned

\* What the readers return is a sequence of words.
LEMMA ReadType ==
  ASSUME NEW lines \in Seq(STRING)
  PROVE  ParseServerList(lines) \in Seq(STRING) /\ LoadTemplate(lines) \in Seq(STRING)
<1>1. <<>> \in Seq(STRING)
  OBVIOUS
<1>2. Scanned(lines) \in Seq(STRING)
  BY ScannedType
<1> QED
  BY <1>1, <1>2, Zenon DEF ParseServerList, LoadTemplate

\* An argument, as it is read, is a file.
LEMMA ArgumentType ==
  ASSUME Typed, NEW arg \in {opts.trusted, opts.list}
  PROVE  Lines(arg) \in Seq(STRING)
<1>1. arg.text \in Seq(STRING)
  BY InvocationsAssumption DEF Typed, Argument
<1> QED
  BY <1>1 DEF Lines, Typed

\* So is the template, built in or given.
LEMMA TemplateType ==
  ASSUME Typed
  PROVE  Template \in Seq(STRING)
<1>1. LoadTemplate(DefaultTemplate) \in Seq(STRING)
  BY ConfigAssumption, ReadType
<1>2. ASSUME opts.template.path \in DOMAIN files
      PROVE  LoadTemplate(files[opts.template.path]) \in Seq(STRING)
  BY <1>2, ReadType DEF Typed
<1>3. <<>> \in Seq(STRING)
  OBVIOUS
<1> QED
  BY <1>1, <1>2, <1>3, Zenon DEF Template

-----------------------------------------------------------------------------
(* What a statement of config.Init does.                                   *)

Exits == \E code \in {0, 1, 2} : Exit(code)

ReadField(field, value) ==
  /\ value # <<>>
  /\ conf' = [conf EXCEPT ![field] = value]
  /\ UNCHANGED files

Opened(path) ==
  /\ conf' = [conf EXCEPT !.output = path]
  /\ files' = IF path = "/dev/stdout" THEN files ELSE Put(files, path, <<>>)

Checks(stage, next, condition) ==
  /\ pc = stage /\ pc' = next /\ condition
  /\ UNCHANGED <<files, conf>>

\* It ends the program, or it establishes something and goes on.
LEMMA InitOutcome ==
  ASSUME Typed, InitStep
  PROVE  \/ Exits
         \/ /\ UNCHANGED <<opts, engine, reports, exitCode>>
            /\ \/ Checks("flags", "template", TRUE)
               \/ /\ pc = "template" /\ pc' = "trusted"
                  /\ ReadField("template", Template)
               \/ /\ pc = "trusted" /\ pc' = "trustedOptions"
                  /\ ReadField("trusted", ParseServerList(Lines(opts.trusted)))
               \/ Checks("trustedOptions", "stdin", opts.trustedOptions.attempts >= 1)
               \/ Checks("stdin", "list", TRUE)
               \/ /\ pc = "list" /\ pc' = "listOptions"
                  /\ ReadField("list", ParseServerList(Lines(opts.list)))
               \/ Checks("listOptions", "output", ListOptionsValid(opts.listOptions))
               \/ /\ pc = "output" /\ pc' = "limits"
                  /\ \E path \in {"/dev/stdout", opts.output} : Opened(path)
               \/ Checks("limits", "step1",
                         /\ opts.globRateLimit >= 1
                         /\ IsLimit(opts.threads) /\ IsLimit(opts.poolSize))
<1> USE DEF Exits, Proceed, Following
<1>1. CASE ParseOptions
  BY <1>1, InvocationsAssumption DEF ParseOptions, Checks, Typed
<1>2. CASE ReadTemplate
  BY <1>2 DEF ReadTemplate, Read, ReadField
<1>3. CASE ReadTrusted
  BY <1>3 DEF ReadTrusted, Read, ReadField
<1>4. CASE CheckTrustedOptions
  BY <1>4 DEF CheckTrustedOptions, Require, AtLeastOne, Checks
<1>5. CASE CheckStdin
  BY <1>5 DEF CheckStdin, Require, Checks
<1>6. CASE ReadList
  BY <1>6 DEF ReadList, Read, ReadField
<1>7. CASE CheckListOptions
  BY <1>7 DEF CheckListOptions, Require, Checks
<1>8. CASE OpenOutput
  BY <1>8 DEF OpenOutput, Opened
<1>9. CASE CheckLimits
  BY <1>9 DEF CheckLimits, Require, AtLeastOne, Checks
<1> QED
  BY <1>1, <1>2, <1>3, <1>4, <1>5, <1>6, <1>7, <1>8, <1>9 DEF InitStep

-----------------------------------------------------------------------------
(* Types.                                                                  *)

\* A line that ReportServer appends keeps a file a sequence of lines.
LEMMA ReportTyped ==
  ASSUME Typed, ReportServer
  PROVE  \A path \in DOMAIN files' : files'[path] \in Seq(STRING)
<1>1. PICK i \in DOMAIN ServerIPs(Step) :
        \/ files' = files
        \/ files' = [files EXCEPT ![conf.output] = Append(@, ServerIPs(Step)[i])]
  BY DEF ReportServer
<1>2. ServerIPs(Step) \in Seq(STRING)
  BY DEF ServerIPs, Typed, Confs
<1>3. ServerIPs(Step)[i] \in STRING
  BY <1>2
<1>4. \A lines \in Seq(STRING) : Append(lines, ServerIPs(Step)[i]) \in Seq(STRING)
  BY <1>3, AppendProperties
<1> QED
  BY <1>1, <1>4 DEF Typed

\* The program starts with values of their types.
LEMMA TypedInit == Init => Typed
<1> SUFFICES ASSUME Init PROVE Typed
  OBVIOUS
<1>1. conf \in Confs
  <2>1. <<>> \in Seq(STRING)
    OBVIOUS
  <2> QED
    BY <2>1 DEF Init, Nothing, Confs, Outputs
<1>2. \A path \in DOMAIN files : files[path] \in Seq(STRING)
  BY InvocationsAssumption DEF Init
<1> QED
  BY <1>1, <1>2 DEF Init, Typed

\* Every step keeps them.
LEMMA TypedNext ==
  ASSUME Typed, [Next]_vars
  PROVE  Typed'
<1>1. CASE InitStep
  <2>1. CASE Exits
    BY <2>1 DEF Exits, Exit, Typed
  <2>2. CASE ~Exits
    <3>1. opts' \in Invocations /\ pc' \in {"flags", "template", "exit"} \cup AfterTemplate
      BY <1>1, <2>2, InitOutcome
         DEF Typed, Checks, AfterTemplate, AfterTrusted, AfterTrustedOptions, AfterList,
             AfterListOptions, AfterOutput, Steps
    <3>2. conf' \in Confs
      <4>1. /\ Template \in Seq(STRING)
            /\ ParseServerList(Lines(opts.trusted)) \in Seq(STRING)
            /\ ParseServerList(Lines(opts.list)) \in Seq(STRING)
        BY ArgumentType, TemplateType, ReadType
      <4>2. {"/dev/stdout", opts.output} \subseteq Outputs
        BY DEF Typed, Outputs
      <4>3. conf \in Confs
        BY DEF Typed
      <4>4. /\ [conf EXCEPT !.template = Template] \in Confs
            /\ [conf EXCEPT !.trusted = ParseServerList(Lines(opts.trusted))] \in Confs
            /\ [conf EXCEPT !.list = ParseServerList(Lines(opts.list))] \in Confs
            /\ [conf EXCEPT !.output = opts.output] \in Confs
            /\ [conf EXCEPT !.output = "/dev/stdout"] \in Confs
        BY <4>1, <4>2, <4>3 DEF Confs
      <4> QED
        BY <1>1, <2>2, <4>3, <4>4, InitOutcome DEF Checks, ReadField, Opened
    <3>3. \A path \in DOMAIN files' : files'[path] \in Seq(STRING)
      <4>1. CASE files' = files
        BY <4>1 DEF Typed
      <4>2. ASSUME NEW path, files' = Put(files, path, <<>>)
            PROVE  \A p \in DOMAIN files' : files'[p] \in Seq(STRING)
        <5>1. <<>> \in Seq(STRING)
          OBVIOUS
        <5> QED
          BY <4>2, <5>1 DEF Typed, Put
      <4> QED
        BY <1>1, <2>2, <4>1, <4>2, InitOutcome DEF Checks, ReadField, Opened
    <3> QED
      BY <3>1, <3>2, <3>3 DEF Typed
  <2> QED
    BY <2>1, <2>2
<1>2. CASE StartEngine
  BY <1>2 DEF StartEngine, Exit, Typed
<1>3. CASE ReportServer
  <2>1. UNCHANGED <<opts, pc, conf>>
    BY <1>3 DEF ReportServer
  <2> QED
    BY <1>3, <2>1, ReportTyped DEF Typed
<1>4. CASE FinishStep
  BY <1>4 DEF FinishStep, Exit, Typed, Running, Following, AfterTemplate, AfterTrusted,
       AfterTrustedOptions, AfterList, AfterListOptions, AfterOutput, Steps
<1>5. CASE UNCHANGED vars
  BY <1>5 DEF vars, Typed
<1> QED
  BY <1>1, <1>2, <1>3, <1>4, <1>5 DEF Next, ProgramStep, Idle

-----------------------------------------------------------------------------
(* The inputs.                                                             *)

\* What an argument stood for at the start.
Original(arg) ==
  IF arg.path \in DOMAIN opts.files THEN opts.files[arg.path] ELSE arg.text

TemplateGiven ==
  opts.template.path # "" => conf.template = LoadTemplate(opts.files[opts.template.path])

TrustedGiven == conf.trusted = ParseServerList(Original(opts.trusted))

ListGiven == conf.list = ParseServerList(Original(opts.list))

\* The files are as they were as long as one of them is still to be read.
Given ==
  /\ pc \in BeforeOutput => files = opts.files /\ conf.output = "none"
  /\ pc \in AfterTemplate => TemplateGiven
  /\ pc \in AfterTrusted => TrustedGiven
  /\ pc \in AfterList => ListGiven
  /\ conf.output # "none" => TemplateGiven /\ TrustedGiven /\ ListGiven

\* Nothing is read yet, and no file changed.
LEMMA GivenInit == Init => Given
  BY DEF Init, Nothing, Given, AfterTemplate, AfterTrusted, AfterTrustedOptions, AfterList,
         AfterListOptions, AfterOutput, Steps

\* Later steps leave the configuration alone.
LEMMA GivenKept ==
  ASSUME Given, UNCHANGED <<opts, conf>>,
         \/ pc' = "exit"
         \/ pc' = pc /\ (files' = files \/ pc \notin BeforeOutput)
         \/ pc = "step1" /\ pc' = "step2"
  PROVE  Given'
  BY DEF Given, TemplateGiven, TrustedGiven, ListGiven, Original, BeforeOutput, AfterTemplate,
         AfterTrusted, AfterTrustedOptions, AfterList, AfterListOptions, AfterOutput, Steps

\* What a statement reads, it reads from the files as they were given.
LEMMA GivenNext ==
  ASSUME Typed, Given, [Next]_vars
  PROVE  Given'
<1> USE DEF BeforeOutput, AfterTemplate, AfterTrusted, AfterTrustedOptions, AfterList,
            AfterListOptions, AfterOutput, Steps
<1>1. CASE InitStep
  <2>1. CASE Exits
    BY <2>1, GivenKept DEF Exits, Exit
  <2>2. CASE ~Exits
    <3>1. UNCHANGED opts /\ conf \in Confs
      BY <1>1, <2>2, InitOutcome DEF Typed
    <3>2. CASE pc' \notin {"trusted", "trustedOptions", "listOptions", "limits"}
      BY <1>1, <2>2, <3>1, <3>2, InitOutcome
         DEF Given, TemplateGiven, TrustedGiven, ListGiven, Original, Checks
    <3>3. CASE pc = "template" /\ pc' = "trusted" /\ ReadField("template", Template)
      BY <3>1, <3>3 DEF Given, TemplateGiven, ReadField, Template, Confs
    <3>4. CASE /\ pc = "trusted" /\ pc' = "trustedOptions"
               /\ ReadField("trusted", ParseServerList(Lines(opts.trusted)))
      <4>1. files = opts.files /\ conf.output = "none" /\ TemplateGiven
        BY <3>4 DEF Given
      <4>2. Lines(opts.trusted) = Original(opts.trusted)
        BY <4>1 DEF Lines, Original
      <4>3. /\ conf'.trusted = ParseServerList(Original(opts.trusted))
            /\ conf'.template = conf.template /\ conf'.output = "none" /\ files' = files
        BY <3>1, <3>4, <4>1, <4>2 DEF ReadField, Confs
      <4> QED
        BY <3>1, <3>4, <4>1, <4>3 DEF Given, TemplateGiven, TrustedGiven, Original
    <3>5. CASE /\ pc = "list" /\ pc' = "listOptions"
               /\ ReadField("list", ParseServerList(Lines(opts.list)))
      BY <3>1, <3>5
         DEF Given, TemplateGiven, TrustedGiven, ListGiven, Original, Lines, ReadField, Confs
    <3>6. ASSUME pc = "output", pc' = "limits", NEW path, Opened(path)
          PROVE  Given'
      BY <3>1, <3>6
         DEF Given, TemplateGiven, TrustedGiven, ListGiven, Original, Opened, Confs
    <3> QED
      BY <1>1, <2>2, <3>2, <3>3, <3>4, <3>5, <3>6, InitOutcome DEF Checks
  <2> QED
    BY <2>1, <2>2
<1>2. CASE StartEngine
  BY <1>2, GivenKept DEF StartEngine, Exit
<1>3. CASE ReportServer
  BY <1>3, GivenKept DEF ReportServer, Running
<1>4. CASE FinishStep
  BY <1>4, GivenKept DEF FinishStep, Exit, Running, Following
<1>5. CASE UNCHANGED vars
  BY <1>5, GivenKept DEF vars
<1> QED
  BY <1>1, <1>2, <1>3, <1>4, <1>5 DEF Next, ProgramStep, Idle

\* config.Init reads everything before it truncates the output.
THEOREM InputsArrive == Spec => []InputsAsGiven
<1>1. Typed /\ Given => InputsAsGiven
  BY DEF Given, TemplateGiven, TrustedGiven, ListGiven, Original, InputsAsGiven
<1> QED
  BY <1>1, TypedInit, TypedNext, GivenInit, GivenNext, PTL DEF Spec

-----------------------------------------------------------------------------
(* The engine.                                                             *)

\* An integer in range does not wrap.
LEMMA NoWrap ==
  ASSUME NEW n \in Nat, n <= MaxInt
  PROVE  Wrap(n) = n
<1>1. \A a, b \in Nat : a < b => a % b = a
  OBVIOUS
<1>2. n + MaxInt + 1 \in Nat /\ 2 * (MaxInt + 1) \in Nat
      /\ n + MaxInt + 1 < 2 * (MaxInt + 1)
  BY ConfigAssumption
<1>3. (n + MaxInt + 1) % (2 * (MaxInt + 1)) = n + MaxInt + 1
  BY <1>1, <1>2
<1> QED
  BY <1>3, ConfigAssumption DEF Wrap

\* Without overflow there are slots, and room in the pool.
LEMMA LimitsFit ==
  ASSUME opts \in Invocations, opts.globRateLimit >= 1,
         IsLimit(opts.threads), IsLimit(opts.poolSize)
  PROVE  /\ opts.globRateLimit \in Int /\ Threads \in Int /\ PoolSize \in Int
         /\ (Threads >= 1 /\ PoolSize >= 1) \/ Overflow
<1>1. /\ opts.globRateLimit \in Int /\ opts.threads \in Int /\ opts.poolSize \in Int
  BY InvocationsAssumption
<1>2. AutoLimit(opts.globRateLimit) \in Int
  BY <1>1, ConfigAssumption DEF AutoLimit, Wrap
<1>3. 20 * opts.globRateLimit <= MaxInt => AutoLimit(opts.globRateLimit) >= 1
  BY <1>1, NoWrap DEF AutoLimit
<1> QED
  BY <1>1, <1>2, <1>3, ConfigAssumption
     DEF Threads, PoolSize, OrAuto, IsLimit, AtLeastOne, Overflow

\* Nothing is checked yet.
LEMMA CheckedInit == Init => Checked
  BY DEF Init, Checked, EngineReady, Running, AfterTemplate, AfterTrusted,
         AfterTrustedOptions, AfterList, AfterListOptions, AfterOutput, Steps

\* What StartEngine starts.
LEMMA EngineStarts ==
  ASSUME Typed, Checked, StartEngine, pc' # "exit"
  PROVE  EngineReady'
<1>1. /\ pc \in Steps /\ UNCHANGED <<opts, pc, conf>>
      /\ opts.globRateLimit >= 1 /\ IsLimit(opts.threads) /\ IsLimit(opts.poolSize)
      /\ opts.trustedOptions.attempts >= 1 /\ ListOptionsValid(opts.listOptions)
      /\ conf.template # <<>> /\ conf.trusted # <<>> /\ conf.list # <<>>
  BY DEF StartEngine, Exit, Checked, Steps, AfterTemplate, AfterTrusted,
         AfterTrustedOptions, AfterList, AfterListOptions, AfterOutput
<1> DEFINE total == Len(ServerIPs(Step)) * Len(conf.template)
           workers == Smaller(Threads, total)
<1>2. PICK interval \in Intervals(PerServer(Step).rate) :
        engine' = [workers |-> workers, poolSize |-> PoolSize,
                   tokens |-> opts.globRateLimit,
                   attempts |-> PerServer(Step).attempts,
                   maxFailures |-> PerSrvMaxFailures(Step),
                   interval |-> interval]
  BY <1>1 DEF StartEngine, Exit
<1>3. total \in Nat /\ total >= 1
  <2>1. /\ ServerIPs(Step) \in Seq(STRING) /\ ServerIPs(Step) # <<>>
        /\ conf.template \in Seq(STRING)
    BY <1>1 DEF Typed, Confs, ServerIPs
  <2>2. \A s \in Seq(STRING) : s # <<>> => Len(s) \in Nat /\ Len(s) >= 1
    BY EmptySeq
  <2>3. \A a, b \in Nat : a >= 1 /\ b >= 1 => a * b \in Nat /\ a * b >= 1
    OBVIOUS
  <2> QED
    BY <1>1, <2>1, <2>2, <2>3
<1>4. (workers >= 1 /\ PoolSize >= 1) \/ Overflow
  <2> HIDE DEF total
  <2> QED
    BY <1>1, <1>3, LimitsFit DEF Smaller, Typed
<1>5. PerServer(Step).attempts >= 1 /\ PerSrvMaxFailures(Step) >= 0
  <2>1. Len(conf.template) \in Nat
    BY DEF Typed, Confs
  <2> QED
    BY <1>1, <2>1
       DEF PerServer, PerSrvMaxFailures, ListOptionsValid, AtLeastOne, AtLeastZero
<1>6. interval >= 0 \/ PerServer(Step).rate = "tiny"
  BY ConfigAssumption DEF Intervals
<1>7. /\ engine'.workers = workers /\ engine'.poolSize = PoolSize
      /\ engine'.tokens = opts.globRateLimit
      /\ engine'.attempts = PerServer(Step).attempts
      /\ engine'.maxFailures = PerSrvMaxFailures(Step)
      /\ engine'.interval = interval
  BY <1>2
<1> HIDE DEF workers
<1>8. Step' = Step /\ PerServer(Step)' = PerServer(Step) /\ Overflow' = Overflow
  BY <1>1 DEF Step, PerServer, Overflow
<1> QED
  BY <1>1, <1>4, <1>5, <1>6, <1>7, <1>8 DEF EngineReady

\* A statement establishes what it checks, and later ones keep it.
LEMMA CheckedNext ==
  ASSUME Typed, Checked, [Next]_vars
  PROVE  Checked'
<1> USE DEF AfterTemplate, AfterTrusted, AfterTrustedOptions, AfterList,
            AfterListOptions, AfterOutput, Steps
<1>1. CASE InitStep
  <2>1. CASE Exits
    BY <2>1 DEF Exits, Exit, Checked, EngineReady, Running
  <2>2. CASE ~Exits
    <3>1. conf \in Confs /\ UNCHANGED opts
      BY <1>1, <2>2, InitOutcome DEF Typed
    <3>2. engine = Stopped /\ engine' = Stopped
      BY <1>1, <2>2, InitOutcome DEF Checked, Checks
    <3>3. EngineReady'
      BY <3>2 DEF EngineReady, Running
    <3>4. (pc \in AfterTemplate => conf.template # <<>>)'
      BY <1>1, <2>2, <3>1, InitOutcome DEF Checked, Checks, ReadField, Opened, Confs
    <3>5. (pc \in AfterTrusted => conf.trusted # <<>>)'
      BY <1>1, <2>2, <3>1, InitOutcome DEF Checked, Checks, ReadField, Opened, Confs
    <3>6. (pc \in AfterList => conf.list # <<>>)'
      BY <1>1, <2>2, <3>1, InitOutcome DEF Checked, Checks, ReadField, Opened, Confs
    <3>7. /\ (pc \in AfterTrustedOptions => opts.trustedOptions.attempts >= 1)'
          /\ (pc \in AfterListOptions => ListOptionsValid(opts.listOptions))'
          /\ (pc \in Steps => /\ opts.globRateLimit >= 1
                              /\ IsLimit(opts.threads) /\ IsLimit(opts.poolSize))'
      BY <1>1, <2>2, <3>1, InitOutcome DEF Checked, Checks
    <3> QED
      BY <3>2, <3>3, <3>4, <3>5, <3>6, <3>7 DEF Checked
  <2> QED
    BY <2>1, <2>2
<1>2. CASE StartEngine
  <2>1. CASE pc' = "exit"
    BY <1>2, <2>1 DEF StartEngine, Exit, Checked, EngineReady, Running
  <2>2. CASE pc' # "exit"
    BY <1>2, <2>2, EngineStarts DEF StartEngine, Exit, Checked
  <2> QED
    BY <2>1, <2>2
<1>3. CASE ReportServer
  BY <1>3 DEF ReportServer, Checked, EngineReady, Running, Step, PerServer, Overflow
<1>4. CASE FinishStep
  BY <1>4 DEF FinishStep, Exit, Running, Following, Checked, EngineReady
<1>5. CASE UNCHANGED vars
  BY <1>5 DEF vars, Checked, EngineReady, Running, Step, PerServer, Overflow
<1> QED
  BY <1>1, <1>2, <1>3, <1>4, <1>5 DEF Next, ProgramStep, Idle

\* What config.Init lets pass satisfies the assumptions of the engine.
THEOREM EngineIsReady == Spec => []EngineReady
<1>1. Checked => EngineReady
  BY DEF Checked
<1> QED
  BY <1>1, TypedInit, TypedNext, CheckedInit, CheckedNext, PTL DEF Spec

-----------------------------------------------------------------------------
(* The reports.                                                            *)

\* Step 2 begins behind a clean step 1.
Recorded ==
  /\ DOMAIN reports = {1, 2}
  /\ DOMAIN reports[1] \subseteq DOMAIN conf.trusted
  /\ DOMAIN reports[2] \subseteq DOMAIN conf.list
  /\ \A i \in DOMAIN reports[1] : reports[1][i] \in 0 .. Len(conf.template)
  /\ pc \notin Steps \cup {"exit"} => DOMAIN reports[1] = {}
  /\ pc \notin {"step2", "exit"} => DOMAIN reports[2] = {}
  /\ pc = "step2" \/ DOMAIN reports[2] # {} =>
       /\ DOMAIN reports[1] = DOMAIN conf.trusted
       /\ \A i \in DOMAIN reports[1] : reports[1][i] = 0
  /\ exitCode = 3 => pc = "exit" /\ \E i \in DOMAIN reports[1] : reports[1][i] > 0

\* No server is reported yet.
LEMMA RecordedInit == Init => Recorded
  BY DEF Init, Recorded, Steps

\* A step without a report, other than the end of step 1, keeps the reports.
LEMMA RecordedKept ==
  ASSUME Recorded, UNCHANGED <<conf, reports>>, pc # "exit",
         exitCode' # 3, pc' = pc \/ pc' = "exit"
  PROVE  Recorded'
  BY DEF Recorded, Steps

\* A report enters the map of its step.
LEMMA RecordedReport ==
  ASSUME Typed, Recorded, ReportServer
  PROVE  Recorded'
<1>1. PICK i \in DOMAIN ServerIPs(Step) \ DOMAIN reports[Step], n \in Counts(Step) :
        reports' = [reports EXCEPT ![Step] = Put(@, i, n)]
  BY DEF ReportServer
<1>2. UNCHANGED <<pc, conf, exitCode>> /\ pc \in Steps
  BY DEF ReportServer, Running, Steps
<1>3. n \in 0 .. Len(conf.template)
  BY DEF Counts
<1>4. CASE pc = "step1"
  BY <1>1, <1>2, <1>3, <1>4 DEF Recorded, Step, ServerIPs, Put, Steps
<1>5. CASE pc = "step2"
  BY <1>1, <1>2, <1>5 DEF Recorded, Step, ServerIPs, Put, Steps
<1> QED
  BY <1>2, <1>4, <1>5 DEF Steps

\* Every set of servers of a step is finite.
LEMMA ReportsFinite ==
  ASSUME Typed, Recorded, NEW step \in {1, 2}, NEW S \in SUBSET DOMAIN reports[step]
  PROVE  IsFiniteSet(S) /\ Cardinality(S) \in Nat /\ Cardinality(S) <= Len(ServerIPs(step))
<1> DEFINE n == Len(ServerIPs(step))
<1>1. n \in Nat /\ S \in SUBSET (1 .. n)
  BY DEF Recorded, ServerIPs, Typed, Confs
<1> HIDE DEF n
<1>2. IsFiniteSet(1 .. n) /\ Cardinality(1 .. n) = n
  BY <1>1, FS_Interval
<1>3. IsFiniteSet(S) /\ Cardinality(S) \in Nat /\ Cardinality(S) <= n
  BY <1>1, <1>2, FS_Subset, FS_CardinalityType
<1> QED
  BY <1>3 DEF n

\* ServersWithFailures counts exactly what makes the template invalid.
LEMMA TemplateDecided ==
  ASSUME Typed, Recorded
  PROVE  TemplateValid <=> \A i \in DOMAIN reports[1] : reports[1][i] = 0
<1> DEFINE failing == {i \in DOMAIN reports[1] : reports[1][i] > 0}
<1>1. IsFiniteSet(failing)
  BY ReportsFinite
<1>2. Cardinality(failing) = 0 <=> failing = {}
  BY <1>1, FS_EmptySet
<1>3. \A i \in DOMAIN reports[1] : reports[1][i] \in Nat
  BY DEF Recorded, Typed, Confs
<1> QED
  BY <1>2, <1>3 DEF TemplateValid, ServersWithFailures

\* Step 2 begins only when the reports of step 1 are complete and clean.
LEMMA RecordedNext ==
  ASSUME Typed, Recorded, [Next]_vars
  PROVE  Recorded'
<1>1. CASE InitStep
  <2>1. CASE Exits
    <3>1. pc \notin Steps \cup {"exit"}
      BY <1>1 DEF InitStep, ParseOptions, ReadTemplate, ReadTrusted, CheckTrustedOptions,
           CheckStdin, ReadList, CheckListOptions, OpenOutput, CheckLimits, Steps
    <3> QED
      BY <2>1, <3>1, RecordedKept DEF Exits, Exit
  <2>2. CASE ~Exits
    <3>1. /\ pc \notin Steps \cup {"exit"} /\ UNCHANGED <<reports, exitCode>>
          /\ pc' \notin {"step2", "exit"}
      BY <1>1, <2>2, InitOutcome DEF Checks, Steps
    <3> QED
      BY <3>1 DEF Recorded, Steps
  <2> QED
    BY <2>1, <2>2
<1>2. CASE StartEngine
  BY <1>2, RecordedKept DEF StartEngine, Exit, Recorded
<1>3. CASE ReportServer
  BY <1>3, RecordedReport
<1>4. CASE FinishStep
  <2>1. CASE pc = "step2"
    BY <1>4, <2>1, RecordedKept DEF FinishStep, Exit
  <2>2. CASE pc = "step1" /\ ~TemplateValid
    <3>1. \E i \in DOMAIN reports[1] : reports[1][i] > 0
      BY <2>2, TemplateDecided DEF Recorded, Typed, Confs
    <3> QED
      BY <1>4, <2>2, <3>1 DEF FinishStep, Exit, Recorded, Steps
  <2>3. CASE pc = "step1" /\ TemplateValid
    <3>1. \A i \in DOMAIN reports[1] : reports[1][i] = 0
      BY <2>3, TemplateDecided
    <3> QED
      BY <1>4, <2>3, <3>1
         DEF FinishStep, Following, Recorded, Step, ServerIPs, Steps
  <2> QED
    BY <1>4, <2>1, <2>2, <2>3 DEF FinishStep, Running
<1>5. CASE UNCHANGED vars
  BY <1>5 DEF vars, Recorded
<1> QED
  BY <1>1, <1>2, <1>3, <1>4, <1>5 DEF Next, ProgramStep, Idle

\* No server of the list is tested unless the template was validated.
THEOREM TemplateComesFirst == Spec => []CleanTemplateFirst
<1>1. ASSUME Typed, Recorded
      PROVE  CleanTemplateFirst
  <2>1. \A i \in DOMAIN reports[1] : ~Dropped(1, reports[1][i])
    BY <1>1 DEF Recorded, Dropped, PerSrvMaxFailures, Typed, Confs
  <2> QED
    BY <1>1, <2>1 DEF Recorded, CleanTemplateFirst
<1> QED
  BY <1>1, TypedInit, TypedNext, RecordedInit, RecordedNext, PTL DEF Spec

\* The counters of the bar never exceed the number of servers.
THEOREM BarIsDrawn == Spec => []BarFits
<1>1. ASSUME Typed, Recorded
      PROVE  BarFits
  <2> DEFINE D == DOMAIN reports[Step]
             V == {i \in D : ~Dropped(Step, reports[Step][i])}
             I == {i \in D : Dropped(Step, reports[Step][i])}
  <2>1. Step \in {1, 2}
    BY DEF Step
  <2>2. /\ IsFiniteSet(V) /\ Cardinality(V) \in Nat
        /\ IsFiniteSet(I) /\ Cardinality(I) \in Nat
        /\ Cardinality(D) <= Len(ServerIPs(Step))
    BY <1>1, <2>1, ReportsFinite
  <2>3. V \cap I = {} /\ V \cup I = D
    OBVIOUS
  <2>4. Len(ServerIPs(Step)) \in Nat
    BY <1>1 DEF Typed, Confs, ServerIPs
  <2>5. Cardinality(V) + Cardinality(I) <= Len(ServerIPs(Step))
    <3> HIDE DEF V, I, D
    <3>1. Cardinality(V \cup I) = Cardinality(V) + Cardinality(I) - Cardinality(V \cap I)
      BY <2>2, FS_Union
    <3>2. Cardinality(V \cap I) = 0
      BY <2>3, FS_EmptySet
    <3>3. /\ Cardinality(D) = Cardinality(V) + Cardinality(I) - 0
          /\ Cardinality(D) <= Len(ServerIPs(Step))
      BY <2>2, <2>3, <3>1, <3>2
    <3> QED
      BY <2>2, <2>4, <3>3
  <2> QED
    BY <2>2, <2>4, <2>5, BarAlwaysFits DEF BarFits, ValidServers, InvalidServers
<1> QED
  BY <1>1, TypedInit, TypedNext, RecordedInit, RecordedNext, PTL DEF Spec

-----------------------------------------------------------------------------
(* The output.                                                             *)

\* The file that is appended to exists.
Written ==
  /\ pc \in AfterOutput => conf.output \in DOMAIN files
  /\ OutputExact

\* A line more is one occurrence more of itself, and of nothing else.
LEMMA TimesAppend ==
  ASSUME NEW lines \in Seq(STRING), NEW word \in STRING, NEW ip
  PROVE  /\ Times(ip, lines) \in Nat
         /\ Times(ip, Append(lines, word)) =
              IF word = ip THEN Times(ip, lines) + 1 ELSE Times(ip, lines)
<1> DEFINE n == Len(lines)
           K == {k \in DOMAIN lines : lines[k] = ip}
           L == {k \in DOMAIN Append(lines, word) : Append(lines, word)[k] = ip}
<1>1. n \in Nat /\ K \in SUBSET (1 .. n) /\ n + 1 \notin K
  OBVIOUS
<1>2. L = IF word = ip THEN K \cup {n + 1} ELSE K
  <2>1. /\ DOMAIN Append(lines, word) = 1 .. n + 1
        /\ \A k \in 1 .. n : Append(lines, word)[k] = lines[k]
        /\ Append(lines, word)[n + 1] = word
        /\ DOMAIN lines = 1 .. n
    <3> DEFINE more == Append(lines, word)
    <3>1. more \in Seq(STRING) /\ Len(more) = n + 1 /\ more[n + 1] = word
      BY AppendProperties
    <3>2. \A k \in 1 .. n : more[k] = lines[k]
      BY AppendProperties
    <3>3. DOMAIN more = 1 .. Len(more)
      <4> HIDE DEF more
      <4> QED
        BY <3>1
    <3> QED
      BY <3>1, <3>2, <3>3
  <2>2. \A k : k \in L <=> k \in 1 .. n + 1 /\ Append(lines, word)[k] = ip
    BY <2>1
  <2>3. \A k : k \in K <=> k \in 1 .. n /\ lines[k] = ip
    BY <2>1
  <2> HIDE DEF n, K, L
  <2>4. \A k : k \in 1 .. n + 1 <=> k \in 1 .. n \/ k = n + 1
    BY <1>1
  <2>5. \A k : k \in L <=> k \in K \/ (k = n + 1 /\ word = ip)
    BY <1>1, <2>1, <2>2, <2>3, <2>4
  <2> QED
    BY <2>5
<1>3. Times(ip, lines) = Cardinality(K) /\ Times(ip, Append(lines, word)) = Cardinality(L)
  BY DEF Times
<1> HIDE DEF n, K, L
<1>4. IsFiniteSet(1 .. n)
  BY <1>1, FS_Interval
<1>5. IsFiniteSet(K) /\ Cardinality(K) \in Nat
  BY <1>1, <1>4, FS_Subset, FS_CardinalityType
<1>6. Cardinality(K \cup {n + 1}) = Cardinality(K) + 1
  BY <1>1, <1>5, FS_AddElement
<1> QED
  BY <1>2, <1>3, <1>5, <1>6

\* A report of step 2 enters the sets that the output mirrors, unless the
\* server was dropped.
LEMMA AcceptedGrows ==
  ASSUME Typed, Recorded, NEW i, i \notin DOMAIN reports[2], NEW n, NEW ip,
         UNCHANGED <<opts, conf>>, reports' = [reports EXCEPT ![2] = Put(@, i, n)]
  PROVE  /\ ValidServers(2) \in Nat /\ Cardinality(Accepted(ip)) \in Nat
         /\ ValidServers(2)' =
              IF Dropped(2, n) THEN ValidServers(2) ELSE ValidServers(2) + 1
         /\ Cardinality(Accepted(ip)') =
              IF Dropped(2, n) \/ conf.list[i] # ip THEN Cardinality(Accepted(ip))
              ELSE Cardinality(Accepted(ip)) + 1
<1> DEFINE D == DOMAIN reports[2]
           V == {j \in D : ~Dropped(2, reports[2][j])}
           A == Accepted(ip)
<1>1. /\ IsFiniteSet(V) /\ Cardinality(V) \in Nat
      /\ IsFiniteSet(A) /\ Cardinality(A) \in Nat
  BY ReportsFinite DEF Accepted
<1>2. /\ DOMAIN reports'[2] = D \cup {i}
      /\ \A j \in D : reports'[2][j] = reports[2][j]
      /\ reports'[2][i] = n
  BY DEF Put, Recorded
<1>3. \A m : Dropped(2, m)' <=> Dropped(2, m)
  BY DEF Dropped, PerSrvMaxFailures
<1>4. /\ ValidServers(2) = Cardinality(V)
      /\ ValidServers(2)' = Cardinality({j \in D \cup {i} : ~Dropped(2, reports'[2][j])})
  BY <1>2, <1>3 DEF ValidServers
<1>5. {j \in D \cup {i} : ~Dropped(2, reports'[2][j])} = IF Dropped(2, n) THEN V ELSE V \cup {i}
  BY <1>2
<1>6. A' = IF Dropped(2, n) \/ conf.list[i] # ip THEN A ELSE A \cup {i}
  BY <1>2, <1>3 DEF Accepted
<1>7. i \notin V /\ i \notin A
  BY DEF Accepted
<1> HIDE DEF V, A
<1>8. Cardinality(V \cup {i}) = Cardinality(V) + 1 /\ Cardinality(A \cup {i}) = Cardinality(A) + 1
  BY <1>1, <1>7, FS_AddElement
<1>9. Cardinality(A') = IF Dropped(2, n) \/ conf.list[i] # ip THEN Cardinality(A)
                        ELSE Cardinality(A) + 1
  BY <1>6, <1>8
<1>10. ValidServers(2)' = IF Dropped(2, n) THEN ValidServers(2) ELSE ValidServers(2) + 1
  BY <1>4, <1>5, <1>8
<1> QED
  BY <1>1, <1>4, <1>9, <1>10 DEF A

\* Before it is opened there is no output, and every file is as it was.
LEMMA WrittenInit == Init => Written
  BY DEF Init, Nothing, Written, OutputExact, AfterOutput, Steps

\* Nothing that the output depends on changes.
LEMMA WrittenKept ==
  ASSUME Typed, Recorded, Written, UNCHANGED <<opts, files, conf>>,
         reports'[2] = reports[2], pc' \in AfterOutput => pc \in AfterOutput
  PROVE  Written'
<1>1. /\ ValidServers(2)' = ValidServers(2)
      /\ \A ip : /\ Accepted(ip)' = Accepted(ip)
                 /\ Times(ip, files[conf.output])' = Times(ip, files[conf.output])
  BY DEF ValidServers, Accepted, Times, Dropped, PerSrvMaxFailures
<1> QED
  BY <1>1 DEF Written, OutputExact

\* The output starts empty.
LEMMA WrittenOpened ==
  ASSUME Typed, Given, Recorded, pc = "output", pc' = "limits", UNCHANGED <<opts, reports>>,
         NEW path, Opened(path)
  PROVE  Written'
<1>1. files = opts.files /\ DOMAIN reports[2] = {}
  BY DEF Given, Recorded, BeforeOutput, AfterTemplate, AfterTrusted, AfterTrustedOptions,
         AfterList, AfterListOptions, AfterOutput, Steps
<1>2. conf'.output = path /\ conf'.list = conf.list
  BY DEF Opened, Typed, Confs
<1>3. /\ path \in DOMAIN files' /\ files'[path] = <<>>
      /\ \A p \in DOMAIN files' \ {path} : files'[p] = opts.files[p]
  BY <1>1, InvocationsAssumption DEF Opened, Put, Typed
<1>4. \A ip : Times(ip, files[conf.output])' = 0 /\ Cardinality(Accepted(ip))' = 0
  <2>1. \A ip : {k \in DOMAIN files'[path] : files'[path][k] = ip} = {}
    BY <1>3
  <2>2. \A ip : Accepted(ip)' = {}
    BY <1>1 DEF Accepted
  <2> QED
    BY <1>2, <2>1, <2>2, FS_EmptySet DEF Times
<1>5. Len(files[conf.output])' = 0 /\ ValidServers(2)' = 0
  BY <1>1, <1>2, <1>3, FS_EmptySet DEF ValidServers
<1> QED
  BY <1>2, <1>3, <1>4, <1>5 DEF Written, OutputExact

\* A valid server of the list is appended when it enters the map, and only then.
LEMMA WrittenReport ==
  ASSUME Typed, Recorded, Written, ReportServer
  PROVE  Written'
<1>1. PICK i \in DOMAIN ServerIPs(Step) \ DOMAIN reports[Step], n \in Counts(Step) :
        /\ reports' = [reports EXCEPT ![Step] = Put(@, i, n)]
        /\ files' = IF Dropped(Step, n) \/ Step \notin OutputSteps THEN files
                    ELSE [files EXCEPT ![conf.output] = Append(@, ServerIPs(Step)[i])]
  BY DEF ReportServer
<1>2. UNCHANGED <<opts, pc, conf>> /\ pc \in Steps
  BY DEF ReportServer, Running, Steps
<1>3. CASE pc = "step1"
  <2>1. files' = files /\ reports'[2] = reports[2]
    BY <1>1, <1>3 DEF Step, OutputSteps, Recorded
  <2> QED
    BY <1>2, <2>1, WrittenKept
<1>4. CASE pc = "step2"
  <2> DEFINE out == conf.output
             word == conf.list[i]
  <2>1. /\ Step = 2 /\ ServerIPs(Step) = conf.list /\ i \in DOMAIN conf.list
        /\ i \notin DOMAIN reports[2] /\ reports' = [reports EXCEPT ![2] = Put(@, i, n)]
        /\ files' = IF Dropped(2, n) THEN files
                    ELSE [files EXCEPT ![out] = Append(@, word)]
    BY <1>1, <1>4 DEF Step, ServerIPs, OutputSteps
  <2>2. /\ out \in DOMAIN files /\ files[out] \in Seq(STRING) /\ word \in STRING
    BY <1>2, <2>1 DEF Written, AfterOutput, Typed, Confs
  <2>3. \A ip : /\ ValidServers(2) \in Nat /\ Cardinality(Accepted(ip)) \in Nat
                /\ ValidServers(2)' =
                     IF Dropped(2, n) THEN ValidServers(2) ELSE ValidServers(2) + 1
                /\ Cardinality(Accepted(ip)') =
                     IF Dropped(2, n) \/ word # ip THEN Cardinality(Accepted(ip))
                     ELSE Cardinality(Accepted(ip)) + 1
    BY <1>2, <2>1, AcceptedGrows, ZenonT(40)
  <2>4. \A ip : /\ Times(ip, files[out]) \in Nat
                /\ Times(ip, Append(files[out], word)) =
                     IF word = ip THEN Times(ip, files[out]) + 1 ELSE Times(ip, files[out])
    BY <2>2, TimesAppend
  <2>5. Len(files[out]) \in Nat /\ Len(Append(files[out], word)) = Len(files[out]) + 1
    BY <2>2, AppendProperties
  <2>6. /\ DOMAIN files' = DOMAIN files
        /\ files'[out] = IF Dropped(2, n) THEN files[out] ELSE Append(files[out], word)
        /\ \A path \in DOMAIN files \ {out} : files'[path] = files[path]
    BY <2>1, <2>2
  <2>7. (conf.output # "none" =>
           \A ip \in ToSet(conf.list) : Times(ip, files[out]) = Cardinality(Accepted(ip)))'
    <3> SUFFICES ASSUME conf.output # "none", NEW ip \in ToSet(conf.list)
                 PROVE  Times(ip, files'[out]) = Cardinality(Accepted(ip)')
      BY <1>2 DEF Times
    <3>1. Times(ip, files[out]) = Cardinality(Accepted(ip))
      BY DEF Written, OutputExact
    <3> QED
      BY <2>3, <2>4, <2>6, <3>1
  <2>8. (conf.output # "none" => Len(files[out]) = ValidServers(2))'
    BY <1>2, <2>3, <2>5, <2>6 DEF Written, OutputExact
  <2>9. (\A path \in DOMAIN files \ {out} : files[path] = opts.files[path])'
    BY <1>2, <2>6 DEF Written, OutputExact
  <2> QED
    BY <1>2, <2>2, <2>6, <2>7, <2>8, <2>9 DEF Written, OutputExact
<1> QED
  BY <1>2, <1>3, <1>4 DEF Steps

\* Every step keeps the output what it should be.
LEMMA WrittenNext ==
  ASSUME Typed, Given, Recorded, Written, [Next]_vars
  PROVE  Written'
<1> USE DEF AfterOutput, Steps
<1>1. CASE InitStep
  <2>1. CASE Exits
    BY <2>1, WrittenKept DEF Exits, Exit
  <2>2. CASE ~Exits /\ pc # "output"
    <3>1. /\ pc \in BeforeOutput \cup {"limits"} /\ UNCHANGED <<opts, files, reports>>
          /\ pc = "limits" => UNCHANGED conf
          /\ pc # "limits" => pc' \notin AfterOutput
      BY <1>1, <2>2, InitOutcome
         DEF Checks, ReadField, BeforeOutput, AfterTemplate, AfterTrusted,
             AfterTrustedOptions, AfterList, AfterListOptions
    <3>2. CASE pc = "limits"
      BY <3>1, <3>2, WrittenKept
    <3>3. CASE pc # "limits"
      <4>1. files = opts.files /\ conf.output = "none"
        BY <3>1, <3>3 DEF Given
      <4>2. conf'.output = "none"
        BY <1>1, <2>2, <4>1, InitOutcome DEF Checks, ReadField, Typed, Confs
      <4> QED
        BY <3>1, <3>3, <4>1, <4>2 DEF Written, OutputExact
    <3> QED
      BY <3>2, <3>3
  <2>3. CASE ~Exits /\ pc = "output"
    <3>1. \E path : pc' = "limits" /\ Opened(path) /\ UNCHANGED <<opts, reports>>
      BY <1>1, <2>3, InitOutcome DEF Checks
    <3> QED
      BY <2>3, <3>1, WrittenOpened
  <2> QED
    BY <2>1, <2>2, <2>3
<1>2. CASE StartEngine
  BY <1>2, WrittenKept DEF StartEngine, Exit
<1>3. CASE ReportServer
  BY <1>3, WrittenReport
<1>4. CASE FinishStep
  BY <1>4, WrittenKept DEF FinishStep, Exit, Running
<1>5. CASE UNCHANGED vars
  BY <1>5, WrittenKept DEF vars
<1> QED
  BY <1>1, <1>2, <1>3, <1>4, <1>5 DEF Next, ProgramStep, Idle

\* The output holds the valid servers of the list, each as often as it is
\* listed, and nothing else; no other file is written.
THEOREM OutputIsExact == Spec => []OutputExact
<1>1. Written => OutputExact
  BY DEF Written
<1> QED
  BY <1>1, TypedInit, TypedNext, GivenInit, GivenNext, RecordedInit, RecordedNext,
     WrittenInit, WrittenNext, PTL DEF Spec
=============================================================================
