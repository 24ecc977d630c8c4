------------------------------ MODULE FireSim ------------------------------
(***************************************************************************)
(* The program from one start to the next (main), with the files that      *)
(* outlive it: script_resolved.txt between ScriptResolver.resolve and the  *)
(* shell, statistics.txt between the click script and                      *)
(* Statistics.getUserReport, and the output folder.  The program may be    *)
(* killed at any step, the shell and Click with it; a shell script may     *)
(* fail, and Click may refuse the click script or die of it.               *)
(***************************************************************************)
EXTENDS Integers, Sequences

CONSTANTS
    Byte,        \* what files are made of
    Config,      \* config folders
    Parts,       \* Parts[c]: what c's filter, nat and mangle tables are read from, in order
    MaxRuns,     \* bound on the runs of Click a start asks for
    MaxStarts,   \* bound on the starts
    MaxFaults,   \* bound on kills, failing scripts and dying Clicks
    None         \* no such file

Verdict == {"ACCEPT", "REJECT", "DROP"}
Part    == [script : BOOLEAN, text : Seq(Byte)]

ASSUME PartsAssumption == Parts \in [Config -> Seq(Part)]
ASSUME BoundsAssumption == MaxRuns \in Nat \ {0} /\ MaxStarts \in Nat /\ MaxFaults \in Nat

File == [click : Nat, faulty : SUBSET Verdict, lines : 0..7]
ASSUME NoneAssumption == None \notin File \cup Nat \cup Seq(Byte)

VARIABLES
    resolved,    \* script_resolved.txt
    statistics,  \* statistics.txt: whose numbers, and how many of its lines
    dumps,       \* dumps[v]: the Click that wrote output/faulty_<v>.dump
    texts,       \* texts[v]: those that added to output/faulty_<v>.txt
    unused,      \* the Click that wrote output/unused_rules.txt
    pc,          \* where the program, or what it waits for, is
    config, numRuns, testRun,
    inputs,      \* the text parseTable has put together, part by part
    written,     \* how much the shell script has written
    round,       \* main's loop
    click,       \* history: the Clicks of all starts are numbered
    first,       \* history: the first of this start
    faulty,      \* the result of the simulation
    told,        \* verdicts the report has been over
    reading,     \* statistics.txt as getUserReport has it open
    starts, faults,
    cut,         \* history: starts that ended with script_resolved.txt in use
    garbled,     \* history: starts whose rules are not those of the folder
    unread,      \* history: starts that ended with their own statistics.txt there
    reread,      \* history: starts that ended over another Click's, and left it there
    stale        \* history: reports of another Click's numbers

output  == <<dumps, texts, unused>>
asked   == <<config, numRuns, testRun>>
parsing == <<resolved, inputs, written>>
running == <<statistics, click, faulty, told, reading, round>>
bounds  == <<starts, faults>>
history == <<cut, garbled, unread, reread, stale>>
vars == <<output, asked, parsing, running, bounds, history, pc, first>>

-----------------------------------------------------------------------------
(* Starting and ending.                                                    *)

\* Mutant: the output folder is left as it is.
Kept == UNCHANGED output
Emptied == dumps' = [v \in Verdict |-> None] /\ texts' = [v \in Verdict |-> {}] /\ unused' = None

\* main up to the ClickGenerator.  A wrong command line or an input file that is missing ends
\* it when the output folder is empty already.
Start(c, n, test) ==
    /\ pc = "off" /\ starts < MaxStarts
    /\ starts' = starts + 1
    /\ Emptied
    /\ pc' \in {"off", "parse"}
    /\ config' = c /\ numRuns' = n /\ testRun' = test
    /\ first' = click + 1
    /\ UNCHANGED <<parsing, running, faults, history>>

InUse      == pc \in {"script", "resolved", "remove"}
Unreported == statistics # None /\ pc \in {"print", "report", "sum"} /\ statistics.click = click
\* getUserReport was reading an earlier Click's file, and has not removed it.
Unfinished == statistics # None /\ pc = "sum" /\ statistics.click # click

\* What the program had in memory is gone.
Forgotten == /\ inputs' = <<>> /\ written' = 0 /\ faulty' = {}
             /\ told' = 0 /\ reading' = None /\ round' = 1
End ==
    /\ pc' = "off" /\ Forgotten
    /\ cut' = IF InUse THEN cut + 1 ELSE cut
    /\ unread' = IF Unreported THEN unread + 1 ELSE unread
    /\ reread' = IF Unfinished THEN reread + 1 ELSE reread
    /\ UNCHANGED <<output, asked, resolved, statistics, click, starts, garbled, stale, first>>

Kill == pc # "off" /\ faults < MaxFaults /\ faults' = faults + 1 /\ End

\* exit(1) of a parser: a table, a rule, the layout or a traffic block it cannot take.
Abort == pc = "parse" /\ UNCHANGED faults /\ End

-----------------------------------------------------------------------------
(* parseTable, for the three tables in turn, and ScriptResolver.resolve.   *)

Parsing == UNCHANGED <<output, asked, running, starts, history, first>>
Next1   == Parts[config][Len(inputs) + 1]

ParseText ==
    /\ pc = "parse" /\ Len(inputs) < Len(Parts[config]) /\ ~Next1.script
    /\ inputs' = Append(inputs, Next1.text)
    /\ UNCHANGED <<pc, resolved, written, faults>> /\ Parsing

\* exec 3<> script_resolved.txt opens the file at its start and leaves what is there.
RunScript ==
    /\ pc = "parse" /\ Len(inputs) < Len(Parts[config]) /\ Next1.script
    /\ pc' = "script"
    /\ resolved' = IF resolved = None THEN <<>> ELSE resolved
    /\ written' = 0
    /\ UNCHANGED <<inputs, faults>> /\ Parsing

Write(file, at, byte) ==
    IF at <= Len(file) THEN [file EXCEPT ![at] = byte] ELSE Append(file, byte)
WriteByte ==
    /\ pc = "script" /\ written < Len(Next1.text)
    /\ written' = written + 1
    /\ resolved' = Write(resolved, written', Next1.text[written'])
    /\ UNCHANGED <<pc, inputs, faults>> /\ Parsing

ScriptFails == pc = "script" /\ faults < MaxFaults /\ faults' = faults + 1 /\ End

ScriptEnds ==
    /\ pc = "script" /\ written = Len(Next1.text)
    /\ pc' = "resolved"
    /\ UNCHANGED <<resolved, inputs, written, faults>> /\ Parsing

ReadResolved ==
    /\ pc = "resolved"
    /\ inputs' = Append(inputs, resolved)
    /\ pc' = "remove"
    /\ UNCHANGED <<resolved, written, faults>> /\ Parsing

\* Mutant: the next script finds the file.
NotRemoved == resolved
Removed == None
RemoveResolved ==
    /\ pc = "remove"
    /\ resolved' = Removed
    /\ pc' = "parse"
    /\ UNCHANGED <<inputs, written, faults>> /\ Parsing

Compiled(c) == [k \in DOMAIN Parts[c] |-> Parts[c][k].text]
\* The click script is written from what was parsed.
Generate ==
    /\ pc = "parse" /\ Len(inputs) = Len(Parts[config])
    /\ garbled' = IF inputs = Compiled(config) THEN garbled ELSE garbled + 1
    /\ round' = 1
    /\ pc' = "round"
    /\ UNCHANGED <<output, asked, parsing, statistics, click, faulty, told, reading, bounds,
                   cut, unread, reread, stale, first>>

-----------------------------------------------------------------------------
(* Click, started by getUserReport.  What it returns is compared with -1   *)
(* only, so whatever it did the report follows.                            *)

Clicking == UNCHANGED <<asked, parsing, starts, history, told, reading, round, first>>

ClickRefuses ==
    /\ pc = "round" /\ round <= numRuns
    /\ click' = click + 1 /\ faulty' = {}
    /\ pc' = "report"
    /\ UNCHANGED <<output, statistics, faults>> /\ Clicking

\* Every ToDump makes its file.
ClickStarts ==
    /\ pc = "round" /\ round <= numRuns
    /\ click' = click + 1 /\ faulty' = {}
    /\ dumps' = [v \in Verdict |-> click']
    /\ pc' = "click"
    /\ UNCHANGED <<texts, unused, statistics, faults>> /\ Clicking

\* Mutant: InfoPrinter is given the names in test runs too.
NamedAlways == TRUE
Named == ~testRun
\* A packet meets v against its policy: ToDump and InfoPrinter add it to their files.
FaultyPacket(v) ==
    /\ pc = "click" /\ v \notin faulty
    /\ faulty' = faulty \cup {v}
    /\ texts' = IF Named THEN [texts EXCEPT ![v] = @ \cup {click}] ELSE texts
    /\ UNCHANGED <<pc, dumps, unused, statistics, click, faults>> /\ Clicking

\* The DriverManager's last pause.
LastPause ==
    /\ pc = "click"
    /\ pc' = "print"
    /\ UNCHANGED <<output, statistics, click, faulty, faults>> /\ Clicking

\* Mutant: a counter more is printed.
LinesMore == 8
Lines == 7
Printed == IF statistics = None \/ statistics.click # click THEN 0 ELSE statistics.lines

\* print >statistics.txt, then print >>statistics.txt.
PrintLine ==
    /\ pc = "print" /\ Printed < Lines
    /\ statistics' = [click |-> click, faulty |-> faulty, lines |-> Printed + 1]
    /\ UNCHANGED <<output, pc, click, faulty, faults>> /\ Clicking

PrintUnused ==
    /\ pc = "print" /\ Printed = Lines
    /\ unused' = click
    /\ pc' = "report"
    /\ UNCHANGED <<dumps, texts, statistics, click, faulty, faults>> /\ Clicking

ClickDies ==
    /\ pc \in {"click", "print"} /\ faults < MaxFaults
    /\ faults' = faults + 1
    /\ pc' = "report"
    /\ UNCHANGED <<output, statistics, click, faulty>> /\ Clicking

-----------------------------------------------------------------------------
(* The rest of Statistics.getUserReport.                                   *)

Reporting == UNCHANGED <<asked, parsing, click, faulty, bounds, cut, garbled, unread, reread, first, texts>>

OpenStatistics ==
    /\ pc = "report" /\ statistics # None
    /\ reading' = statistics /\ told' = 0
    /\ stale' = IF statistics.click = click THEN stale ELSE stale + 1
    /\ pc' = "sum"
    /\ UNCHANGED <<dumps, unused, statistics, round>> /\ Reporting

\* Mutant: the file is waited for.
NeverMissing == FALSE
Missing == statistics = None
NoStatistics == pc = "report" /\ Missing /\ UNCHANGED faults /\ End

Order == <<"ACCEPT", "REJECT", "DROP">>
Line  == [v \in Verdict |-> CASE v = "ACCEPT" -> 3 [] v = "REJECT" -> 5 [] v = "DROP" -> 7]
\* A line that is not there leaves stringToInt's i as it was: any number.
Positive(v) == IF Line[v] <= reading.lines THEN {v \in reading.faulty} ELSE BOOLEAN
\* Mutant: the file before it is removed.
RemovesBefore(v) == CHOOSE w \in Verdict : (Line[w] + 2) % 6 = Line[v] % 6
Removes(v) == v

ReportFaulty ==
    /\ pc = "sum" /\ told < 3
    /\ told' = told + 1
    /\ \E positive \in Positive(Order[told']) :
           dumps' = IF positive THEN dumps ELSE [dumps EXCEPT ![Removes(Order[told'])] = None]
    /\ UNCHANGED <<pc, unused, statistics, reading, round, stale>> /\ Reporting

\* Mutant: it is left for the next report.
StatisticsLeft == statistics
StatisticsRemoved == None
RemoveStatistics ==
    /\ pc = "sum" /\ told = 3
    /\ statistics' = StatisticsRemoved
    /\ pc' = "unused"
    /\ UNCHANGED <<dumps, unused, told, reading, round, stale>> /\ Reporting

\* An empty unused_rules.txt is removed.
CheckUnused ==
    /\ pc = "unused"
    /\ unused' \in {unused, None}
    /\ round' = round + 1
    /\ pc' = "round"
    /\ UNCHANGED <<dumps, statistics, told, reading, stale>> /\ Reporting

Finish == pc = "round" /\ round > numRuns /\ UNCHANGED faults /\ End

-----------------------------------------------------------------------------
Init ==
    /\ resolved = None /\ statistics = None
    /\ dumps = [v \in Verdict |-> None] /\ texts = [v \in Verdict |-> {}] /\ unused = None
    /\ pc = "off"
    /\ config \in Config /\ numRuns = 1 /\ testRun = FALSE
    /\ inputs = <<>> /\ written = 0
    /\ round = 1 /\ click = 0 /\ first = 1 /\ faulty = {} /\ told = 0 /\ reading = None
    /\ starts = 0 /\ faults = 0
    /\ cut = 0 /\ garbled = 0 /\ unread = 0 /\ reread = 0 /\ stale = 0

Parse  == ParseText \/ RunScript \/ WriteByte \/ ScriptEnds \/ ReadResolved \/ RemoveResolved \/ Generate
Click  == ClickStarts \/ (\E v \in Verdict : FaultyPacket(v)) \/ LastPause \/ PrintLine \/ PrintUnused
Report == OpenStatistics \/ NoStatistics \/ ReportFaulty \/ RemoveStatistics \/ CheckUnused \/ Finish

\* main runs Click once unless -t asks for another number.
Next ==
    \/ \E c \in Config, n \in 0..MaxRuns, test \in BOOLEAN : (~test => n = 1) /\ Start(c, n, test)
    \/ Parse \/ Click \/ Report
    \/ Kill \/ Abort \/ ScriptFails \/ ClickRefuses \/ ClickDies

\* A script ends, and so does a simulation (Report): the program goes on.
Fairness == WF_vars(Parse \/ Click \/ Report)
Spec == Init /\ [][Next]_vars /\ Fairness

-----------------------------------------------------------------------------
(* Properties.                                                             *)

Clicks == {None} \cup 1..click

(* The variables keep their types; statistics.txt never has more than the  *)
(* seven lines getUserReport reads, whatever was left of it before.        *)
TypeOK ==
    /\ resolved \in {None} \cup Seq(Byte) /\ statistics \in {None} \cup File
    /\ dumps \in [Verdict -> Clicks] /\ texts \in [Verdict -> SUBSET (1..click)] /\ unused \in Clicks
    /\ pc \in {"off", "parse", "script", "resolved", "remove", "round", "click", "print",
               "report", "sum", "unused"}
    /\ config \in Config /\ numRuns \in 0..MaxRuns /\ testRun \in BOOLEAN
    /\ inputs \in Seq(Seq(Byte)) /\ Len(inputs) <= Len(Parts[config]) /\ written \in Nat
    /\ round \in 1..(MaxRuns + 1) /\ click \in Nat /\ first \in Nat \ {0} /\ faulty \in SUBSET Verdict
    /\ told \in 0..3 /\ reading \in {None} \cup File
    /\ starts \in 0..MaxStarts /\ faults \in 0..MaxFaults
    /\ cut \in Nat /\ garbled \in Nat /\ unread \in Nat /\ reread \in Nat /\ stale \in Nat

(* The rules simulated are those of the folder, except once for every start *)
(* that ended between the shell's opening of script_resolved.txt and its   *)
(* removal: what is left of it is read behind the next script's output, by *)
(* one start and of whatever folder, and is gone then.                     *)
GarbledOnce == garbled <= cut

(* A report gives the numbers of the Click it started, except once for     *)
(* every start that ended with its own statistics.txt on disk, which a     *)
(* Click that prints nothing leaves to getUserReport, and once more for    *)
(* every start that ended over such a file of another: it read the file    *)
(* and did not get to removing it.                                         *)
StaleOnce == stale <= unread + reread

(* The output folder never mixes starts, nor Clicks in a text: the dumps   *)
(* are of Clicks of this start, each faulty_<v>.txt is of one (InfoPrinter *)
(* appends to it, and -t would run it several times), and so is the list   *)
(* of unused rules.                                                        *)
OutputOfThisStart ==
    /\ \A v \in Verdict : dumps[v] # None => dumps[v] >= first
    /\ unused # None => unused >= first
    /\ \A v \in Verdict : \A a, b \in texts[v] : a = b /\ a >= first

(* When a report is of its own Click, it leaves the dumps whose lines were *)
(* printed exactly where packets met that verdict against their policy,    *)
(* also if Click died before the other lines.                              *)
EvidenceKept ==
    pc \in {"sum", "unused"} /\ reading.click = click =>
        \A n \in 1..told : Line[Order[n]] <= reading.lines =>
            dumps[Order[n]] = IF Order[n] \in faulty THEN click ELSE None

(* Every start ends, with a report or without.                             *)
Ends == pc # "off" ~> pc = "off"

(* What ScriptResolver.h says of resolve: "Run the script and return the   *)
(* output".                                                                *)
ReturnsOutput == pc = "remove" => inputs[Len(inputs)] = Parts[config][Len(inputs)].text
=============================================================================
