--------------------------- MODULE FireSimProofs ---------------------------
(* Proofs about the program over its starts: the types, what a start can   *)
(* leave to the next, and what the output folder holds.                    *)
EXTENDS FireSim, TLAPS

\* A step that ends the program, whatever for.
Ending == End /\ faults' \in 0..MaxFaults /\ pc # "off"

LEMMA Endings ==
    ASSUME TypeOK, Kill \/ Abort \/ ScriptFails \/ NoStatistics \/ Finish
    PROVE  Ending
BY BoundsAssumption DEF TypeOK, Kill, Abort, ScriptFails, NoStatistics, Finish, Ending

\* Where each step is, and what holds there.
Where ==
    /\ pc \in {"script", "resolved"} => resolved # None /\ Len(inputs) < Len(Parts[config])
    /\ pc \in {"script", "resolved"} => written <= Len(Next1.text)
    /\ pc = "script" => written <= Len(resolved)
    /\ pc = "remove" => Len(inputs) > 0
    /\ pc \in {"click", "print", "report", "sum", "unused"} => round <= numRuns
    /\ pc = "off" => inputs = <<>> /\ round = 1
    /\ pc = "round" => round <= numRuns + 1
    /\ pc \in {"click", "print"} => click > 0
    /\ pc \in {"sum", "unused"} => reading # None
    /\ ~testRun => numRuns = 1 \/ pc = "off"

LEMMA PartsCounted ==
    ASSUME NEW c \in Config PROVE Parts[c] \in Seq(Part) /\ Len(Parts[c]) \in Nat
<1>1. Parts[c] \in Seq(Part) BY PartsAssumption
<1> QED BY <1>1

LEMMA PartOf ==
    ASSUME TypeOK, Len(inputs) < Len(Parts[config])
    PROVE  Next1 \in Part
BY PartsAssumption DEF TypeOK, Next1

LEMMA Writes ==
    ASSUME NEW file \in Seq(Byte), NEW at \in 1..(Len(file) + 1), NEW byte \in Byte
    PROVE  Write(file, at, byte) \in Seq(Byte) /\ at <= Len(Write(file, at, byte))
BY DEF Write

LEMMA TypedInit == Init => TypeOK /\ Where
<1> SUFFICES ASSUME Init PROVE TypeOK /\ Where OBVIOUS
<1>1. Len(inputs) <= Len(Parts[config]) BY PartsCounted DEF Init
<1>2. TypeOK
  <2>1. dumps \in [Verdict -> Clicks] /\ texts \in [Verdict -> SUBSET (1..click)] /\ unused \in Clicks
    BY DEF Init, Clicks
  <2>2. inputs \in Seq(Seq(Byte)) BY DEF Init
  <2>3. /\ numRuns \in 0..MaxRuns
        /\ round \in 1..(MaxRuns + 1) /\ starts \in 0..MaxStarts /\ faults \in 0..MaxFaults
    BY BoundsAssumption DEF Init
  <2>4. testRun \in BOOLEAN BY DEF Init
  <2>5. /\ resolved \in {None} \cup Seq(Byte) /\ statistics \in {None} \cup File
        /\ click \in Nat /\ first \in Nat \ {0} /\ faulty \in SUBSET Verdict
        /\ told \in 0..3 /\ reading \in {None} \cup File /\ written \in Nat
        /\ cut \in Nat /\ garbled \in Nat /\ unread \in Nat /\ reread \in Nat /\ stale \in Nat
    BY DEF Init
  <2>6. config \in Config /\ pc = "off" BY DEF Init
  <2> QED BY <1>1, <2>1, <2>2, <2>3, <2>4, <2>5, <2>6 DEF TypeOK
<1>3. Where BY DEF Init, Where
<1> QED BY <1>2, <1>3

\* The steps of the parsers, which leave Click's side alone.
ParseStep == ParseText \/ RunScript \/ WriteByte \/ ScriptEnds \/ ReadResolved \/ RemoveResolved
LEMMA TypedParse ==
    ASSUME TypeOK, Where, ParseStep
    PROVE  TypeOK' /\ Where'
<1>1. CASE ParseText
  <2>1. Next1.text \in Seq(Byte) BY <1>1, PartOf DEF ParseText, Part
  <2>2. inputs' \in Seq(Seq(Byte)) /\ Len(inputs') = Len(inputs) + 1
    BY <1>1, <2>1 DEF ParseText, TypeOK
  <2>3. TypeOK' BY <1>1, <2>2 DEF ParseText, Parsing, TypeOK, Clicks, output, asked, running, history
  <2>4. Where' BY <1>1, <2>2 DEF ParseText, Parsing, Where, output, asked, running, history
  <2> QED BY <2>3, <2>4
<1>2. CASE RunScript
  <2>1. Next1.text \in Seq(Byte) BY <1>2, PartOf DEF RunScript, Part
  <2>2. Next1' = Next1 BY <1>2 DEF RunScript, Parsing, asked, Next1
  <2>a. <<>> \in Seq(Byte) OBVIOUS
  <2>3. resolved' # None /\ resolved' \in Seq(Byte) BY <1>2, <2>a, NoneAssumption DEF RunScript, TypeOK
  <2>4. TypeOK' BY <1>2, <2>3 DEF RunScript, Parsing, TypeOK, Clicks, output, asked, running, history
  <2>5. Where' BY <1>2, <2>1, <2>2, <2>3 DEF RunScript, Parsing, Where, output, asked, running, history
  <2> QED BY <2>4, <2>5
<1>3. CASE WriteByte
  <2>1. Next1.text \in Seq(Byte) BY <1>3, PartOf DEF WriteByte, Where, Part
  <2>2. Next1' = Next1 BY <1>3 DEF WriteByte, Parsing, asked, Next1
  <2>3. written' \in 1..Len(Next1.text) BY <1>3, <2>1 DEF WriteByte, TypeOK
  <2>4. Next1.text[written'] \in Byte BY <2>1, <2>3
  <2>5. resolved \in Seq(Byte) /\ written' \in 1..(Len(resolved) + 1)
    BY <1>3 DEF WriteByte, Where, TypeOK
  <2>6. resolved' \in Seq(Byte) /\ written' <= Len(resolved')
    BY <1>3, <2>4, <2>5, Writes DEF WriteByte
  <2>7. resolved' # None BY <2>6, NoneAssumption
  <2>8. TypeOK' BY <1>3, <2>3, <2>6 DEF WriteByte, Parsing, TypeOK, Clicks, output, asked, running, history
  <2>9. Where' BY <1>3, <2>1, <2>2, <2>3, <2>6, <2>7 DEF WriteByte, Parsing, Where, output, asked, running, history
  <2> QED BY <2>8, <2>9
<1>4. CASE ScriptEnds
  <2>1. Next1' = Next1 BY <1>4 DEF ScriptEnds, Parsing, asked, Next1
  <2>2. TypeOK' BY <1>4 DEF ScriptEnds, Parsing, TypeOK, Clicks, output, asked, running, history
  <2>3. Where' BY <1>4, <2>1 DEF ScriptEnds, Parsing, Where, output, asked, running, history
  <2> QED BY <2>2, <2>3
<1>5. CASE ReadResolved
  <2>1. resolved \in Seq(Byte) /\ Len(inputs) < Len(Parts[config])
    BY <1>5 DEF ReadResolved, Where, TypeOK
  <2>2. inputs' \in Seq(Seq(Byte)) /\ Len(inputs') = Len(inputs) + 1
    BY <1>5, <2>1 DEF ReadResolved, TypeOK
  <2>3. TypeOK' BY <1>5, <2>1, <2>2 DEF ReadResolved, Parsing, TypeOK, Clicks, output, asked, running, history
  <2>4. Where' BY <1>5, <2>2 DEF ReadResolved, Parsing, TypeOK, Where, output, asked, running, history
  <2> QED BY <2>3, <2>4
<1>6. CASE RemoveResolved
  <2>1. TypeOK' BY <1>6 DEF RemoveResolved, Removed, Parsing, TypeOK, Clicks, output, asked, running, history
  <2>2. Where' BY <1>6 DEF RemoveResolved, Parsing, Where, output, asked, running, history
  <2> QED BY <2>1, <2>2
<1> QED BY <1>1, <1>2, <1>3, <1>4, <1>5, <1>6 DEF ParseStep

\* The steps of Click.
LEMMA TypedClick ==
    ASSUME TypeOK, Where, Generate \/ Click \/ ClickRefuses \/ ClickDies
    PROVE  TypeOK' /\ Where'
<1> USE DEF TypeOK, Where, Clicks, Clicking, output, asked, parsing, running, bounds, history
<1>1. CASE Generate BY <1>1, BoundsAssumption DEF Generate
<1>2. CASE ClickRefuses BY <1>2 DEF ClickRefuses
<1>3. CASE ClickStarts BY <1>3 DEF ClickStarts
<1>4. ASSUME NEW v \in Verdict, FaultyPacket(v) PROVE TypeOK' /\ Where'
  <2>1. texts' \in [Verdict -> SUBSET (1..click')]
    <3>1. click \in 1..click BY <1>4 DEF FaultyPacket
    <3> QED BY <1>4, <3>1 DEF FaultyPacket
  <2> QED BY <1>4, <2>1 DEF FaultyPacket
<1>5. CASE LastPause BY <1>5 DEF LastPause
<1>6. CASE PrintLine BY <1>6 DEF PrintLine, Printed, Lines, File
<1>7. CASE PrintUnused BY <1>7 DEF PrintUnused
<1>8. CASE ClickDies BY <1>8, BoundsAssumption DEF ClickDies
<1> QED BY <1>1, <1>2, <1>3, <1>4, <1>5, <1>6, <1>7, <1>8 DEF Click

\* Those of the report, the start and the ends.
ReportStep == OpenStatistics \/ ReportFaulty \/ RemoveStatistics \/ CheckUnused
LEMMA TypedReport ==
    ASSUME TypeOK, Where, ReportStep
    PROVE  TypeOK' /\ Where'
<1> USE DEF TypeOK, Where, Clicks, Reporting, output, asked, parsing, running, bounds, history
<1>1. CASE OpenStatistics BY <1>1 DEF OpenStatistics
<1>2. CASE ReportFaulty
  <2>1. dumps' \in [Verdict -> Clicks'] BY <1>2 DEF ReportFaulty, Removes
  <2> QED BY <1>2, <2>1 DEF ReportFaulty
<1>3. CASE RemoveStatistics BY <1>3 DEF RemoveStatistics, StatisticsRemoved
<1>4. CASE CheckUnused BY <1>4, BoundsAssumption DEF CheckUnused
<1> QED BY <1>1, <1>2, <1>3, <1>4 DEF ReportStep

LEMMA TypedStart ==
    ASSUME TypeOK, Where, NEW c \in Config, NEW n \in 0..MaxRuns, NEW test \in BOOLEAN,
           ~test => n = 1, Start(c, n, test)
    PROVE  TypeOK' /\ Where'
<1> USE DEF TypeOK, Where, Clicks, Start, Emptied, output, asked, parsing, running, bounds, history
<1>1. Len(inputs') <= Len(Parts[config']) BY PartsCounted
<1>2. dumps' \in [Verdict -> Clicks'] /\ texts' \in [Verdict -> SUBSET (1..click')] /\ unused' \in Clicks'
  OBVIOUS
<1>3. starts' \in 0..MaxStarts BY BoundsAssumption
<1>4. TypeOK' BY <1>1, <1>2, <1>3
<1>5. Where' BY <1>2
<1> QED BY <1>4, <1>5

LEMMA TypedEnd ==
    ASSUME TypeOK, Where, Ending
    PROVE  TypeOK' /\ Where'
BY PartsCounted, BoundsAssumption
   DEF TypeOK, Where, Clicks, Ending, End, Forgotten, output, asked, parsing, running, bounds, history


ClickStep == Click \/ ClickRefuses \/ ClickDies
LEMMA Cases ==
    ASSUME TypeOK, Next
    PROVE  \/ \E c \in Config, n \in 0..MaxRuns, test \in BOOLEAN :
                  (~test => n = 1) /\ Start(c, n, test)
           \/ ParseStep \/ Generate \/ ClickStep \/ ReportStep \/ Ending
BY Endings DEF Next, Parse, Report, ParseStep, ReportStep, ClickStep

LEMMA Stutter ==
    ASSUME UNCHANGED vars
    PROVE  /\ UNCHANGED <<output, asked, parsing, running, bounds, history, pc, first>>
           /\ TypeOK => TypeOK'
           /\ Where => Where'
BY DEF vars, TypeOK, Where, Clicks, Next1, output, asked, parsing, running, bounds, history

LEMMA TypedStep == TypeOK /\ Where /\ [Next]_vars => TypeOK' /\ Where'
<1> SUFFICES ASSUME TypeOK, Where, [Next]_vars PROVE TypeOK' /\ Where' OBVIOUS
<1>1. CASE Next BY <1>1, Cases, TypedStart, TypedParse, TypedClick, TypedReport, TypedEnd DEF ClickStep
<1>2. CASE UNCHANGED vars BY <1>2, Stutter
<1> QED BY <1>1, <1>2

\* The variables keep their types through every start, kill and failure: a shell script
\* writes within its file and statistics.txt has at most the lines getUserReport reads.
THEOREM Typed == Spec => []TypeOK
<1>1. Spec => [](TypeOK /\ Where) BY TypedInit, TypedStep, PTL DEF Spec
<1> QED BY <1>1, PTL

-----------------------------------------------------------------------------
(* Reports.  A statistics.txt that is not the current Click's is there for *)
(* a start that left it: its own, or one it had begun to read.             *)

Waits == /\ statistics # None
         /\ pc # "sum" /\ ~(pc \in {"print", "report"} /\ statistics.click = click)
Counted ==
    /\ statistics # None => statistics.click <= click
    /\ statistics # None /\ pc = "click" => statistics.click < click
    /\ stale + (IF Waits THEN 1 ELSE 0) <= unread + reread

LEMMA CountedStart ==
    ASSUME TypeOK, Counted, NEW c, NEW n, NEW test, Start(c, n, test)
    PROVE  Counted'
BY DEF Counted, Waits, Start, running, history, parsing

LEMMA CountedParse ==
    ASSUME TypeOK, Counted, ParseStep \/ Generate
    PROVE  Counted'
BY DEF Counted, Waits, ParseStep, ParseText, RunScript, WriteByte, ScriptEnds, ReadResolved,
       RemoveResolved, Generate, Parsing, running, history

LEMMA CountedClick ==
    ASSUME TypeOK, Counted, ClickStep
    PROVE  Counted'
<1> USE DEF Counted, Waits, TypeOK, Clicking, history
<1>1. CASE ClickRefuses BY <1>1, NoneAssumption DEF ClickRefuses, File
<1>2. CASE ClickStarts BY <1>2, NoneAssumption DEF ClickStarts, File
<1>3. ASSUME NEW v \in Verdict, FaultyPacket(v) PROVE Counted' BY <1>3 DEF FaultyPacket
<1>4. CASE LastPause BY <1>4 DEF LastPause
<1>5. CASE PrintLine
  <2>1. statistics' \in File /\ statistics'.click = click
    BY <1>5 DEF PrintLine, File, Printed, Lines
  <2> QED BY <1>5, <2>1, NoneAssumption DEF PrintLine
<1>6. CASE PrintUnused BY <1>6 DEF PrintUnused
<1>7. CASE ClickDies BY <1>7, NoneAssumption DEF ClickDies, File
<1> QED BY <1>1, <1>2, <1>3, <1>4, <1>5, <1>6, <1>7 DEF ClickStep, Click

LEMMA CountedReport ==
    ASSUME TypeOK, Counted, ReportStep
    PROVE  Counted'
<1> USE DEF Counted, Waits, TypeOK, Reporting, bounds
<1>1. CASE OpenStatistics BY <1>1 DEF OpenStatistics
<1>2. CASE ReportFaulty BY <1>2 DEF ReportFaulty
<1>3. CASE RemoveStatistics BY <1>3 DEF RemoveStatistics, StatisticsRemoved
<1>4. CASE CheckUnused BY <1>4 DEF CheckUnused
<1> QED BY <1>1, <1>2, <1>3, <1>4 DEF ReportStep

LEMMA CountedEnd ==
    ASSUME TypeOK, Counted, Ending
    PROVE  Counted'
BY DEF Counted, Waits, TypeOK, Ending, End, Unreported, Unfinished

LEMMA CountedStep == TypeOK /\ Counted /\ [Next]_vars => Counted'
<1> SUFFICES ASSUME TypeOK, Counted, [Next]_vars PROVE Counted' OBVIOUS
<1>1. CASE Next
  BY <1>1, Cases, CountedStart, CountedParse, CountedClick, CountedReport, CountedEnd
<1>2. CASE UNCHANGED vars BY <1>2, Stutter DEF Counted, Waits, running, history
<1> QED BY <1>1, <1>2

\* However often the program is killed and Click fails, a report of another Click's numbers
\* costs a start of its own: one that ended with its own statistics.txt still there, or one
\* that ended while it read another's.
THEOREM ReportsOwn == Spec => []StaleOnce
<1>1. Init => Counted BY DEF Init, Counted, Waits
<1>2. TypeOK /\ Counted => StaleOnce BY DEF TypeOK, Counted, StaleOnce
<1> QED BY <1>1, <1>2, CountedStep, Typed, PTL DEF Spec

-----------------------------------------------------------------------------
(* Rules.  A file that is more than what its script has written, or a text *)
(* that is not the part's, is there for a start that left the file.        *)

AsWritten == Len(resolved) = written /\ \A k \in 1..written : resolved[k] = Next1.text[k]
Leftover  == resolved # None /\ pc # "remove" /\ ~(pc \in {"script", "resolved"} /\ AsWritten)
Misread   == /\ pc \in {"parse", "script", "resolved", "remove"}
             /\ \E k \in 1..Len(inputs) : inputs[k] # Parts[config][k].text
Owed ==
    /\ pc = "resolved" => written = Len(Next1.text)
    /\ garbled + (IF Leftover THEN 1 ELSE 0) + (IF Misread THEN 1 ELSE 0) <= cut

LEMMA OwedStart ==
    ASSUME TypeOK, Where, Owed, NEW c \in Config, NEW n, NEW test, Start(c, n, test)
    PROVE  Owed'
<1> USE DEF Start, Where, parsing, running, history
<1>1. inputs' = <<>> OBVIOUS
<1>2. ~Misread' BY <1>1 DEF Misread
<1>3. Leftover' => Leftover BY DEF Leftover
<1> QED BY <1>2, <1>3 DEF Owed, TypeOK

LEMMA OwedParse ==
    ASSUME TypeOK, Where, Owed, ParseStep
    PROVE  Owed'
<1> USE DEF TypeOK, Parsing, asked, history
<1>1. CASE ParseText
  <2>1. Misread' => Misread BY <1>1 DEF ParseText, Misread, Next1
  <2>2. Leftover' => Leftover BY <1>1 DEF ParseText, Leftover
  <2> QED BY <1>1, <2>1, <2>2 DEF ParseText, Owed
<1>2. CASE RunScript
  <2>1. Misread' => Misread BY <1>2 DEF RunScript, Misread
  <2>2. Leftover' => Leftover BY <1>2 DEF RunScript, Leftover, AsWritten
  <2> QED BY <1>2, <2>1, <2>2 DEF RunScript, Owed
<1>3. CASE WriteByte
  <2>1. Misread' => Misread BY <1>3 DEF WriteByte, Misread
  <2>2. Next1' = Next1 BY <1>3 DEF WriteByte, Next1
  <2>3. resolved \in Seq(Byte) BY <1>3 DEF WriteByte, Where
  <2>4. ASSUME AsWritten PROVE AsWritten'
    <3>1. resolved' = Append(resolved, Next1.text[written']) BY <1>3, <2>3, <2>4 DEF WriteByte, Write, AsWritten
    <3>2. Len(resolved') = written' BY <1>3, <2>3, <2>4, <3>1 DEF WriteByte, AsWritten
    <3>3. ASSUME NEW k \in 1..written' PROVE resolved'[k] = Next1.text[k]
      <4>1. CASE k \in 1..written
        <5>1. k \in 1..Len(resolved) /\ resolved[k] = Next1.text[k] BY <2>4, <4>1 DEF AsWritten
        <5>2. Append(resolved, Next1.text[written'])[k] = resolved[k] BY <2>3, <5>1
        <5> QED BY <3>1, <5>1, <5>2
      <4>2. CASE k = written'
        <5>1. k = Len(resolved) + 1 BY <1>3, <2>4, <4>2 DEF WriteByte, AsWritten
        <5> QED BY <2>3, <3>1, <4>2, <5>1
      <4> QED BY <1>3, <4>1, <4>2 DEF WriteByte
    <3> QED BY <2>2, <3>2, <3>3 DEF AsWritten
  <2>5. Leftover' => Leftover BY <1>3, <2>3, <2>4, NoneAssumption DEF WriteByte, Leftover
  <2> QED BY <1>3, <2>1, <2>5 DEF WriteByte, Owed
<1>4. CASE ScriptEnds
  <2>1. Misread' => Misread BY <1>4 DEF ScriptEnds, Misread
  <2>2. Next1' = Next1 BY <1>4 DEF ScriptEnds, Next1
  <2>3. Leftover' => Leftover BY <1>4, <2>2 DEF ScriptEnds, Leftover, AsWritten
  <2> QED BY <1>4, <2>1, <2>2, <2>3 DEF ScriptEnds, Owed
<1>5. CASE ReadResolved
  <2>1. resolved \in Seq(Byte) /\ resolved # None BY <1>5 DEF ReadResolved, Where
  <2>2. Next1.text \in Seq(Byte) BY <1>5, PartOf DEF ReadResolved, Where, Part
  <2>3. ~Leftover => resolved = Next1.text
    BY <1>5, <2>1, <2>2 DEF ReadResolved, Leftover, AsWritten, Owed
  <2>4. Misread' => Misread \/ Leftover
    <3>1. SUFFICES ASSUME NEW k \in 1..Len(inputs'), inputs'[k] # Parts[config][k].text, ~Leftover
                   PROVE  Misread
      BY <1>5 DEF ReadResolved, Misread
    <3>2. k # Len(inputs) + 1 BY <1>5, <2>1, <2>3, <3>1 DEF ReadResolved, Next1
    <3>3. k \in 1..Len(inputs) /\ inputs[k] # Parts[config][k].text
      BY <1>5, <2>1, <3>1, <3>2 DEF ReadResolved
    <3> QED BY <1>5, <3>3 DEF ReadResolved, Misread
  <2>5. ~Leftover' BY <1>5 DEF ReadResolved, Leftover
  <2> QED BY <1>5, <2>4, <2>5 DEF ReadResolved, Owed
<1>6. CASE RemoveResolved
  <2>1. Misread' => Misread BY <1>6 DEF RemoveResolved, Misread
  <2>2. ~Leftover' BY <1>6 DEF RemoveResolved, Removed, Leftover
  <2> QED BY <1>6, <2>1, <2>2 DEF RemoveResolved, Owed
<1> QED BY <1>1, <1>2, <1>3, <1>4, <1>5, <1>6 DEF ParseStep

LEMMA OwedGenerate ==
    ASSUME TypeOK, Where, Owed, Generate
    PROVE  Owed'
<1> USE DEF Generate, TypeOK, parsing
<1>1. ASSUME inputs # Compiled(config) PROVE Misread
  <2>1. Parts[config] \in Seq(Part) BY PartsCounted
  <2>2. DOMAIN inputs = DOMAIN Compiled(config) BY <2>1 DEF Compiled
  <2>3. PICK k \in 1..Len(inputs) : inputs[k] # Compiled(config)[k]
    <3>1. /\ inputs = [k \in DOMAIN inputs |-> inputs[k]]
          /\ Compiled(config) = [k \in DOMAIN Compiled(config) |-> Compiled(config)[k]]
      BY DEF Compiled
    <3>2. DOMAIN inputs = 1..Len(inputs) OBVIOUS
    <3> QED BY <1>1, <2>2, <3>1, <3>2
  <2> QED BY <2>1, <2>3 DEF Misread, Compiled
<1>2. ~Misread' BY DEF Misread
<1>3. Leftover' => Leftover BY DEF Leftover
<1> QED BY <1>1, <1>2, <1>3 DEF Owed

LEMMA OwedLater ==
    ASSUME TypeOK, Owed, ClickStep \/ ReportStep
    PROVE  Owed'
<1>1. /\ UNCHANGED <<resolved, garbled, cut>>
      /\ pc \notin {"parse", "script", "resolved", "remove"}
      /\ pc' \notin {"parse", "script", "resolved", "remove"}
  BY DEF ClickStep, Click, ClickRefuses, ClickStarts, FaultyPacket, LastPause, PrintLine,
         PrintUnused, ClickDies, ReportStep, OpenStatistics, ReportFaulty, RemoveStatistics,
         CheckUnused, Clicking, Reporting, parsing, history
<1>2. ~Misread' BY <1>1 DEF Misread
<1>3. Leftover' => Leftover BY <1>1 DEF Leftover
<1> QED BY <1>1, <1>2, <1>3 DEF Owed, TypeOK

LEMMA OwedEnd ==
    ASSUME TypeOK, Where, Owed, Ending
    PROVE  Owed'
<1> USE DEF Ending, End, TypeOK
<1>1. ~Misread' BY DEF Misread
<1>2. CASE InUse BY <1>1, <1>2 DEF Owed
<1>3. CASE ~InUse
  <2>1. Leftover' => Leftover BY <1>3 DEF InUse, Leftover
  <2> QED BY <1>1, <1>3, <2>1 DEF Owed
<1> QED BY <1>2, <1>3

LEMMA OwedStep == TypeOK /\ Where /\ Owed /\ [Next]_vars => Owed'
<1> SUFFICES ASSUME TypeOK, Where, Owed, [Next]_vars PROVE Owed' OBVIOUS
<1>1. CASE Next BY <1>1, Cases, OwedStart, OwedParse, OwedGenerate, OwedLater, OwedEnd
<1>2. CASE UNCHANGED vars
  BY <1>2, Stutter DEF Owed, Leftover, Misread, AsWritten, Next1, parsing, asked, history
<1> QED BY <1>1, <1>2

\* Rules that are not the folder's cost a start that ended with script_resolved.txt in use,
\* whatever the folders, their scripts and the order of kills and failures.
THEOREM RulesOwn == Spec => []GarbledOnce
<1>1. Init => Owed BY DEF Init, Owed, Leftover, Misread
<1>2. TypeOK /\ Owed => GarbledOnce BY DEF TypeOK, Owed, GarbledOnce
<1>3. Spec => [](TypeOK /\ Where) BY TypedInit, TypedStep, PTL DEF Spec
<1> QED BY <1>1, <1>2, <1>3, OwedStep, PTL DEF Spec

-----------------------------------------------------------------------------
(* The output folder.  A start without -t runs one Click, its first.       *)

Simulating == {"click", "print", "report", "sum", "unused"}
Numbered ==
    /\ first <= click + 1
    /\ pc \in Simulating => click = first + round - 1
    /\ pc = "round" => click = first + round - 2
    /\ pc \in {"parse", "script", "resolved", "remove"} => click = first - 1
    /\ \A v \in Verdict : texts[v] \subseteq {first} /\ (testRun => texts[v] = {})
    /\ \A v \in Verdict : dumps[v] # None => dumps[v] >= first
    /\ unused # None => unused >= first

LEMMA NumberedStart ==
    ASSUME TypeOK, Numbered, NEW c \in Config, NEW n \in 0..MaxRuns, NEW test \in BOOLEAN,
           Start(c, n, test)
    PROVE  Numbered'
BY DEF Start, Emptied, Numbered, Simulating, TypeOK, running, history

LEMMA NumberedParse ==
    ASSUME TypeOK, Numbered, ParseStep \/ Generate
    PROVE  Numbered'
BY DEF Numbered, Simulating, TypeOK, ParseStep, ParseText, RunScript, WriteByte, ScriptEnds,
       ReadResolved, RemoveResolved, Generate, Parsing, running, output, asked

LEMMA NumberedClick ==
    ASSUME TypeOK, Where, Numbered, ClickStep
    PROVE  Numbered'
<1> USE DEF Numbered, Simulating, TypeOK, Clicking, asked, output
<1>1. CASE ClickRefuses BY <1>1 DEF ClickRefuses
<1>2. CASE ClickStarts BY <1>2 DEF ClickStarts
<1>3. ASSUME NEW v \in Verdict, FaultyPacket(v) PROVE Numbered'
  <2>1. CASE Named
    <3>1. ~testRun /\ numRuns = 1 BY <1>3, <2>1 DEF FaultyPacket, Named, Where
    <3>2. click = first BY <1>3, <3>1 DEF FaultyPacket, Where
    <3>3. \A w \in Verdict : texts'[w] \subseteq {first'} BY <1>3, <2>1, <3>2 DEF FaultyPacket
    <3> QED BY <1>3, <3>1, <3>3 DEF FaultyPacket
  <2>2. CASE ~Named BY <1>3, <2>2 DEF FaultyPacket
  <2> QED BY <2>1, <2>2
<1>4. CASE LastPause BY <1>4 DEF LastPause
<1>5. CASE PrintLine BY <1>5 DEF PrintLine
<1>6. CASE PrintUnused
  <2>1. unused' >= first' BY <1>6 DEF PrintUnused, Where
  <2> QED BY <1>6, <2>1 DEF PrintUnused
<1>7. CASE ClickDies BY <1>7 DEF ClickDies
<1> QED BY <1>1, <1>2, <1>3, <1>4, <1>5, <1>6, <1>7 DEF ClickStep, Click

LEMMA NumberedReport ==
    ASSUME TypeOK, Numbered, ReportStep
    PROVE  Numbered'
<1> USE DEF Numbered, Simulating, TypeOK, Reporting, asked
<1>1. CASE OpenStatistics BY <1>1 DEF OpenStatistics
<1>2. CASE ReportFaulty BY <1>2 DEF ReportFaulty, Removes
<1>3. CASE RemoveStatistics BY <1>3 DEF RemoveStatistics
<1>4. CASE CheckUnused BY <1>4 DEF CheckUnused
<1> QED BY <1>1, <1>2, <1>3, <1>4 DEF ReportStep

LEMMA NumberedEnd ==
    ASSUME TypeOK, Numbered, Ending
    PROVE  Numbered'
BY DEF Numbered, Simulating, TypeOK, Ending, End, Forgotten, output, asked

LEMMA NumberedStep == TypeOK /\ Where /\ Numbered /\ [Next]_vars => Numbered'
<1> SUFFICES ASSUME TypeOK, Where, Numbered, [Next]_vars PROVE Numbered' OBVIOUS
<1>1. CASE Next
  BY <1>1, Cases, NumberedStart, NumberedParse, NumberedClick, NumberedReport, NumberedEnd
<1>2. CASE UNCHANGED vars BY <1>2, Stutter DEF Numbered, Simulating, running, output, asked
<1> QED BY <1>1, <1>2

\* Whatever is in the output folder was made by Clicks of the last start, and each text by one.
THEOREM OutputOwn == Spec => []OutputOfThisStart
<1>1. Init => Numbered BY DEF Init, Numbered, Simulating
<1>2. TypeOK /\ Numbered => OutputOfThisStart BY DEF TypeOK, Numbered, OutputOfThisStart
<1>3. Spec => [](TypeOK /\ Where) BY TypedInit, TypedStep, PTL DEF Spec
<1> QED BY <1>1, <1>2, <1>3, NumberedStep, PTL DEF Spec

-----------------------------------------------------------------------------
(* The dumps.  A file of numbers of the current Click holds its result,    *)
(* and the dumps that were not looked at are all there.                    *)

Own(file) == file # None /\ file.click = click
Ahead(n)  == \A m \in n..3 : dumps[Order[m]] = click
Held ==
    /\ pc \in {"click", "print"} => Ahead(1)
    /\ pc \in {"print", "report"} /\ Own(statistics) => statistics.faulty = faulty /\ Ahead(1)
    /\ pc \in {"sum", "unused"} /\ Own(reading) =>
           reading.faulty = faulty /\ Ahead(told + 1) /\ EvidenceKept

LEMMA Orders ==
    /\ \A n \in 1..3 : Order[n] \in Verdict
    /\ \A m, n \in 1..3 : m # n => Order[m] # Order[n]
BY DEF Order, Verdict

LEMMA HeldElsewhere ==
    ASSUME TypeOK, Held, ParseStep \/ Generate \/ Ending \/ \E c, n, test : Start(c, n, test)
    PROVE  Held'
<1>1. pc' \notin Simulating
  BY DEF Simulating, ParseStep, ParseText, RunScript, WriteByte, ScriptEnds, ReadResolved,
         RemoveResolved, Generate, Ending, End, Start
<1> QED BY <1>1 DEF Held, Simulating

LEMMA HeldClick ==
    ASSUME TypeOK, Counted, Held, ClickStep
    PROVE  Held'
<1> USE DEF Clicking, output
<1>1. CASE ClickRefuses
  <2>1. pc' = "report" /\ ~Own(statistics)' BY <1>1 DEF ClickRefuses, Counted, TypeOK, Own, File
  <2> QED BY <2>1 DEF Held
<1>2. CASE ClickStarts
  <2>1. Ahead(1)' BY <1>2, Orders DEF ClickStarts, Ahead
  <2> QED BY <1>2, <2>1 DEF ClickStarts, Held
<1>3. ASSUME NEW v \in Verdict, FaultyPacket(v) PROVE Held'
  BY <1>3 DEF FaultyPacket, Held, Ahead
<1>4. CASE LastPause
  <2>1. ~Own(statistics)' BY <1>4 DEF LastPause, Counted, TypeOK, Own, File
  <2> QED BY <1>4, <2>1 DEF LastPause, Held, Ahead
<1>5. CASE PrintLine BY <1>5 DEF PrintLine, Held, Ahead
<1>6. CASE PrintUnused BY <1>6 DEF PrintUnused, Held, Ahead, Own
<1>7. CASE ClickDies
  <2>1. CASE pc = "click"
    <3>1. ~Own(statistics)' BY <1>7, <2>1 DEF ClickDies, Counted, TypeOK, Own, File
    <3> QED BY <1>7, <3>1 DEF ClickDies, Held
  <2>2. CASE pc = "print" BY <1>7, <2>2 DEF ClickDies, Held, Ahead, Own
  <2> QED BY <1>7, <2>1, <2>2 DEF ClickDies
<1> QED BY <1>1, <1>2, <1>3, <1>4, <1>5, <1>6, <1>7 DEF ClickStep, Click

LEMMA HeldReport ==
    ASSUME TypeOK, Where, Held, ReportStep
    PROVE  Held'
<1> USE DEF Reporting
<1>1. CASE OpenStatistics
  <2>1. told' = 0 /\ EvidenceKept' BY <1>1 DEF OpenStatistics, EvidenceKept
  <2> QED BY <1>1, <2>1 DEF OpenStatistics, Held, Ahead, Own
<1>2. CASE ReportFaulty
  <2>1. told \in 0..2 /\ told' = told + 1 /\ pc' = "sum" BY <1>2 DEF ReportFaulty, TypeOK
  <2> SUFFICES ASSUME Own(reading)
               PROVE  reading'.faulty = faulty' /\ Ahead(told + 1)' /\ EvidenceKept'
    BY <1>2, <2>1 DEF ReportFaulty, Held, Own
  <2> DEFINE v == Order[told + 1]
  <2>2. PICK positive \in Positive(v) :
            dumps' = IF positive THEN dumps ELSE [dumps EXCEPT ![v] = None]
    BY <1>2, <2>1 DEF ReportFaulty, Removes
  <2>3. reading.faulty = faulty /\ Ahead(told + 1) /\ EvidenceKept BY <1>2 DEF ReportFaulty, Held
  <2>4. \A m \in 1..3 : m # told + 1 => dumps'[Order[m]] = dumps[Order[m]]
    BY <2>1, <2>2, Orders DEF TypeOK
  <2>5. Ahead(told + 1)'
    <3>1. SUFFICES ASSUME NEW m \in (told' + 1)..3 PROVE dumps'[Order[m]] = click'
      BY DEF Ahead
    <3>2. m \in (told + 1)..3 /\ m # told + 1 /\ m \in 1..3 BY <2>1
    <3> QED BY <1>2, <2>3, <2>4, <3>2 DEF Ahead, ReportFaulty
  <2>6. Line[v] <= reading.lines => dumps'[v] = IF v \in faulty THEN click ELSE None
    <3>1. dumps[v] = click /\ v \in Verdict BY <2>1, <2>3, Orders DEF Ahead
    <3>2. Line[v] <= reading.lines => positive = (v \in faulty) BY <2>2, <2>3 DEF Positive
    <3> QED BY <2>2, <3>1, <3>2 DEF TypeOK
  <2>7. EvidenceKept'
    <3>1. SUFFICES ASSUME NEW n \in 1..told', Line[Order[n]] <= reading'.lines
                   PROVE  dumps'[Order[n]] = IF Order[n] \in faulty' THEN click' ELSE None
      BY DEF EvidenceKept
    <3>2. UNCHANGED <<reading, faulty, click>> BY <1>2 DEF ReportFaulty
    <3>3. CASE n = told + 1 BY <2>6, <3>1, <3>2, <3>3
    <3>4. CASE n # told + 1
      <4>1. n \in 1..told /\ n \in 1..3 BY <2>1, <3>4
      <4>2. dumps[Order[n]] = IF Order[n] \in faulty THEN click ELSE None
        BY <1>2, <2>3, <3>1, <3>2, <4>1 DEF EvidenceKept, Own, ReportFaulty
      <4> QED BY <2>4, <3>2, <3>4, <4>1, <4>2
    <3> QED BY <3>3, <3>4
  <2> QED BY <1>2, <2>3, <2>5, <2>7 DEF ReportFaulty
<1>3. CASE RemoveStatistics BY <1>3 DEF RemoveStatistics, Held, Ahead, Own, EvidenceKept
<1>4. CASE CheckUnused BY <1>4 DEF CheckUnused, Held
<1> QED BY <1>1, <1>2, <1>3, <1>4 DEF ReportStep

LEMMA HeldStep == TypeOK /\ Where /\ Counted /\ Held /\ [Next]_vars => Held'
<1> SUFFICES ASSUME TypeOK, Where, Counted, Held, [Next]_vars PROVE Held' OBVIOUS
<1>1. CASE Next BY <1>1, Cases, HeldElsewhere, HeldClick, HeldReport
<1>2. CASE UNCHANGED vars BY <1>2, Stutter DEF Held, Own, Ahead, EvidenceKept, running, output
<1> QED BY <1>1, <1>2

\* A report of its own Click keeps the dumps with packets and removes the others, wherever
\* Click died and whatever stringToInt makes of the lines it did not print.
THEOREM DumpsAsTold == Spec => []EvidenceKept
<1>1. Init => Counted /\ Held BY DEF Init, Counted, Waits, Held
<1>2. TypeOK /\ Where /\ Held => EvidenceKept BY NoneAssumption DEF Where, Held, Own, EvidenceKept
<1>3. Spec => [](TypeOK /\ Where) BY TypedInit, TypedStep, PTL DEF Spec
<1> QED BY <1>1, <1>2, <1>3, CountedStep, HeldStep, PTL DEF Spec
=============================================================================
