------------------------------ MODULE Report ------------------------------
(***************************************************************************)
(* What becomes of a packet's verdict: the part of the click script around *)
(* the firewall (ClickGenerator.generateSimulation) with the elements      *)
(* CopyBuffer, InfoPainter and InfoPrinter, and the report that Statistics *)
(* makes of what the script prints.  The annotations of a packet are       *)
(* pointers to vectors on the heap, and a clone shares its original's      *)
(* bytes until one of the two is changed.                                  *)
(*                                                                         *)
(* The tables are abstracted: a packet may collect texts, be translated,   *)
(* carry a vector of a BacktrackPainter, be lost, and reach any verdict.   *)
(***************************************************************************)
EXTENDS Integers, Sequences, SequencesExt

CONSTANTS
    Block,       \* the traffic blocks
    Policy,      \* Policy[b]: the verdict expected of the packets of block b
    numPackets,  \* numPackets[b]: how many it sends
    Text,        \* what the painters of the tables write
    MaxTexts,    \* bound on the texts of the tables a packet collects
    NoPacket

Verdict == {"ACCEPT", "REJECT", "DROP"}
Null    == 0   \* an annotation without a vector

ASSUME BlockAssumption == IsFiniteSet(Block)
ASSUME PolicyAssumption == Policy \in [Block -> Verdict]
ASSUME NumPacketsAssumption == numPackets \in [Block -> Nat]
ASSUME MaxTextsAssumption == MaxTexts \in Nat

\* InfoPainters: of the script before and behind the firewall, and of the tables.
Info   == [text : Text \cup {"PACKET", ""}, number : Nat]
Packet == [id : Nat, paint : Verdict, bytes : {"sent", "translated"}, info : Nat, stack : Nat]
ASSUME NoPacketAssumption == NoPacket \notin Packet
Place  == {"idle", "copy", "input", "graph", "feedback", "painter", "output"}
Vector == [live : BOOLEAN, items : Seq(Info)]
Entry  == [id : Nat, bytes : {"sent", "translated"}, info : Seq(Info)]
Number == [v \in Verdict |-> CASE v = "ACCEPT" -> 0 [] v = "REJECT" -> 1 [] v = "DROP" -> 2]

VARIABLES
    sent,      \* sent[b]: packets block b has sent
    stops,     \* the blocks whose STOP has reached the DriverManager
    packet,    \* the packet being pushed
    place,     \* the element that will handle it
    slot,      \* CopyBuffer._packet
    shared,    \* packet and slot share their bytes
    heap,      \* the vectors that were ever allocated
    inputCounter,
    counters,  \* ACCEPT_true, ACCEPT_false, ...: counters[v][as expected]
    switch,    \* the output of the Switch
    files,     \* the packets in faulty_accept.dump, ..., with their texts
    printed,   \* statistics.txt, or NoPacket
    report,    \* what the user is told, or NoPacket
    log        \* history: what became of each packet, in order

element == <<packet, place, slot, shared, heap>>
counts  == <<inputCounter, counters, switch>>
vars == <<sent, stops, packet, place, slot, shared, heap, inputCounter, counters, switch, files,
          printed, report, log>>

Sum(f) == MapThenSumSet(LAMBDA x : f[x], DOMAIN f)

-----------------------------------------------------------------------------
(* Sources.  A source pushes each packet to its end; sources take turns.   *)

\* id: what inputCounter will be when it has counted this packet.
EtherEncap(b) == [id |-> inputCounter + 1, paint |-> Policy[b], bytes |-> "sent",
                  info |-> Null, stack |-> Null]

Send(b) ==
    /\ packet = NoPacket /\ sent[b] < numPackets[b]
    /\ sent' = [sent EXCEPT ![b] = @ + 1]
    /\ packet' = EtherEncap(b) /\ place' = "copy"
    /\ UNCHANGED <<stops, slot, shared, heap, counts, files, printed, report, log>>

Stop(b) ==
    /\ packet = NoPacket /\ sent[b] = numPackets[b] /\ b \notin stops
    /\ stops' = stops \cup {b}
    /\ UNCHANGED <<sent, element, counts, files, printed, report, log>>

-----------------------------------------------------------------------------
(* Elements.                                                               *)

Handled == UNCHANGED <<sent, stops, printed, report>>

\* CopyBuffer, input 0.
Copy ==
    /\ place = "copy"
    /\ slot' = packet /\ shared' = TRUE
    /\ place' = "input"
    /\ UNCHANGED <<packet, heap, counts, files, log>> /\ Handled

\* An InfoPainter makes the vector of a packet that has none.
Paint(p, info) ==
    IF p.info = Null
    THEN /\ heap' = Append(heap, [live |-> TRUE, items |-> <<info>>])
         /\ packet' = [p EXCEPT !.info = Len(heap) + 1]
    ELSE /\ heap' = [heap EXCEPT ![p.info].items = Append(@, info)]
         /\ packet' = p

Input ==
    /\ place = "input"
    /\ inputCounter' = inputCounter + 1
    /\ Paint(packet, [text |-> "PACKET", number |-> inputCounter'])
    /\ place' = "graph"
    /\ UNCHANGED <<slot, shared, counters, switch, files, log>> /\ Handled

InfoPainter(t) ==
    /\ place = "graph" /\ Len(heap[packet.info].items) <= MaxTexts
    /\ Paint(packet, [text |-> t, number |-> 0])
    /\ UNCHANGED <<place, slot, shared, counts, files, log>> /\ Handled

\* uniqueify gives the packet bytes of its own before they are changed.
\* Mutant: the bytes it shares are changed.
StaticNatShared ==
    /\ place = "graph" /\ packet.bytes = "sent"
    /\ packet' = [packet EXCEPT !.bytes = "translated"]
    /\ slot' = IF shared THEN [slot EXCEPT !.bytes = "translated"] ELSE slot
    /\ UNCHANGED <<place, shared, heap, counts, files, log>> /\ Handled
StaticNat ==
    /\ place = "graph" /\ packet.bytes = "sent"
    /\ packet' = [packet EXCEPT !.bytes = "translated"]
    /\ shared' = FALSE
    /\ UNCHANGED <<place, slot, heap, counts, files, log>> /\ Handled

BacktrackPainter ==
    /\ place = "graph" /\ packet.stack = Null
    /\ heap' = Append(heap, [live |-> TRUE, items |-> <<>>])
    /\ packet' = [packet EXCEPT !.stack = Len(heap) + 1]
    /\ UNCHANGED <<place, slot, shared, counts, files, log>> /\ Handled

\* A packet is killed: its vectors stay allocated.
Kill == packet' = NoPacket /\ place' = "idle" /\ shared' = FALSE

\* StateMachine, masq or a classifier without a matching output kills the packet.
Lose ==
    /\ place = "graph"
    /\ Kill
    /\ log' = Append(log, [id |-> packet.id, policy |-> packet.paint, verdict |-> "LOST",
                           info |-> heap[packet.info].items])
    /\ UNCHANGED <<slot, heap, counts, files>> /\ Handled

\* CheckPaint, the Counter behind its output, and the Script that sets the switch.
Faulty(p, v) == p.paint # v
\* Mutant: outputs are counted from 1.
OutputFromOne(p, v) == IF Faulty(p, v) THEN Number[v] + 1 ELSE -1
Output(p, v) == IF Faulty(p, v) THEN Number[v] ELSE -1

Judge(v) ==
    /\ place = "graph"
    /\ counters' = [counters EXCEPT ![v][~Faulty(packet, v)] = @ + 1]
    /\ switch' = Output(packet, v)
    /\ place' = "feedback"
    /\ log' = Append(log, [id |-> packet.id, policy |-> packet.paint, verdict |-> v,
                           info |-> heap[packet.info].items])
    /\ UNCHANGED <<packet, slot, shared, heap, inputCounter, files>> /\ Handled

\* Mutant: all annotations are copied.
AnnotatedAll == [slot EXCEPT !.info = packet.info, !.stack = packet.stack]
Annotated == [slot EXCEPT !.info = packet.info]

\* CopyBuffer, input 1: the copy goes on in place of the packet.
Feedback ==
    /\ place = "feedback"
    /\ slot' = Annotated /\ packet' = Annotated /\ shared' = TRUE
    /\ heap' = IF packet.stack = Null THEN heap
               ELSE [heap EXCEPT ![packet.stack].live = FALSE]
    /\ place' = "painter"
    /\ UNCHANGED <<counts, files, log>> /\ Handled

LastPainter ==
    /\ place = "painter"
    /\ Paint(packet, [text |-> "", number |-> 0])
    /\ place' = "output"
    /\ UNCHANGED <<slot, shared, counts, files, log>> /\ Handled

\* Switch, InfoPrinter and ToDump.
WriteFaulty ==
    /\ place = "output" /\ switch # -1
    /\ files' = [v \in Verdict |->
                    IF Number[v] # switch THEN files[v]
                    ELSE Append(files[v], [id |-> packet.id, bytes |-> packet.bytes,
                                           info |-> heap[packet.info].items])]
    /\ heap' = [heap EXCEPT ![packet.info].live = FALSE]
    /\ Kill
    /\ UNCHANGED <<slot, counts, log>> /\ Handled

DiscardCorrect ==
    /\ place = "output" /\ switch = -1
    /\ Kill
    /\ UNCHANGED <<slot, heap, counts, files, log>> /\ Handled

-----------------------------------------------------------------------------
(* The end of the run.                                                     *)

\* DriverManager: as many pauses as there are traffic blocks, then the counters.
\* Mutant: one pause is missing.
PausesFewer == Cardinality(Block) - 1
\* Mutant: one is superfluous.
PausesMore == Cardinality(Block) + 1
Pauses == Cardinality(Block)
PrintCounters ==
    /\ packet = NoPacket /\ Cardinality(stops) >= Pauses /\ printed = NoPacket
    /\ printed' = [input |-> inputCounter, counters |-> counters]
    /\ UNCHANGED <<sent, stops, element, counts, files, report, log>>

\* Statistics.getUserReport.
Subtracted(c) == Sum([v \in Verdict |-> c[v][TRUE] + c[v][FALSE]])
Removed(c) == {v \in Verdict : c[v][FALSE] = 0}

getUserReport ==
    /\ printed # NoPacket /\ report = NoPacket
    /\ report' = [generated |-> printed.input, counters |-> printed.counters,
                  lost |-> printed.input - Subtracted(printed.counters)]
    /\ files' = [v \in Verdict |-> IF v \in Removed(printed.counters) THEN <<>> ELSE files[v]]
    /\ UNCHANGED <<sent, stops, element, counts, printed, log>>

Done == report # NoPacket /\ UNCHANGED vars

-----------------------------------------------------------------------------
Init ==
    /\ sent = [b \in Block |-> 0] /\ stops = {}
    /\ packet = NoPacket /\ place = "idle"
    /\ slot = NoPacket /\ shared = FALSE /\ heap = <<>>
    /\ inputCounter = 0
    /\ counters = [v \in Verdict |-> [expected \in BOOLEAN |-> 0]]
    /\ switch = 0
    /\ files = [v \in Verdict |-> <<>>]
    /\ printed = NoPacket /\ report = NoPacket
    /\ log = <<>>

Graph == (\E t \in Text : InfoPainter(t)) \/ StaticNat \/ BacktrackPainter \/ Lose
         \/ (\E v \in Verdict : Judge(v))
Push  == Copy \/ Input \/ Graph \/ Feedback \/ LastPainter \/ WriteFaulty \/ DiscardCorrect

Next == (\E b \in Block : Send(b) \/ Stop(b)) \/ Push \/ PrintCounters \/ getUserReport \/ Done

\* A push returns, and Click's scheduler runs every task in its turn.
Fairness ==
    /\ WF_vars(Push)
    /\ \A b \in Block : WF_vars(Send(b) \/ Stop(b))
    /\ WF_vars(PrintCounters) /\ WF_vars(getUserReport)

Spec == Init /\ [][Next]_vars /\ Fairness

-----------------------------------------------------------------------------
(* Properties.                                                             *)

Pointer == 0 .. Len(heap)
Carried == packet # NoPacket

(* The variables keep their types: above all, the switch is only ever told *)
(* an output it has (the Scripts behind CheckPaint), and the annotations   *)
(* are vectors that were allocated.                                        *)
TypeOK ==
    /\ sent \in [Block -> Nat] /\ \A b \in Block : sent[b] <= numPackets[b]
    /\ stops \subseteq Block
    /\ \A p \in {packet, slot} \ {NoPacket} :
           p \in Packet /\ p.info \in Pointer /\ p.stack \in Pointer
    /\ place \in Place /\ (place = "idle" <=> ~Carried)
    /\ shared \in BOOLEAN /\ heap \in Seq(Vector) /\ inputCounter \in Nat
    /\ counters \in [Verdict -> [BOOLEAN -> Nat]]
    /\ switch \in -1 .. 2

(* A packet never carries a vector that was freed: CopyBuffer frees the    *)
(* vector of the BacktrackPainters of the packet it kills, and InfoPrinter *)
(* the texts, while the copy goes on with the annotations it was given.    *)
NoDangling ==
    Carried => \A p \in {packet} \cup (IF place = "copy" THEN {} ELSE {slot}) :
                   \A a \in {p.info, p.stack} \ {Null} : heap[a].live

\* The packets that met a verdict, as expected or not, by their places in the log.
Met(v, expected) == {i \in DOMAIN log : log[i].verdict = v /\ (log[i].policy = v) = expected}
Wrong(v) == Met(v, FALSE)
Lost     == {i \in DOMAIN log : log[i].verdict = "LOST"}
AsSent(e) == [id |-> e.id, bytes |-> "sent", info |-> Append(e.info, [text |-> "", number |-> 0])]

(* Between two packets, faulty_accept, faulty_reject and faulty_drop hold  *)
(* exactly the packets that met that verdict against their policy, in      *)
(* order, as they were sent whatever the firewall made of them, each with  *)
(* the texts of its own walk; and the report leaves these files alone.     *)
FilesExact ==
    ~Carried => \A v \in Verdict :
        /\ Len(files[v]) = Cardinality(Wrong(v))
        /\ \A i \in Wrong(v) : files[v][Cardinality(Wrong(v) \cap 1 .. i)] = AsSent(log[i])

(* The report counts every packet of every block: as many as the blocks    *)
(* ask for, each under its verdict, and the rest as lost (getUserReport    *)
(* subtracts six counters that were printed when the last source stopped). *)
LostExact ==
    report # NoPacket =>
        /\ report.generated = Sum(numPackets)
        /\ \A v \in Verdict, expected \in BOOLEAN :
               report.counters[v][expected] = Cardinality(Met(v, expected))
        /\ report.lost = Cardinality(Lost)

(* The run ends with a report: the DriverManager waits for the sources and *)
(* not for anything a lost packet would have done.                         *)
Reported == <>(report # NoPacket)
=============================================================================
